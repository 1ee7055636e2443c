-------------------------- MODULE TorchSecretProofs --------------------------
(***************************************************************************)
(* Proofs about TorchSecret, for any number of secrets, requests, accounts *)
(* and cleanup runs.                                                       *)
(***************************************************************************)
EXTENDS TorchSecretInv, TLAPS

-----------------------------------------------------------------------------
(* Types. *)

LEMMA UnbornType == Unborn \in Row
  BY DEF Unborn, Row, Status

LEMMA GoneType ==
  ASSUME NEW row \in Row
  PROVE  Gone(row) \in Row /\ Gone(row).pw = row.pw /\ Gone(row).life = "gone"
         /\ Gone(row).cipher = "none" /\ Gone(row).status = "active"
  BY DEF Gone, Unborn, Row, Status

LEMMA RowTypes ==
  ASSUME NEW row \in Row
  PROVE  /\ Zeroed(row) \in Row
         /\ Viewed(row) \in Row
         /\ SoftExpired(row) \in Row
         /\ SoftDeleted(row) \in Row
         /\ Counted(row) \in Row
  <1>1. Zeroed(row) \in Row
    BY DEF Zeroed, Row, Status
  <1>2. Viewed(row) \in Row
    BY DEF Viewed, Row, Status
  <1>3. SoftExpired(row) \in Row
    BY DEF SoftExpired, Row, Status
  <1>4. SoftDeleted(row) \in Row
    BY DEF SoftDeleted, Row, Status
  <1>5. Counted(row) \in Row
    BY DEF Counted, Row
  <1> QED  BY <1>1, <1>2, <1>3, <1>4, <1>5

LEMMA ViewType ==
  ASSUME StoreTypeOK, NEW t, NEW s \in Secret
  PROVE  View(t, s) \in Row
  BY DEF StoreTypeOK, View

LEMMA ResultTypes ==
  /\ NoResult \in Result
  /\ Null \in Result
  /\ Failed \in Result
  /\ Deleted \in Result
  /\ \A n \in Nat : Wrong(n) \in Result
  /\ \A row \in Row : Found(row) \in Result
  /\ \A row \in Row : Meta(row) \in Result
  <1>1. NoResult \in Result /\ Null \in Result /\ Failed \in Result /\ Deleted \in Result
    BY DEF NoResult, Null, Failed, Deleted, Result
  <1>2. ASSUME NEW n \in Nat PROVE Wrong(n) \in Result
    BY DEF Wrong, NoResult, Result
  <1>3. ASSUME NEW row \in Row PROVE Found(row) \in Result
    BY DEF Found, NoResult, Result, Row
  <1>4. ASSUME NEW row \in Row PROVE Meta(row) \in Result
    <2>1. row.attempts \in Nat
      BY DEF Row
    <2> DEFINE n == IF row.attempts >= MaxPasswordAttempts THEN 0
                    ELSE MaxPasswordAttempts - row.attempts
    <2>2. n \in Nat
      BY <2>1 DEF MaxPasswordAttempts
    <2> QED  BY <2>2 DEF Meta, NoResult, Result
  <1> QED  BY <1>1, <1>2, <1>3, <1>4

-----------------------------------------------------------------------------
(* How each store operation changes the table. *)

LEMMA PutType ==
  ASSUME StoreTypeOK, NEW t \in Session, NEW s \in Secret, NEW row \in Row,
         Put(t, s, row)
  PROVE  StoreTypeOK'
  BY DEF StoreTypeOK, Put, store

LEMMA AutoPutType ==
  ASSUME StoreTypeOK, NEW s \in Secret, NEW row \in Row, AutoPut(s, row)
  PROVE  StoreTypeOK'
  BY DEF StoreTypeOK, AutoPut, store

LEMMA CommitType ==
  ASSUME StoreTypeOK, NEW t, Commit(t)
  PROVE  StoreTypeOK'
  BY DEF StoreTypeOK, Commit, Release, View

LEMMA RollbackType ==
  ASSUME StoreTypeOK, NEW t, Rollback(t)
  PROVE  StoreTypeOK'
  BY DEF StoreTypeOK, Rollback, Release

-----------------------------------------------------------------------------
(* Versions of a row. *)

LEMMA DescendsRefl ==
  ASSUME NEW a \in Row
  PROVE  Descends(a, a)
  BY DEF Descends, Row

LEMMA DescendsTrans ==
  ASSUME NEW a \in Row, NEW b \in Row, NEW c \in Row, Descends(a, b), Descends(b, c)
  PROVE  Descends(a, c)
  BY DEF Descends, Row

(* What the statements of the handlers and bulk updates make of a live row. *)
LEMMA RowSteps ==
  ASSUME NEW row \in Row, Clean(row), row.life = "live"
  PROVE  /\ Clean(Zeroed(row)) /\ Descends(row, Zeroed(row))
         /\ Clean(SoftDeleted(row)) /\ Descends(row, SoftDeleted(row))
         /\ Clean(Counted(row)) /\ Descends(row, Counted(row))
         /\ Clean(Gone(row)) /\ Descends(row, Gone(row))
         /\ row.cipher # "sealed" =>
              /\ Clean(Viewed(row)) /\ Descends(row, Viewed(row))
              /\ Clean(SoftExpired(row)) /\ Descends(row, SoftExpired(row))
  <1>1. Clean(Zeroed(row)) /\ Descends(row, Zeroed(row))
    BY DEF Zeroed, Clean, Descends, Row
  <1>2. Clean(SoftDeleted(row)) /\ Descends(row, SoftDeleted(row))
    BY DEF SoftDeleted, Clean, Descends, Row
  <1>3. Clean(Counted(row)) /\ Descends(row, Counted(row))
    BY DEF Counted, Clean, Descends, Row
  <1>4. Clean(Gone(row)) /\ Descends(row, Gone(row))
    BY GoneType DEF Clean, Descends
  <1>5. ASSUME row.cipher # "sealed"
        PROVE  /\ Clean(Viewed(row)) /\ Descends(row, Viewed(row))
               /\ Clean(SoftExpired(row)) /\ Descends(row, SoftExpired(row))
    BY <1>5 DEF Viewed, SoftExpired, Clean, Descends, Row
  <1> QED  BY <1>1, <1>2, <1>3, <1>4, <1>5

-----------------------------------------------------------------------------
(* A store operation of session t is sound: it keeps StoreInv, every row    *)
(* only evolves, and the rows other sessions have locked are left alone.    *)

Evolves == \A s \in Secret : Descends(committed[s], committed'[s])

Spares(q) ==
    \A s \in Secret :
        /\ holder[s] = q => /\ holder'[s] = q
                            /\ draft'[s] = draft[s]
                            /\ committed'[s] = committed[s]
        /\ holder[s] # q => holder'[s] # q

Sound(t) ==
    /\ StoreTypeOK'
    /\ StoreInv'
    /\ Evolves
    /\ \A q \in Session : q # t => Spares(q)

LEMMA SoundIdle ==
  ASSUME StoreTypeOK, StoreInv, UNCHANGED store, NEW t
  PROVE  Sound(t)
  BY DescendsRefl DEF Sound, StoreTypeOK, StoreInv, Evolves, Spares, store, Clean

LEMMA SoundPut ==
  ASSUME StoreTypeOK, StoreInv, NEW t \in Session, NEW s \in Secret, NEW row \in Row,
         Put(t, s, row),
         Exists(t, s) => Clean(row) /\ Descends(View(t, s), row)
  PROVE  Sound(t)
  <1>1. CASE ~Exists(t, s)
    BY <1>1, SoundIdle DEF Put
  <1>2. CASE Exists(t, s)
    <2>1. StoreTypeOK'
      BY PutType
    <2>2. /\ committed' = committed
          /\ draft' = [draft EXCEPT ![s] = row]
          /\ holder' = [holder EXCEPT ![s] = t]
          /\ holder[s] \in {t, NoSession}
      BY <1>2 DEF Put, Unlocked
    <2>3. Evolves
      BY <2>2, DescendsRefl DEF Evolves, StoreTypeOK
    <2>4. Descends(committed[s], row) /\ committed[s].life = "live"
      <3>1. View(t, s) \in Row /\ committed[s] \in Row /\ View(t, s).life = "live"
        BY <1>2, ViewType DEF Exists, StoreTypeOK
      <3>2. Descends(committed[s], View(t, s))
        BY DescendsRefl, <3>1 DEF View, StoreInv
      <3>3. committed[s].life = "live"
        BY <2>2, <3>1, RowStoreAssumption DEF View, StoreInv
      <3> QED  BY <1>2, <3>1, <3>2, <3>3, DescendsTrans
    <2>5. StoreInv'
      <3> SUFFICES ASSUME NEW x \in Secret
                   PROVE  /\ Clean(committed[x]')
                          /\ Clean(draft[x]')
                          /\ holder'[x] = NoSession => draft'[x] = committed'[x]
                          /\ holder'[x] # NoSession => committed'[x].life = "live"
                          /\ Descends(committed'[x], draft'[x])
        BY DEF StoreInv
      <3>1. CASE x = s
        BY <3>1, <2>2, <2>4, <1>2, RowStoreAssumption DEF StoreInv, StoreTypeOK
      <3>2. CASE x # s
        BY <3>2, <2>2 DEF StoreInv, StoreTypeOK
      <3> QED  BY <3>1, <3>2
    <2>6. \A q \in Session : q # t => Spares(q)
      BY <2>2, RowStoreAssumption DEF Spares, StoreTypeOK
    <2> QED  BY <2>1, <2>3, <2>5, <2>6 DEF Sound
  <1> QED  BY <1>1, <1>2

LEMMA SoundAuto ==
  ASSUME StoreTypeOK, StoreInv, NEW t, NEW s \in Secret, NEW row \in Row,
         holder[s] = NoSession,
         Clean(row), Descends(committed[s], row),
         committed' = [committed EXCEPT ![s] = row],
         draft' = [draft EXCEPT ![s] = row],
         UNCHANGED holder
  PROVE  Sound(t)
  <1>1. StoreTypeOK'
    BY DEF StoreTypeOK
  <1>2. Evolves
    BY DescendsRefl DEF Evolves, StoreTypeOK
  <1>3. StoreInv'
    <2> SUFFICES ASSUME NEW x \in Secret
                 PROVE  /\ Clean(committed[x]')
                        /\ Clean(draft[x]')
                        /\ holder'[x] = NoSession => draft'[x] = committed'[x]
                        /\ holder'[x] # NoSession => committed'[x].life = "live"
                        /\ Descends(committed'[x], draft'[x])
      BY DEF StoreInv
    <2>1. CASE x = s
      BY <2>1, DescendsRefl DEF StoreTypeOK
    <2>2. CASE x # s
      BY <2>2 DEF StoreTypeOK, StoreInv
    <2> QED  BY <2>1, <2>2
  <1>4. \A q \in Session : Spares(q)
    BY RowStoreAssumption DEF Spares, StoreTypeOK
  <1> QED  BY <1>1, <1>2, <1>3, <1>4 DEF Sound

LEMMA SoundAutoPut ==
  ASSUME StoreTypeOK, StoreInv, NEW t, NEW s \in Secret, NEW row \in Row,
         AutoPut(s, row),
         committed[s].life = "live" => Clean(row) /\ Descends(committed[s], row)
  PROVE  Sound(t)
  BY SoundAuto, SoundIdle DEF AutoPut

LEMMA SoundAutoInsert ==
  ASSUME StoreTypeOK, StoreInv, NEW t, NEW s \in Secret, NEW row \in Row,
         AutoInsert(s, row), Clean(row)
  PROVE  Sound(t)
  <1>1. holder[s] = NoSession
    BY DEF AutoInsert, StoreInv
  <1>2. Descends(committed[s], row)
    BY DEF AutoInsert, StoreInv, Clean, Descends
  <1> QED  BY <1>1, <1>2, SoundAuto DEF AutoInsert

LEMMA SoundLockRow ==
  ASSUME StoreTypeOK, StoreInv, NEW t \in Session, NEW s \in Secret, LockRow(t, s)
  PROVE  Sound(t)
  <1>1. /\ holder[s] \in {t, NoSession}
        /\ holder' = [holder EXCEPT ![s] = t]
        /\ UNCHANGED <<committed, draft>>
    BY DEF LockRow, Unlocked
  <1>2. StoreTypeOK'
    BY <1>1 DEF StoreTypeOK
  <1>3. Evolves
    BY <1>1, DescendsRefl DEF Evolves, StoreTypeOK
  <1>4. committed[s].life = "live"
    BY <1>1, RowStoreAssumption DEF StoreInv, LockRow, Exists, View
  <1>5. StoreInv'
    BY <1>1, <1>4, RowStoreAssumption DEF StoreInv, StoreTypeOK, Clean
  <1>6. \A q \in Session : q # t => Spares(q)
    BY <1>1, RowStoreAssumption DEF Spares, StoreTypeOK
  <1> QED  BY <1>2, <1>3, <1>5, <1>6 DEF Sound

LEMMA SoundCommit ==
  ASSUME StoreTypeOK, StoreInv, NEW t \in Session, Commit(t)
  PROVE  /\ Sound(t)
         /\ \A s \in Secret : committed'[s] = View(t, s) /\ holder'[s] # t
  <1>1. \A s \in Secret :
           IF holder[s] = t
             THEN committed'[s] = draft[s] /\ draft'[s] = draft[s] /\ holder'[s] = NoSession
             ELSE committed'[s] = committed[s] /\ draft'[s] = draft[s] /\ holder'[s] = holder[s]
    BY DEF Commit, Release, View
  <1>2. StoreTypeOK'
    BY CommitType
  <1>3. Evolves
    BY <1>1, DescendsRefl DEF Evolves, StoreTypeOK, StoreInv
  <1>4. StoreInv'
    <2> SUFFICES ASSUME NEW x \in Secret
                 PROVE  /\ Clean(committed[x]')
                        /\ Clean(draft[x]')
                        /\ holder'[x] = NoSession => draft'[x] = committed'[x]
                        /\ holder'[x] # NoSession => committed'[x].life = "live"
                        /\ Descends(committed'[x], draft'[x])
      BY DEF StoreInv
    <2>1. CASE holder[x] = t
      BY <2>1, <1>1, DescendsRefl DEF StoreInv, StoreTypeOK
    <2>2. CASE holder[x] # t
      BY <2>2, <1>1 DEF StoreInv
    <2> QED  BY <2>1, <2>2
  <1>5. \A q \in Session : q # t => Spares(q)
    BY <1>1, RowStoreAssumption DEF Spares
  <1>6. \A s \in Secret : committed'[s] = View(t, s) /\ holder'[s] # t
    BY <1>1, RowStoreAssumption DEF View
  <1> QED  BY <1>2, <1>3, <1>4, <1>5, <1>6 DEF Sound

LEMMA SoundRollback ==
  ASSUME StoreTypeOK, StoreInv, NEW t \in Session, Rollback(t)
  PROVE  /\ Sound(t)
         /\ \A s \in Secret : holder'[s] # t
  <1>1. \A s \in Secret :
           /\ committed'[s] = committed[s]
           /\ IF holder[s] = t
                THEN draft'[s] = committed[s] /\ holder'[s] = NoSession
                ELSE draft'[s] = draft[s] /\ holder'[s] = holder[s]
    BY DEF Rollback, Release
  <1>2. StoreTypeOK'
    BY RollbackType
  <1>3. Evolves
    BY <1>1, DescendsRefl DEF Evolves, StoreTypeOK
  <1>4. StoreInv'
    BY <1>1, DescendsRefl DEF StoreInv, StoreTypeOK, Clean
  <1>5. \A q \in Session : q # t => Spares(q)
    BY <1>1, RowStoreAssumption DEF Spares
  <1>6. \A s \in Secret : holder'[s] # t
    BY <1>1, RowStoreAssumption
  <1> QED  BY <1>2, <1>3, <1>4, <1>5, <1>6 DEF Sound

-----------------------------------------------------------------------------
(* A request that takes no step keeps its invariant while the table evolves *)
(* and its own locked row is left alone.                                    *)

Same(q) ==
    /\ pc'[q] = pc[q]
    /\ call'[q] = call[q]
    /\ seen'[q] = seen[q]
    /\ result'[q] = result[q]

LEMMA OthersKeepInv ==
  ASSUME TypeOK, StoreInv, NEW q \in Request, RequestInv(q), Same(q),
         StoreTypeOK', Evolves, Spares(q)
  PROVE  RequestInv(q)'
  <1> DEFINE s == call[q].id
  <1>1. KindOfOp(q)'
    BY DEF RequestInv, KindOfOp, Same
  <1>2. CASE pc[q] = "idle"
    <2>1. \A x \in Secret : holder'[x] # q
      BY <1>2 DEF RequestInv, WorkInv, Lockless, Spares
    <2> QED
      BY <1>1, <1>2, <2>1 DEF RequestInv, KindOfOp, WorkInv, AnswerInv, Same, Erasing, Locked,
         Lockless, Answered
  <1>3. CASE pc[q] # "idle"
    <2>1. s \in Secret /\ committed[s] \in Row /\ committed'[s] \in Row
      BY <1>3 DEF RequestInv, KindOfOp, TypeOK, StoreTypeOK
    <2>2. committed[s].life # "unborn" /\ Descends(committed[s], committed'[s])
      BY <1>3, <2>1 DEF RequestInv, WorkInv, Evolves
    <2>3. committed'[s].life # "unborn" /\ committed'[s].pw = committed[s].pw
      BY <2>2 DEF Descends
    <2>4. committed[s].cipher # "sealed" => committed'[s].cipher # "sealed"
      BY <2>2 DEF Descends
    <2>5. /\ holder[s] = q => /\ holder'[s] = q
                              /\ draft'[s] = draft[s]
                              /\ committed'[s] = committed[s]
          /\ holder[s] # q => holder'[s] # q
      BY <2>1 DEF Spares
    <2>6. View(q, s).cipher # "sealed" => View(q, s)'.cipher # "sealed"
      BY <2>4, <2>5 DEF View, Same
    <2>7. Lockless(q) => \A x \in Secret : holder'[x] # q
      BY DEF RequestInv, WorkInv, Spares
    <2>8. WorkInv(q)'
      <3>1. /\ call'[q].id = s
            /\ Lockless(q)' = Lockless(q)
            /\ Erasing(q)' = Erasing(q)
            /\ Locked(q)' = Locked(q)
            /\ Answered(q)' = Answered(q)
        BY DEF Same, Lockless, Erasing, Locked, Answered
      <3>2. result[q].kind = "wrong" /\ ~Answered(q) => Counting(q)'
        <4> SUFFICES ASSUME result[q].kind = "wrong", ~Answered(q)
                     PROVE  Counting(q)'
          OBVIOUS
        <4>1. pc[q] \in {"purge", "remove", "count", "commit"} /\ call[q].op = "verify"
          BY <1>3 DEF RequestInv, KindOfOp, Answered, TypeOK, Location
        <4>2. Locked(q)
          BY <4>1 DEF Locked
        <4>3. holder[s] = q /\ Counting(q)
          BY <4>2 DEF RequestInv, WorkInv
        <4> QED  BY <4>3, <2>5 DEF Counting, Same
      <3> QED
        BY <2>3, <2>5, <2>6, <2>7, <3>1, <3>2 DEF RequestInv, WorkInv, Same
    <2>9. AnswerInv(q)'
      <3> SUFFICES ASSUME Answered(q)
                   PROVE  AnswerInv(q)'
        BY DEF AnswerInv, Answered, Same
      <3>1. AnswerInv(q) /\ result[q].left \in Nat
        BY DEF RequestInv, TypeOK, Result
      <3>2. CASE result[q].kind \in {"ok", "deleted"}
        BY <3>1, <3>2, <2>4 DEF AnswerInv, Same
      <3>3. CASE result[q].kind = "wrong"
        <4>1. committed'[s].life \in {"live", "gone"}
          BY <2>1, <2>3 DEF Row
        <4>2. committed[s].attempts \in Nat /\ committed'[s].attempts \in Nat
          BY <2>1 DEF Row
        <4>3. committed[s].life = "gone" => committed'[s].life = "gone"
          BY <2>2 DEF Descends
        <4>4. committed[s].life = "live" /\ committed'[s].life = "live" =>
                 committed'[s].attempts >= committed[s].attempts
          BY <2>2 DEF Descends
        <4> QED
          BY <3>1, <3>3, <4>1, <4>2, <4>3, <4>4 DEF AnswerInv, Same, MaxPasswordAttempts
      <3>4. CASE result[q].kind \notin {"ok", "deleted", "wrong"}
        BY <3>4 DEF AnswerInv, Same
      <3> QED  BY <3>2, <3>3, <3>4
    <2> QED  BY <1>1, <2>8, <2>9 DEF RequestInv
  <1> QED  BY <1>2, <1>3

-----------------------------------------------------------------------------
(* The steps of a request. *)

RequestTypeOK ==
    /\ pc \in [Request -> Location]
    /\ call \in [Request -> Call]
    /\ seen \in [Request -> Row]
    /\ result \in [Request -> Result]
    /\ mail \in SUBSET Request

Base == TypeOK /\ StoreInv /\ \A r \in Request : RequestInv(r)

GoodStep(r) ==
    /\ Sound(r)
    /\ RequestTypeOK'
    /\ RequestInv(r)'
    /\ \A q \in Request : q # r => Same(q)

LEMMA RetrieveSelectStep ==
  ASSUME Base, NEW r \in Request, RetrieveSelect(r)
  PROVE  GoodStep(r)
  <1>1. PICK s \in Secret : s = call[r].id /\ call'[r].id = s
    BY DEF Base, RequestInv, KindOfOp, RetrieveSelect, At, Select
  <1>2. UNCHANGED store /\ Sound(r)
    BY SoundIdle DEF Base, TypeOK, RetrieveSelect, Select
  <1>3. RequestTypeOK' /\ \A q \in Request : q # r => Same(q)
    BY <1>1, ViewType, ResultTypes DEF RequestTypeOK, Same, Base, TypeOK, RetrieveSelect, Select,
       Return, Goto, Location
  <1>4. RequestInv(r)'
    <2>1. call' = call /\ call[r].op = "get" /\ committed' = committed /\ holder' = holder
          /\ draft' = draft
      BY <1>2 DEF RetrieveSelect, Select, At, store
    <2>2. KindOfOp(r) /\ WorkInv(r) /\ pc[r] = "asked"
      BY DEF Base, RequestInv, RetrieveSelect, At
    <2>3. CASE Exists(r, s)
      <3>1. pc'[r] = "read" /\ result' = result /\ seen'[r] = committed[s]
        BY <2>2, <2>3, <1>1 DEF RetrieveSelect, Select, Goto, Base, TypeOK, WorkInv, Lockless, View
      <3>2. KindOfOp(r)'
        BY <2>1, <2>2, <3>1 DEF KindOfOp
      <3>3. WorkInv(r)'
        BY <1>1, <2>1, <2>2, <3>1 DEF WorkInv, Lockless, Erasing, Locked, KindOfOp, Answered
      <3>4. AnswerInv(r)'
        BY <3>1 DEF AnswerInv, Answered
      <3> QED  BY <3>2, <3>3, <3>4 DEF RequestInv
    <2>4. CASE ~Exists(r, s)
      <3>1. pc'[r] = "commit" /\ result'[r].kind = "null"
        BY <2>4, <1>1 DEF RetrieveSelect, Select, Return, Goto, Base, TypeOK, Null, NoResult
      <3>2. KindOfOp(r)'
        BY <2>1, <2>2, <3>1 DEF KindOfOp
      <3>3. WorkInv(r)'
        BY <1>1, <2>1, <2>2, <3>1 DEF WorkInv, Lockless, Erasing, Locked, KindOfOp, Answered
      <3>4. AnswerInv(r)'
        BY <3>1 DEF AnswerInv, Answered
      <3> QED  BY <3>2, <3>3, <3>4 DEF RequestInv
    <2> QED  BY <2>3, <2>4
  <1> QED  BY <1>2, <1>3, <1>4 DEF GoodStep

(* What a request under way knows before its next step. *)
LEMMA Known ==
  ASSUME Base, NEW r \in Request, pc[r] # "idle"
  PROVE  /\ r \in Session
         /\ StoreTypeOK /\ StoreInv /\ RequestTypeOK
         /\ KindOfOp(r) /\ WorkInv(r) /\ AnswerInv(r)
         /\ \E s \in Secret :
              /\ s = call[r].id
              /\ committed[s] \in Row /\ draft[s] \in Row /\ View(r, s) \in Row
              /\ Clean(committed[s]) /\ Clean(View(r, s))
              /\ committed[s].life # "unborn"
  <1>1. KindOfOp(r) /\ WorkInv(r) /\ AnswerInv(r)
    BY DEF Base, RequestInv
  <1>2. r \in Session
    BY SecretsAssumption
  <1>3. call[r].id \in Secret
    BY <1>1 DEF KindOfOp
  <1>4. StoreTypeOK /\ StoreInv /\ RequestTypeOK
    BY DEF Base, TypeOK, RequestTypeOK
  <1>5. /\ committed[call[r].id] \in Row /\ draft[call[r].id] \in Row
        /\ View(r, call[r].id) \in Row
    BY <1>3, <1>4, ViewType DEF StoreTypeOK
  <1>6. Clean(committed[call[r].id]) /\ Clean(View(r, call[r].id))
    BY <1>3, <1>4 DEF StoreInv, View
  <1>7. committed[call[r].id].life # "unborn"
    BY <1>1 DEF WorkInv
  <1> QED  BY <1>1, <1>2, <1>3, <1>4, <1>5, <1>6, <1>7

LEMMA PutEffect ==
  ASSUME StoreTypeOK, NEW t \in Session, NEW s \in Secret, NEW row, Put(t, s, row)
  PROVE  /\ committed' = committed
         /\ View(t, s)' = IF Exists(t, s) THEN row ELSE View(t, s)
         /\ holder[s] = t => holder'[s] = t
  BY DEF StoreTypeOK, Put, View, store

LEMMA RetrieveCheckStep ==
  ASSUME Base, NEW r \in Request, RetrieveCheck(r)
  PROVE  GoodStep(r)
  <1>1. pc[r] = "read" /\ call[r].op = "get"
    BY DEF RetrieveCheck, At
  <1>2. PICK s \in Secret : s = call[r].id
    BY <1>1, Known
  <1>3. /\ UNCHANGED store /\ Sound(r)
        /\ committed' = committed /\ holder' = holder /\ draft' = draft
        /\ call' = call /\ seen' = seen
    BY SoundIdle DEF Base, TypeOK, RetrieveCheck, Decide, store
  <1>4. RequestTypeOK' /\ \A q \in Request : q # r => Same(q)
    BY ResultTypes DEF RequestTypeOK, Same, Base, TypeOK, RetrieveCheck, Decide,
       Return, Goto, Location
  <1>5. \/ pc'[r] \in {"purge", "commit"} /\ result'[r].kind = "null"
        \/ pc'[r] = "zero" /\ result' = result /\ ~seen[r].pw
    BY DEF RetrieveCheck, Return, Goto, Base, TypeOK, Null, NoResult
  <1>6. RequestInv(r)'
    <2>1. KindOfOp(r) /\ WorkInv(r)
      BY <1>1, Known
    <2>2. KindOfOp(r)'
      BY <1>1, <1>3, <1>5, <2>1 DEF KindOfOp
    <2>3. WorkInv(r)'
      BY <1>1, <1>2, <1>3, <1>5, <2>1 DEF WorkInv, Lockless, Erasing, Locked, KindOfOp, Answered
    <2>4. AnswerInv(r)'
      BY <1>5 DEF AnswerInv, Answered
    <2> QED  BY <2>2, <2>3, <2>4 DEF RequestInv
  <1> QED  BY <1>3, <1>4, <1>6 DEF GoodStep

(* UPDATE ... SET ciphertext = zeros, of both kinds of retrieval. *)
LEMMA ZeroThenStep ==
  ASSUME Base, NEW r \in Request, NEW loc, call[r].op \in {"get", "verify"},
         \/ pc[r] = "purge" /\ loc = "remove"
         \/ pc[r] = "zero" /\ loc = "consume",
         ZeroThen(r, loc)
  PROVE  GoodStep(r)
  <1>1. pc[r] # "idle"
    OBVIOUS
  <1>2. PICK s \in Secret :
           /\ s = call[r].id
           /\ committed[s] \in Row /\ draft[s] \in Row /\ View(r, s) \in Row
           /\ Clean(committed[s]) /\ Clean(View(r, s))
           /\ committed[s].life # "unborn"
    BY <1>1, Known
  <1>3. r \in Session /\ StoreTypeOK /\ StoreInv /\ KindOfOp(r) /\ WorkInv(r)
    BY <1>1, Known
  <1>4. /\ Put(r, s, Zeroed(View(r, s)))
        /\ call' = call /\ seen' = seen /\ result' = result
        /\ pc' = [pc EXCEPT ![r] = loc] /\ mail' = mail
    BY <1>2 DEF ZeroThen, Write, Latest, Goto
  <1>5. Sound(r)
    BY <1>2, <1>3, <1>4, SoundPut, RowTypes, RowSteps DEF Exists
  <1>6. RequestTypeOK' /\ \A q \in Request : q # r => Same(q)
    BY <1>4 DEF RequestTypeOK, Same, Base, TypeOK, Location
  <1>7. /\ committed' = committed
        /\ View(r, s)'.cipher # "sealed"
        /\ holder[s] = r => holder'[s] = r
    BY <1>2, <1>3, <1>4, PutEffect DEF Exists, Clean, Zeroed, Row
  <1>8. RequestInv(r)'
    <2>1. pc'[r] = loc
      BY <1>4 DEF Base, TypeOK
    <2>2. KindOfOp(r)'
      BY <1>3, <1>4, <2>1 DEF KindOfOp
    <2>3. WorkInv(r)'
      BY <1>2, <1>3, <1>4, <1>7, <2>1
         DEF WorkInv, Lockless, Erasing, Locked, KindOfOp, Answered, Counting
    <2>4. AnswerInv(r)'
      BY <2>1 DEF AnswerInv, Answered
    <2> QED  BY <2>2, <2>3, <2>4 DEF RequestInv
  <1> QED  BY <1>5, <1>6, <1>8 DEF GoodStep

(* The second half of zero-then-delete. *)
LEMMA RemoveStep ==
  ASSUME Base, NEW r \in Request, call[r].op \in {"get", "verify"}, pc[r] = "remove",
         Remove(r)
  PROVE  GoodStep(r)
  <1>1. pc[r] # "idle"
    OBVIOUS
  <1>2. PICK s \in Secret :
           /\ s = call[r].id
           /\ committed[s] \in Row /\ draft[s] \in Row /\ View(r, s) \in Row
           /\ Clean(committed[s]) /\ Clean(View(r, s))
           /\ committed[s].life # "unborn"
    BY <1>1, Known
  <1>3. r \in Session /\ StoreTypeOK /\ StoreInv /\ KindOfOp(r) /\ WorkInv(r)
    BY <1>1, Known
  <1>4. /\ Put(r, s, Gone(View(r, s)))
        /\ call' = call /\ seen' = seen /\ result' = result
        /\ pc' = [pc EXCEPT ![r] = "commit"] /\ mail' = mail
    BY <1>2 DEF Remove, Write, Latest, Goto
  <1>5. Sound(r)
    BY <1>2, <1>3, <1>4, SoundPut, GoneType, RowSteps DEF Exists
  <1>6. RequestTypeOK' /\ \A q \in Request : q # r => Same(q)
    BY <1>4 DEF RequestTypeOK, Same, Base, TypeOK, Location
  <1>7. /\ committed' = committed
        /\ View(r, s)' = IF Exists(r, s) THEN Gone(View(r, s)) ELSE View(r, s)
        /\ holder[s] = r => holder'[s] = r
    BY <1>2, <1>3, <1>4, PutEffect
  <1>8. RequestInv(r)'
    <2>1. pc'[r] = "commit"
      BY <1>4 DEF Base, TypeOK
    <2>2. KindOfOp(r)'
      BY <1>3, <1>4, <2>1 DEF KindOfOp
    <2>3. Erasing(r)' => View(r, s)'.cipher # "sealed"
      BY <1>2, <1>7, GoneType DEF Exists, Clean
    <2>4. result[r].kind = "wrong" => Counting(r)'
      <3> SUFFICES ASSUME result[r].kind = "wrong"  PROVE Counting(r)'
        OBVIOUS
      <3>1. holder[s] = r /\ result[r].left = 0 /\ holder'[s] = r
        BY <1>2, <1>3, <1>7 DEF WorkInv, Locked, KindOfOp, Counting, Answered
      <3>2. draft'[s].life = "gone"
        BY <3>1, <1>2, <1>3, <1>7, GoneType DEF View, Exists, Clean, StoreInv, Descends, Row
      <3> QED  BY <1>2, <1>4, <2>1, <3>1, <3>2 DEF Counting
    <2>5. WorkInv(r)'
      BY <1>2, <1>3, <1>4, <1>7, <2>1, <2>3, <2>4
         DEF WorkInv, Lockless, Locked, KindOfOp, Answered
    <2>6. AnswerInv(r)'
      BY <2>1 DEF AnswerInv, Answered
    <2> QED  BY <2>2, <2>5, <2>6 DEF RequestInv
  <1> QED  BY <1>5, <1>6, <1>8 DEF GoodStep

(* The last write of a successful retrieval, of both kinds. *)
LEMMA ConsumeStep ==
  ASSUME Base, NEW r \in Request, call[r].op \in {"get", "verify"}, pc[r] = "consume",
         Consume(r)
  PROVE  GoodStep(r)
  <1>1. pc[r] # "idle"
    OBVIOUS
  <1>2. PICK s \in Secret :
           /\ s = call[r].id
           /\ committed[s] \in Row /\ draft[s] \in Row /\ View(r, s) \in Row
           /\ Clean(committed[s]) /\ Clean(View(r, s))
           /\ committed[s].life # "unborn"
    BY <1>1, Known
  <1>3. r \in Session /\ StoreTypeOK /\ StoreInv /\ KindOfOp(r) /\ WorkInv(r)
    BY <1>1, Known
  <1>4. View(r, s).cipher # "sealed"
    BY <1>2, <1>3 DEF WorkInv, Erasing
  <1> DEFINE row == IF seen[r].owner # NoUser THEN Viewed(View(r, s)) ELSE Gone(View(r, s))
  <1>5. /\ Put(r, s, row)
        /\ call' = call /\ seen' = seen
        /\ result' = [result EXCEPT ![r] = Found(seen[r])]
        /\ pc' = [pc EXCEPT ![r] = "commit"] /\ mail' \in SUBSET (mail \cup {r})
    BY <1>2 DEF Consume, Write, Latest, Return, Goto
  <1>6. row \in Row /\ row.cipher # "sealed"
    BY <1>2, <1>4, GoneType, RowTypes DEF Viewed, Row
  <1>7. Sound(r)
    <2>1. Exists(r, s) => Clean(row) /\ Descends(View(r, s), row)
      BY <1>2, <1>4, RowSteps DEF Exists
    <2> QED  BY <1>3, <1>5, <1>6, <2>1, SoundPut
  <1>8. RequestTypeOK' /\ \A q \in Request : q # r => Same(q)
    BY <1>5, ResultTypes DEF RequestTypeOK, Same, Base, TypeOK, Location
  <1>9. /\ committed' = committed
        /\ View(r, s)'.cipher # "sealed"
        /\ holder[s] = r => holder'[s] = r
    BY <1>2, <1>3, <1>4, <1>5, <1>6, PutEffect
  <1>10. RequestInv(r)'
    <2>1. pc'[r] = "commit" /\ result'[r].kind = "ok" /\ result'[r].cipher = seen[r].cipher
      BY <1>5 DEF Base, TypeOK, Found, NoResult
    <2>2. KindOfOp(r)'
      BY <1>2, <1>3, <1>5, <2>1 DEF KindOfOp
    <2>3. WorkInv(r)'
      BY <1>2, <1>3, <1>5, <1>9, <2>1
         DEF WorkInv, Lockless, Erasing, Locked, KindOfOp
    <2>4. AnswerInv(r)'
      BY <2>1 DEF AnswerInv, Answered
    <2> QED  BY <2>2, <2>3, <2>4 DEF RequestInv
  <1> QED  BY <1>7, <1>8, <1>10 DEF GoodStep

LEMMA VerifyLockStep ==
  ASSUME Base, NEW r \in Request, VerifyLock(r)
  PROVE  GoodStep(r)
  <1>1. pc[r] = "asked" /\ call[r].op = "verify"
    BY DEF VerifyLock, At
  <1>2. PICK s \in Secret : s = call[r].id
    BY <1>1, Known
  <1>3. /\ r \in Session /\ StoreTypeOK /\ StoreInv /\ KindOfOp(r) /\ WorkInv(r)
        /\ call' = call /\ seen' = seen /\ mail' = mail
    BY <1>1, Known DEF VerifyLock
  <1>4. CASE LockRow(r, s) /\ Goto(r, "locked") /\ UNCHANGED result
    <2>1. Sound(r)
      BY <1>3, <1>4, SoundLockRow
    <2>2. RequestTypeOK' /\ \A q \in Request : q # r => Same(q)
      BY <1>3, <1>4 DEF Goto, RequestTypeOK, Same, Base, TypeOK, Location
    <2>3. /\ pc'[r] = "locked" /\ result' = result
          /\ holder[s] # r /\ holder[s] \in {r, NoSession}
          /\ holder'[s] = r /\ committed' = committed /\ draft' = draft
      BY <1>1, <1>3, <1>4 DEF Goto, Base, TypeOK, StoreTypeOK, LockRow, Unlocked, WorkInv, Lockless
    <2>4. draft[s] = committed[s]
      BY <1>3, <2>3 DEF StoreInv
    <2>5. KindOfOp(r)'
      BY <1>1, <1>3, <2>3 DEF KindOfOp
    <2>6. WorkInv(r)'
      BY <1>1, <1>2, <1>3, <2>3, <2>4
         DEF WorkInv, Lockless, Erasing, Locked, KindOfOp, Answered
    <2>7. AnswerInv(r)'
      BY <2>3 DEF AnswerInv, Answered
    <2> QED  BY <2>1, <2>2, <2>5, <2>6, <2>7 DEF GoodStep, RequestInv
  <1>5. CASE Return(r, Null, "commit") /\ UNCHANGED store
    <2>1. Sound(r)
      BY <1>3, <1>5, SoundIdle
    <2>2. RequestTypeOK' /\ \A q \in Request : q # r => Same(q)
      BY <1>3, <1>5, ResultTypes DEF Return, Goto, RequestTypeOK, Same, Base, TypeOK, Location
    <2>3. /\ pc'[r] = "commit" /\ result'[r].kind = "null"
          /\ holder' = holder /\ committed' = committed /\ draft' = draft
      BY <1>5 DEF Return, Goto, Base, TypeOK, store, Null, NoResult
    <2>4. KindOfOp(r)'
      BY <1>1, <1>3, <2>3 DEF KindOfOp
    <2>5. WorkInv(r)'
      BY <1>1, <1>2, <1>3, <2>3 DEF WorkInv, Lockless, Erasing, Locked, KindOfOp, Answered
    <2>6. AnswerInv(r)'
      BY <2>3 DEF AnswerInv, Answered
    <2> QED  BY <2>1, <2>2, <2>4, <2>5, <2>6 DEF GoodStep, RequestInv
  <1> QED  BY <1>2, <1>4, <1>5 DEF VerifyLock

LEMMA VerifySelectStep ==
  ASSUME Base, NEW r \in Request, VerifySelect(r)
  PROVE  GoodStep(r)
  <1>1. pc[r] = "locked" /\ call[r].op = "verify"
    BY DEF VerifySelect, At
  <1>2. PICK s \in Secret : s = call[r].id
    BY <1>1, Known
  <1>3. /\ StoreTypeOK /\ StoreInv /\ KindOfOp(r) /\ WorkInv(r)
        /\ UNCHANGED store /\ call' = call /\ Sound(r)
        /\ committed' = committed /\ holder' = holder /\ draft' = draft
    BY <1>1, Known, SoundIdle DEF VerifySelect, Select, store
  <1>4. RequestTypeOK' /\ \A q \in Request : q # r => Same(q)
    BY <1>2, ViewType, ResultTypes DEF RequestTypeOK, Same, Base, TypeOK, VerifySelect, Select,
       Return, Goto, Location
  <1>5. holder[s] = r /\ draft[s] = committed[s]
    BY <1>1, <1>2, <1>3 DEF WorkInv, Locked
  <1>6. \/ pc'[r] = "read" /\ result' = result /\ seen'[r] = committed[s]
        \/ pc'[r] = "commit" /\ result'[r].kind = "null"
    BY <1>2, <1>5 DEF VerifySelect, Select, View, Return, Goto, Base, TypeOK, Null, NoResult
  <1>7. KindOfOp(r)'
    BY <1>1, <1>3, <1>6 DEF KindOfOp
  <1>8. WorkInv(r)'
    BY <1>1, <1>2, <1>3, <1>5, <1>6 DEF WorkInv, Lockless, Erasing, Locked, KindOfOp, Answered
  <1>9. AnswerInv(r)'
    BY <1>6 DEF AnswerInv, Answered
  <1> QED  BY <1>3, <1>4, <1>7, <1>8, <1>9 DEF GoodStep, RequestInv

LEMMA VerifyCheckStep ==
  ASSUME Base, NEW r \in Request, VerifyCheck(r)
  PROVE  GoodStep(r)
  <1>1. pc[r] = "read" /\ call[r].op = "verify"
    BY DEF VerifyCheck, At
  <1>2. PICK s \in Secret : s = call[r].id /\ committed[s] \in Row
    BY <1>1, Known
  <1>3. /\ StoreTypeOK /\ StoreInv /\ KindOfOp(r) /\ WorkInv(r)
        /\ UNCHANGED store /\ call' = call /\ seen' = seen /\ Sound(r)
        /\ committed' = committed /\ holder' = holder /\ draft' = draft
    BY <1>1, Known, SoundIdle DEF VerifyCheck, Decide, store
  <1>4. holder[s] = r /\ draft[s] = committed[s] /\ seen[r] = committed[s]
    BY <1>1, <1>2, <1>3 DEF WorkInv, Locked
  <1>5. seen[r].attempts \in Nat
    BY <1>2, <1>4 DEF Row
  <1> DEFINE attempts == seen[r].attempts + 1
  <1>6. /\ attempts \in Nat
        /\ attempts < MaxPasswordAttempts =>
             /\ MaxPasswordAttempts - attempts \in Nat
             /\ MaxPasswordAttempts - attempts > 0
             /\ MaxPasswordAttempts - attempts + committed[s].attempts + 1 = MaxPasswordAttempts
    BY <1>4, <1>5 DEF MaxPasswordAttempts
  <1>7. \/ pc'[r] \in {"purge", "commit"} /\ result' = [result EXCEPT ![r] = Null]
        \/ pc'[r] = "zero" /\ result' = result
        \/ pc'[r] = "purge" /\ result' = [result EXCEPT ![r] = Wrong(0)]
        \/ /\ pc'[r] = "count" /\ attempts < MaxPasswordAttempts
           /\ result' = [result EXCEPT ![r] = Wrong(MaxPasswordAttempts - attempts)]
    BY <1>6 DEF VerifyCheck, Return, Goto, Base, TypeOK, MaxPasswordAttempts
  <1>8. pc' = [pc EXCEPT ![r] = pc'[r]] /\ mail' = mail
    BY DEF VerifyCheck, Decide, Return, Goto, Base, TypeOK
  <1>9. RequestTypeOK' /\ \A q \in Request : q # r => Same(q)
    <2>1. result' = result \/ \E v \in Result : result' = [result EXCEPT ![r] = v]
      BY <1>6, <1>7, ResultTypes
    <2>2. pc'[r] \in Location
      BY <1>7 DEF Location
    <2> QED  BY <1>3, <1>8, <2>1, <2>2 DEF RequestTypeOK, Same, Base, TypeOK
  <1>10. \/ pc'[r] \in {"purge", "commit"} /\ result'[r].kind = "null"
         \/ pc'[r] = "zero" /\ result' = result
         \/ pc'[r] = "purge" /\ result'[r].kind = "wrong" /\ result'[r].left = 0
         \/ /\ pc'[r] = "count" /\ result'[r].kind = "wrong" /\ result'[r].left > 0
            /\ result'[r].left + committed[s].attempts + 1 = MaxPasswordAttempts
    BY <1>6, <1>7 DEF Base, TypeOK, Null, Wrong, NoResult
  <1>11. KindOfOp(r)'
    BY <1>1, <1>3, <1>10 DEF KindOfOp
  <1>12. result'[r].kind = "wrong" => Counting(r)'
    BY <1>1, <1>2, <1>3, <1>4, <1>10 DEF Counting, KindOfOp
  <1>13. WorkInv(r)'
    BY <1>1, <1>2, <1>3, <1>4, <1>10, <1>12
       DEF WorkInv, Lockless, Erasing, Locked, KindOfOp, Answered
  <1>14. AnswerInv(r)'
    BY <1>10 DEF AnswerInv, Answered
  <1> QED  BY <1>3, <1>9, <1>11, <1>13, <1>14 DEF GoodStep, RequestInv

LEMMA VerifyCountStep ==
  ASSUME Base, NEW r \in Request, VerifyCount(r)
  PROVE  GoodStep(r)
  <1>1. pc[r] = "count" /\ call[r].op = "verify"
    BY DEF VerifyCount, At
  <1>2. PICK s \in Secret :
           /\ s = call[r].id
           /\ committed[s] \in Row /\ draft[s] \in Row /\ View(r, s) \in Row
           /\ Clean(committed[s]) /\ Clean(View(r, s))
           /\ committed[s].life # "unborn"
    BY <1>1, Known
  <1>3. r \in Session /\ StoreTypeOK /\ StoreInv /\ KindOfOp(r) /\ WorkInv(r)
    BY <1>1, Known
  <1>4. /\ Put(r, s, Counted(View(r, s)))
        /\ call' = call /\ seen' = seen /\ result' = result
        /\ pc' = [pc EXCEPT ![r] = "commit"] /\ mail' = mail
    BY <1>2 DEF VerifyCount, Write, Latest, Goto
  <1>5. Sound(r)
    BY <1>2, <1>3, <1>4, SoundPut, RowTypes, RowSteps DEF Exists
  <1>6. RequestTypeOK' /\ \A q \in Request : q # r => Same(q)
    BY <1>4 DEF RequestTypeOK, Same, Base, TypeOK, Location
  <1>7. /\ holder[s] = r /\ draft[s] = committed[s] /\ View(r, s) = committed[s]
        /\ result[r].kind = "wrong" /\ result[r].left > 0
        /\ result[r].left + committed[s].attempts + 1 = MaxPasswordAttempts
    BY <1>1, <1>2, <1>3 DEF WorkInv, Locked, KindOfOp, Answered, Counting, View
  <1>8. committed[s].life = "live"
    BY <1>3, <1>7, RowStoreAssumption, SecretsAssumption DEF StoreInv
  <1>9. /\ committed' = committed /\ holder'[s] = r
        /\ draft'[s].life = "live" /\ draft'[s].attempts = committed[s].attempts + 1
    BY <1>3, <1>4, <1>7, <1>8, <1>2 DEF Put, Exists, Counted, StoreTypeOK, Row
  <1>10. pc'[r] = "commit"
    BY <1>4 DEF Base, TypeOK
  <1>11. KindOfOp(r)'
    BY <1>3, <1>4, <1>7, <1>10 DEF KindOfOp
  <1>12. Counting(r)'
    BY <1>2, <1>4, <1>7, <1>9, <1>10 DEF Counting
  <1>13. WorkInv(r)'
    BY <1>1, <1>2, <1>3, <1>4, <1>7, <1>9, <1>10, <1>12
       DEF WorkInv, Lockless, Erasing, Locked, KindOfOp
  <1>14. AnswerInv(r)'
    BY <1>10 DEF AnswerInv, Answered
  <1> QED  BY <1>5, <1>6, <1>11, <1>13, <1>14 DEF GoodStep, RequestInv

LEMMA MetaSelectStep ==
  ASSUME Base, NEW r \in Request, MetaSelect(r)
  PROVE  GoodStep(r)
  <1>1. pc[r] = "asked" /\ call[r].op = "meta"
    BY DEF MetaSelect, At
  <1>2. PICK s \in Secret : s = call[r].id
    BY <1>1, Known
  <1>3. /\ StoreTypeOK /\ StoreInv /\ KindOfOp(r) /\ WorkInv(r)
        /\ UNCHANGED store /\ call' = call /\ Sound(r)
        /\ committed' = committed /\ holder' = holder /\ draft' = draft
    BY <1>1, Known, SoundIdle DEF MetaSelect, Select, store
  <1>4. RequestTypeOK' /\ \A q \in Request : q # r => Same(q)
    BY <1>2, ViewType, ResultTypes DEF RequestTypeOK, Same, Base, TypeOK, MetaSelect, Select,
       Return, Goto, Location
  <1>5. \/ pc'[r] = "read" /\ result' = result
        \/ pc'[r] = "reply" /\ result'[r].kind = "null"
    BY DEF MetaSelect, Select, Return, Goto, Base, TypeOK, Null, NoResult
  <1>6. KindOfOp(r)'
    BY <1>1, <1>3, <1>5 DEF KindOfOp
  <1>7. WorkInv(r)'
    BY <1>1, <1>2, <1>3, <1>5 DEF WorkInv, Lockless, Erasing, Locked, KindOfOp, Answered
  <1>8. AnswerInv(r)'
    BY <1>1, <1>3, <1>5 DEF AnswerInv, Answered
  <1> QED  BY <1>3, <1>4, <1>6, <1>7, <1>8 DEF GoodStep, RequestInv

LEMMA MetaCheckStep ==
  ASSUME Base, NEW r \in Request, MetaCheck(r)
  PROVE  GoodStep(r)
  <1>1. pc[r] = "read" /\ call[r].op = "meta"
    BY DEF MetaCheck, At
  <1>2. PICK s \in Secret : s = call[r].id
    BY <1>1, Known
  <1>3. /\ StoreTypeOK /\ StoreInv /\ KindOfOp(r) /\ WorkInv(r)
        /\ UNCHANGED store /\ call' = call /\ seen' = seen /\ Sound(r)
        /\ committed' = committed /\ holder' = holder /\ draft' = draft
    BY <1>1, Known, SoundIdle DEF MetaCheck, Decide, store
  <1>4. seen[r] \in Row
    BY DEF Base, TypeOK
  <1>5. \/ pc'[r] = "zeroNow" /\ result' = [result EXCEPT ![r] = Null]
        \/ pc'[r] = "reply" /\ result' = [result EXCEPT ![r] = Meta(seen[r])]
    BY DEF MetaCheck, Return, Goto, Base, TypeOK
  <1>6. Meta(seen[r]).kind = "meta" /\ Null.kind = "null"
    BY DEF Meta, Null, NoResult
  <1>7. RequestTypeOK' /\ \A q \in Request : q # r => Same(q)
    BY <1>3, <1>4, <1>5, ResultTypes DEF RequestTypeOK, Same, Base, TypeOK, MetaCheck, Decide,
       Return, Goto, Location
  <1>8. \/ pc'[r] = "zeroNow" /\ result'[r].kind = "null"
        \/ pc'[r] = "reply" /\ result'[r].kind = "meta"
    BY <1>5, <1>6 DEF Base, TypeOK
  <1>9. KindOfOp(r)'
    BY <1>1, <1>3, <1>8 DEF KindOfOp
  <1>10. WorkInv(r)'
    BY <1>1, <1>2, <1>3, <1>8 DEF WorkInv, Lockless, Erasing, Locked, KindOfOp, Answered
  <1>11. AnswerInv(r)'
    BY <1>1, <1>3, <1>8 DEF AnswerInv, Answered
  <1> QED  BY <1>3, <1>7, <1>9, <1>10, <1>11 DEF GoodStep, RequestInv

(* getSecretMeta of an expired secret: the two statements that erase it.    *)
LEMMA MetaZeroStep ==
  ASSUME Base, NEW r \in Request, MetaZero(r)
  PROVE  GoodStep(r)
  <1>1. pc[r] = "zeroNow" /\ call[r].op = "meta"
    BY DEF MetaZero, At
  <1>2. PICK s \in Secret : s = call[r].id /\ committed[s] \in Row /\ Clean(committed[s])
                            /\ committed[s].life # "unborn"
    BY <1>1, Known
  <1>3. /\ StoreTypeOK /\ StoreInv /\ KindOfOp(r) /\ WorkInv(r)
        /\ AutoPut(s, Zeroed(committed[s])) /\ call' = call /\ seen' = seen /\ result' = result
        /\ pc' = [pc EXCEPT ![r] = "markNow"] /\ mail' = mail
    BY <1>1, <1>2, Known DEF MetaZero, Goto
  <1>4. Sound(r)
    BY <1>2, <1>3, SoundAutoPut, RowTypes, RowSteps
  <1>5. RequestTypeOK' /\ \A q \in Request : q # r => Same(q)
    BY <1>3 DEF RequestTypeOK, Same, Base, TypeOK, Location
  <1>6. /\ holder' = holder /\ holder[s] = NoSession
        /\ committed'[s].life # "unborn" /\ committed'[s].cipher # "sealed"
    BY <1>2, <1>3 DEF AutoPut, store, Zeroed, Clean, StoreTypeOK, Row
  <1>7. pc'[r] = "markNow"
    BY <1>3 DEF Base, TypeOK
  <1>8. r # NoSession
    BY RowStoreAssumption, SecretsAssumption
  <1>9. KindOfOp(r)'
    BY <1>1, <1>3, <1>7 DEF KindOfOp
  <1>10. WorkInv(r)'
    BY <1>1, <1>2, <1>3, <1>6, <1>7, <1>8
       DEF WorkInv, Lockless, Erasing, Locked, KindOfOp, Answered, View
  <1>11. AnswerInv(r)'
    BY <1>7 DEF AnswerInv, Answered
  <1> QED  BY <1>4, <1>5, <1>9, <1>10, <1>11 DEF GoodStep, RequestInv

LEMMA MetaMarkStep ==
  ASSUME Base, NEW r \in Request, MetaMark(r)
  PROVE  GoodStep(r)
  <1>1. pc[r] = "markNow" /\ call[r].op = "meta"
    BY DEF MetaMark, At
  <1>2. PICK s \in Secret : s = call[r].id /\ committed[s] \in Row /\ Clean(committed[s])
                            /\ committed[s].life # "unborn"
    BY <1>1, Known
  <1> DEFINE row == IF seen[r].owner # NoUser THEN SoftExpired(committed[s])
                    ELSE Gone(committed[s])
  <1>3. /\ StoreTypeOK /\ StoreInv /\ KindOfOp(r) /\ WorkInv(r)
        /\ AutoPut(s, row) /\ call' = call /\ seen' = seen /\ result' = result
        /\ pc' = [pc EXCEPT ![r] = "reply"] /\ mail' = mail
    BY <1>1, <1>2, Known DEF MetaMark, Goto
  <1>4. committed[s].cipher # "sealed"
    <2>1. View(r, s).cipher # "sealed" /\ holder[s] # r
      BY <1>1, <1>2, <1>3 DEF WorkInv, Erasing, Lockless
    <2> QED  BY <2>1 DEF View
  <1>5. row \in Row /\ row.life # "unborn"
    BY <1>2, RowTypes, GoneType DEF SoftExpired, Row
  <1>6. Sound(r)
    <2>1. committed[s].life = "live" => Clean(row) /\ Descends(committed[s], row)
      BY <1>2, <1>4, RowSteps
    <2> QED  BY <1>3, <1>5, <2>1, SoundAutoPut
  <1>7. RequestTypeOK' /\ \A q \in Request : q # r => Same(q)
    BY <1>3 DEF RequestTypeOK, Same, Base, TypeOK, Location
  <1>8. holder' = holder /\ committed'[s].life # "unborn"
    BY <1>2, <1>3, <1>5 DEF AutoPut, store, StoreTypeOK
  <1>9. pc'[r] = "reply"
    BY <1>3 DEF Base, TypeOK
  <1>10. KindOfOp(r)'
    BY <1>1, <1>3, <1>9 DEF KindOfOp
  <1>11. WorkInv(r)'
    BY <1>1, <1>2, <1>3, <1>8, <1>9
       DEF WorkInv, Lockless, Erasing, Locked, KindOfOp, Answered
  <1>12. committed'[s].cipher # "sealed"
    BY <1>2, <1>3, <1>4, GoneType DEF AutoPut, store, StoreTypeOK, SoftExpired, Row
  <1>13. AnswerInv(r)'
    BY <1>1, <1>2, <1>3, <1>9, <1>12 DEF AnswerInv, KindOfOp
  <1> QED  BY <1>6, <1>7, <1>10, <1>11, <1>13 DEF GoodStep, RequestInv

LEMMA DeleteSelectStep ==
  ASSUME Base, NEW r \in Request, DeleteSelect(r)
  PROVE  GoodStep(r)
  <1>1. pc[r] = "asked" /\ call[r].op = "delete"
    BY DEF DeleteSelect, At
  <1>2. PICK s \in Secret : s = call[r].id /\ View(r, s) \in Row
    BY <1>1, Known
  <1>3. /\ StoreTypeOK /\ StoreInv /\ KindOfOp(r) /\ WorkInv(r)
        /\ UNCHANGED store /\ call' = call /\ mail' = mail /\ Sound(r)
        /\ committed' = committed /\ holder' = holder /\ draft' = draft
    BY <1>1, Known, SoundIdle DEF DeleteSelect, store
  <1>4. \/ /\ seen' = [seen EXCEPT ![r] = View(r, s)]
           /\ pc' = [pc EXCEPT ![r] = "erase"] /\ result' = result
        \/ /\ pc' = [pc EXCEPT ![r] = "commit"]
           /\ result' = [result EXCEPT ![r] = Null] /\ seen' = seen
    BY <1>2 DEF DeleteSelect, Return, Goto
  <1>5. RequestTypeOK' /\ \A q \in Request : q # r => Same(q)
    BY <1>2, <1>3, <1>4, ResultTypes DEF RequestTypeOK, Same, Base, TypeOK, Location
  <1>6. \/ pc'[r] = "erase" /\ result' = result
        \/ pc'[r] = "commit" /\ result'[r].kind = "null"
    BY <1>4 DEF Base, TypeOK, Null, NoResult
  <1>7. KindOfOp(r)'
    BY <1>1, <1>3, <1>6 DEF KindOfOp
  <1>8. WorkInv(r)'
    BY <1>1, <1>2, <1>3, <1>6 DEF WorkInv, Lockless, Erasing, Locked, KindOfOp, Answered
  <1>9. AnswerInv(r)'
    BY <1>6 DEF AnswerInv, Answered
  <1> QED  BY <1>3, <1>5, <1>7, <1>8, <1>9 DEF GoodStep, RequestInv

LEMMA DeleteEraseStep ==
  ASSUME Base, NEW r \in Request, DeleteErase(r)
  PROVE  GoodStep(r)
  <1>1. pc[r] = "erase" /\ call[r].op = "delete"
    BY DEF DeleteErase, At
  <1>2. PICK s \in Secret :
           /\ s = call[r].id
           /\ committed[s] \in Row /\ draft[s] \in Row /\ View(r, s) \in Row
           /\ Clean(committed[s]) /\ Clean(View(r, s))
           /\ committed[s].life # "unborn"
    BY <1>1, Known
  <1>3. r \in Session /\ StoreTypeOK /\ StoreInv /\ KindOfOp(r) /\ WorkInv(r)
    BY <1>1, Known
  <1>4. /\ Put(r, s, SoftDeleted(View(r, s)))
        /\ call' = call /\ seen' = seen /\ result' = [result EXCEPT ![r] = Deleted]
        /\ pc' = [pc EXCEPT ![r] = "commit"] /\ mail' = mail
    BY <1>2 DEF DeleteErase, Write, Latest, Return, Goto
  <1>5. Sound(r)
    BY <1>2, <1>3, <1>4, SoundPut, RowTypes, RowSteps DEF Exists
  <1>6. RequestTypeOK' /\ \A q \in Request : q # r => Same(q)
    BY <1>4, ResultTypes DEF RequestTypeOK, Same, Base, TypeOK, Location
  <1>7. committed' = committed /\ View(r, s)'.cipher # "sealed"
    <2>1. SoftDeleted(View(r, s)).cipher # "sealed"
      BY <1>2 DEF SoftDeleted, Row
    <2>2. ~Exists(r, s) => View(r, s).cipher # "sealed"
      BY <1>2 DEF Exists, Clean
    <2> QED  BY <2>1, <2>2, <1>3, <1>4, PutEffect
  <1>8. pc'[r] = "commit" /\ result'[r].kind = "deleted"
    BY <1>4 DEF Base, TypeOK, Deleted, NoResult
  <1>9. KindOfOp(r)'
    BY <1>1, <1>3, <1>4, <1>8 DEF KindOfOp
  <1>10. WorkInv(r)'
    BY <1>1, <1>2, <1>3, <1>4, <1>7, <1>8
       DEF WorkInv, Lockless, Erasing, Locked, KindOfOp, Answered
  <1>11. AnswerInv(r)'
    BY <1>8 DEF AnswerInv, Answered
  <1> QED  BY <1>5, <1>6, <1>9, <1>10, <1>11 DEF GoodStep, RequestInv

LEMMA CommitStep ==
  ASSUME Base, NEW r \in Request, CommitRequest(r)
  PROVE  GoodStep(r)
  <1>1. pc[r] = "commit"
    BY DEF CommitRequest
  <1>2. PICK s \in Secret :
           /\ s = call[r].id
           /\ committed[s] \in Row /\ draft[s] \in Row /\ View(r, s) \in Row
           /\ Clean(committed[s]) /\ Clean(View(r, s))
           /\ committed[s].life # "unborn"
    BY <1>1, Known
  <1>3. /\ r \in Session /\ StoreTypeOK /\ StoreInv /\ KindOfOp(r) /\ WorkInv(r)
        /\ Commit(r) /\ call' = call /\ result' = result /\ mail' = mail
        /\ pc' = [pc EXCEPT ![r] = "reply"] /\ seen' = [seen EXCEPT ![r] = Unborn]
    BY <1>1, Known DEF CommitRequest, Goto, Forget
  <1>4. /\ Sound(r)
        /\ committed'[s] = View(r, s)
        /\ \A x \in Secret : holder'[x] # r
    BY <1>3, SoundCommit
  <1>5. RequestTypeOK' /\ \A q \in Request : q # r => Same(q)
    BY <1>3, UnbornType DEF RequestTypeOK, Same, Base, TypeOK, Location
  <1>6. pc'[r] = "reply"
    BY <1>3 DEF Base, TypeOK
  <1>7. committed'[s].life # "unborn" /\ committed'[s].pw = committed[s].pw
    BY <1>2, <1>4 DEF Sound, Evolves, Descends
  <1>8. KindOfOp(r)'
    BY <1>1, <1>3, <1>6 DEF KindOfOp
  <1>9. WorkInv(r)'
    BY <1>2, <1>3, <1>4, <1>6, <1>7
       DEF WorkInv, Lockless, Erasing, Locked, KindOfOp, Answered
  <1>10. result[r].kind \in {"ok", "deleted"} => committed'[s].cipher # "sealed"
    BY <1>1, <1>2, <1>3, <1>4 DEF WorkInv, Erasing
  <1>11. ASSUME result[r].kind = "wrong"
         PROVE  \/ committed'[s].life = "gone"
                \/ /\ committed'[s].life = "live"
                   /\ result[r].left > 0
                   /\ committed'[s].attempts + result[r].left >= MaxPasswordAttempts
    <2>1. holder[s] = r /\ Counting(r)
      BY <1>1, <1>2, <1>3, <1>11 DEF WorkInv, Locked, KindOfOp, Answered
    <2>2. committed'[s] = draft[s]
      BY <1>4, <2>1 DEF View
    <2>3. result[r].left \in Nat /\ committed[s].attempts \in Nat
      BY <1>2 DEF Base, TypeOK, Result, Row
    <2>4. CASE result[r].left = 0
      BY <1>1, <1>2, <2>1, <2>2, <2>4 DEF Counting
    <2>5. CASE result[r].left > 0
      BY <1>1, <1>2, <2>1, <2>2, <2>3, <2>5 DEF Counting, MaxPasswordAttempts
    <2> QED  BY <2>3, <2>4, <2>5
  <1>12. AnswerInv(r)'
    BY <1>2, <1>3, <1>10, <1>11 DEF AnswerInv
  <1> QED  BY <1>4, <1>5, <1>8, <1>9, <1>12 DEF GoodStep, RequestInv

LEMMA ReplyStep ==
  ASSUME Base, NEW r \in Request, Reply(r)
  PROVE  GoodStep(r)
  <1>1. pc[r] = "reply"
    BY DEF Reply
  <1>2. PICK s \in Secret : s = call[r].id
    BY <1>1, Known
  <1>3. /\ StoreTypeOK /\ StoreInv /\ KindOfOp(r) /\ WorkInv(r) /\ AnswerInv(r)
        /\ call' = call /\ seen' = seen /\ result' = result /\ mail' = mail /\ Sound(r)
        /\ committed' = committed /\ holder' = holder /\ draft' = draft
        /\ pc' = [pc EXCEPT ![r] = "done"]
    BY <1>1, Known, SoundIdle DEF Reply, Goto, store
  <1>4. RequestTypeOK' /\ \A q \in Request : q # r => Same(q)
    BY <1>3 DEF RequestTypeOK, Same, Base, TypeOK, Location
  <1>5. pc'[r] = "done"
    BY <1>3 DEF Base, TypeOK
  <1>6. KindOfOp(r)'
    BY <1>1, <1>3, <1>5 DEF KindOfOp
  <1>7. WorkInv(r)'
    BY <1>1, <1>2, <1>3, <1>5 DEF WorkInv, Lockless, Erasing, Locked, KindOfOp, Answered
  <1>8. AnswerInv(r)'
    BY <1>1, <1>3, <1>5 DEF AnswerInv, Answered
  <1> QED  BY <1>3, <1>4, <1>6, <1>7, <1>8 DEF GoodStep, RequestInv

LEMMA FailStep ==
  ASSUME Base, NEW r \in Request, Fail(r)
  PROVE  GoodStep(r)
  <1>1. pc[r] # "idle"
    BY DEF Fail
  <1>2. PICK s \in Secret : s = call[r].id /\ committed[s].life # "unborn"
    BY <1>1, Known
  <1>3. /\ r \in Session /\ StoreTypeOK /\ StoreInv /\ KindOfOp(r) /\ WorkInv(r)
        /\ Rollback(r) /\ call' = call /\ mail' = mail /\ committed' = committed
        /\ result' = [result EXCEPT ![r] = Failed]
        /\ pc' = [pc EXCEPT ![r] = "done"] /\ seen' = [seen EXCEPT ![r] = Unborn]
    BY <1>1, Known DEF Fail, Return, Goto, Forget, Rollback
  <1>4. Sound(r) /\ \A x \in Secret : holder'[x] # r
    BY <1>3, SoundRollback
  <1>5. RequestTypeOK' /\ \A q \in Request : q # r => Same(q)
    BY <1>3, UnbornType, ResultTypes DEF RequestTypeOK, Same, Base, TypeOK, Location
  <1>6. pc'[r] = "done" /\ result'[r].kind = "error"
    BY <1>3 DEF Base, TypeOK, Failed, NoResult
  <1>7. KindOfOp(r)'
    BY <1>1, <1>3, <1>6 DEF KindOfOp
  <1>8. WorkInv(r)'
    BY <1>2, <1>3, <1>4, <1>6 DEF WorkInv, Lockless, Erasing, Locked, Answered
  <1>9. AnswerInv(r)'
    BY <1>6 DEF AnswerInv
  <1> QED  BY <1>4, <1>5, <1>7, <1>8, <1>9 DEF GoodStep, RequestInv

LEMMA ArriveStep ==
  ASSUME Base, NEW r \in Request, NEW op \in Traffic, NEW s \in Secret,
         NEW u \in User \cup {NoUser}, NEW good \in BOOLEAN, Arrive(r, op, s, u, good)
  PROVE  GoodStep(r)
  <1> DEFINE asked == [op |-> op, id |-> s, user |-> u, good |-> good, late |-> s \in expired]
  <1>1. /\ pc[r] = "idle" /\ committed[s].life # "unborn"
        /\ call' = [call EXCEPT ![r] = asked]
        /\ pc' = [pc EXCEPT ![r] = "asked"]
        /\ UNCHANGED store /\ seen' = seen /\ result' = result /\ mail' = mail
    BY DEF Arrive, Goto
  <1>2. StoreTypeOK /\ StoreInv /\ KindOfOp(r) /\ WorkInv(r)
    BY DEF Base, TypeOK, RequestInv
  <1>3. Sound(r) /\ committed' = committed /\ holder' = holder /\ draft' = draft
    BY <1>1, <1>2, SoundIdle DEF store
  <1>4. asked \in Call /\ asked.op # "none" /\ asked.id = s
    BY SecretsAssumption DEF Call
  <1>5. RequestTypeOK' /\ \A q \in Request : q # r => Same(q)
    BY <1>1, <1>4 DEF RequestTypeOK, Same, Base, TypeOK, Location
  <1>6. pc'[r] = "asked" /\ call'[r].id = s /\ call'[r].op # "none" /\ result'[r].kind = "none"
    BY <1>1, <1>2, <1>4 DEF Base, TypeOK, KindOfOp
  <1>7. KindOfOp(r)'
    BY <1>6 DEF KindOfOp
  <1>8. WorkInv(r)'
    BY <1>1, <1>2, <1>3, <1>6 DEF WorkInv, Lockless, Erasing, Locked, Answered
  <1>9. AnswerInv(r)'
    BY <1>6 DEF AnswerInv
  <1> QED  BY <1>3, <1>5, <1>7, <1>8, <1>9 DEF GoodStep, RequestInv

LEMMA WritesLeave ==
  ASSUME NEW r, NEW loc, ZeroThen(r, loc) \/ Consume(r) \/ Remove(r)
  PROVE  UNCHANGED <<expired, users>>
  BY DEF ZeroThen, Consume, Remove, Write

LEMMA RequestStep ==
  ASSUME Base, NEW r \in Request, Proceed(r) \/ Fail(r)
  PROVE  GoodStep(r) /\ UNCHANGED <<expired, users>>
  <1>1. CASE Retrieve(r)
    <2>1. CASE RetrieveSelect(r)
      BY <2>1, RetrieveSelectStep DEF RetrieveSelect, Select
    <2>2. CASE RetrieveCheck(r)
      BY <2>2, RetrieveCheckStep DEF RetrieveCheck, Decide
    <2>3. CASE RetrievePurge(r)
      BY <2>3, ZeroThenStep, WritesLeave DEF RetrievePurge, At
    <2>4. CASE RetrieveRemove(r)
      BY <2>4, RemoveStep, WritesLeave DEF RetrieveRemove, At
    <2>5. CASE RetrieveZero(r)
      BY <2>5, ZeroThenStep, WritesLeave DEF RetrieveZero, At
    <2>6. CASE RetrieveConsume(r)
      BY <2>6, ConsumeStep, WritesLeave DEF RetrieveConsume, At
    <2> QED  BY <1>1, <2>1, <2>2, <2>3, <2>4, <2>5, <2>6 DEF Retrieve
  <1>2. CASE Verify(r)
    <2>1. CASE VerifyLock(r)
      BY <2>1, VerifyLockStep DEF VerifyLock
    <2>2. CASE VerifySelect(r)
      BY <2>2, VerifySelectStep DEF VerifySelect, Select
    <2>3. CASE VerifyCheck(r)
      BY <2>3, VerifyCheckStep DEF VerifyCheck, Decide
    <2>4. CASE VerifyPurge(r)
      BY <2>4, ZeroThenStep, WritesLeave DEF VerifyPurge, At
    <2>5. CASE VerifyRemove(r)
      BY <2>5, RemoveStep, WritesLeave DEF VerifyRemove, At
    <2>6. CASE VerifyZero(r)
      BY <2>6, ZeroThenStep, WritesLeave DEF VerifyZero, At
    <2>7. CASE VerifyConsume(r)
      BY <2>7, ConsumeStep, WritesLeave DEF VerifyConsume, At
    <2>8. CASE VerifyCount(r)
      BY <2>8, VerifyCountStep DEF VerifyCount, Write
    <2> QED  BY <1>2, <2>1, <2>2, <2>3, <2>4, <2>5, <2>6, <2>7, <2>8 DEF Verify
  <1>3. CASE GetMeta(r)
    <2>1. CASE MetaSelect(r)
      BY <2>1, MetaSelectStep DEF MetaSelect, Select
    <2>2. CASE MetaCheck(r)
      BY <2>2, MetaCheckStep DEF MetaCheck, Decide
    <2>3. CASE MetaZero(r)
      BY <2>3, MetaZeroStep DEF MetaZero
    <2>4. CASE MetaMark(r)
      BY <2>4, MetaMarkStep DEF MetaMark
    <2> QED  BY <1>3, <2>1, <2>2, <2>3, <2>4 DEF GetMeta
  <1>4. CASE DeleteOwn(r)
    <2>1. CASE DeleteSelect(r)
      BY <2>1, DeleteSelectStep DEF DeleteSelect
    <2>2. CASE DeleteErase(r)
      BY <2>2, DeleteEraseStep DEF DeleteErase, Write
    <2> QED  BY <1>4, <2>1, <2>2 DEF DeleteOwn
  <1>5. CASE CommitRequest(r)
    BY <1>5, CommitStep DEF CommitRequest
  <1>6. CASE Reply(r)
    BY <1>6, ReplyStep DEF Reply
  <1>7. CASE Fail(r)
    BY <1>7, FailStep DEF Fail
  <1> QED  BY <1>1, <1>2, <1>3, <1>4, <1>5, <1>6, <1>7 DEF Proceed

-----------------------------------------------------------------------------
(* The steps of the other actors. *)

Types == /\ expired \in SUBSET Secret
         /\ users \in SUBSET User
         /\ WorkerTypeOK
         /\ AccountTypeOK

(* t is the session of the step, NoSession if it runs no transaction.       *)
ElseStep(t) ==
    /\ t \notin Request
    /\ Sound(t)
    /\ UNCHANGED requests
    /\ Types'

LEMMA BaseFromRequest ==
  ASSUME Base, NEW r \in Request, GoodStep(r), Types'
  PROVE  Base' /\ Evolves
  <1>1. ASSUME NEW q \in Request PROVE RequestInv(q)'
    <2>1. CASE q = r
      BY <2>1 DEF GoodStep
    <2>2. CASE q # r
      <3>1. Same(q) /\ Spares(q) /\ StoreTypeOK' /\ Evolves
        BY <2>2, SecretsAssumption DEF GoodStep, Sound
      <3>2. TypeOK /\ StoreInv /\ RequestInv(q)
        BY DEF Base
      <3> QED  BY <3>1, <3>2, OthersKeepInv
    <2> QED  BY <2>1, <2>2
  <1>2. TypeOK' /\ StoreInv' /\ Evolves
    BY DEF GoodStep, Sound, RequestTypeOK, Types, TypeOK
  <1> QED  BY <1>1, <1>2 DEF Base

LEMMA BaseFromElse ==
  ASSUME Base, NEW t, ElseStep(t)
  PROVE  Base' /\ Evolves
  <1>1. ASSUME NEW q \in Request PROVE RequestInv(q)'
    <2>1. Same(q) /\ Spares(q) /\ StoreTypeOK' /\ Evolves
      BY SecretsAssumption DEF ElseStep, Sound, Same, requests
    <2>2. TypeOK /\ StoreInv /\ RequestInv(q)
      BY DEF Base
    <2> QED  BY <2>1, <2>2, OthersKeepInv
  <1>2. TypeOK' /\ StoreInv' /\ Evolves
    BY DEF ElseStep, Sound, Types, TypeOK, Base, requests
  <1> QED  BY <1>1, <1>2 DEF Base

LEMMA CreateStep ==
  ASSUME Base, NEW s \in Secret, NEW k \in Kind, CreateSecret(s, k),
         UNCHANGED <<cleanup, deletion>>
  PROVE  ElseStep(NoSession)
  <1> DEFINE row == [Unborn EXCEPT !.life = "live", !.cipher = "sealed", !.pw = k.pw,
                                   !.owner = k.owner, !.notify = k.notify]
  <1>1. row \in Row /\ Clean(row)
    BY UnbornType, SecretsAssumption DEF Unborn, Row, Clean, Status
  <1>2. AutoInsert(s, row) /\ UNCHANGED <<expired, users, requests>>
    BY DEF CreateSecret
  <1>3. Sound(NoSession)
    BY <1>1, <1>2, SoundAutoInsert DEF Base, TypeOK
  <1>4. Types'
    BY <1>2 DEF Types, Base, TypeOK, WorkerTypeOK, AccountTypeOK, cleanup, deletion
  <1>5. NoSession \notin Request
    BY RowStoreAssumption, SecretsAssumption
  <1> QED  BY <1>2, <1>3, <1>4, <1>5 DEF ElseStep

LEMMA ExpireStep ==
  ASSUME Base, NEW s \in Secret, Expire(s), UNCHANGED <<cleanup, deletion>>
  PROVE  ElseStep(NoSession)
  <1>1. Sound(NoSession)
    BY SoundIdle DEF Expire, Base, TypeOK
  <1>2. Types'
    BY DEF Expire, Types, Base, TypeOK, WorkerTypeOK, AccountTypeOK, cleanup, deletion
  <1>3. NoSession \notin Request
    BY RowStoreAssumption, SecretsAssumption
  <1> QED  BY <1>1, <1>2, <1>3 DEF ElseStep, Expire

LEMMA SweptType ==
  ASSUME NEW w, NEW row \in Row, Clean(row), row.life = "live"
  PROVE  /\ Swept(w, row) \in Row
         /\ Clean(Swept(w, row))
         /\ Descends(row, Swept(w, row))
  <1> DEFINE zeroed == Zeroed(row)
  <1>1. zeroed \in Row /\ Clean(zeroed) /\ Descends(row, zeroed)
    BY RowTypes, RowSteps
  <1>2. zeroed.life = "live" /\ zeroed.cipher # "sealed"
    BY DEF Zeroed, Row
  <1>3. SoftExpired(zeroed) \in Row /\ Clean(SoftExpired(zeroed))
        /\ Descends(zeroed, SoftExpired(zeroed))
    <2> HIDE DEF zeroed
    <2> QED  BY <1>1, <1>2, RowTypes, RowSteps
  <1>4. Descends(row, SoftExpired(zeroed))
    <2> HIDE DEF zeroed
    <2> QED  BY <1>1, <1>3, DescendsTrans
  <1>5. Gone(row) \in Row /\ Clean(Gone(row)) /\ Descends(row, Gone(row))
    BY GoneType, RowSteps
  <1>6. Swept(w, row) \in {SoftExpired(zeroed), zeroed, Gone(row)}
    BY DEF Swept
  <1> QED  BY <1>1, <1>3, <1>4, <1>5, <1>6

LEMMA WorkerStep ==
  ASSUME Base, WorkerNext, UNCHANGED deletion
  PROVE  \E t : ElseStep(t)
  <1>1. StoreTypeOK /\ StoreInv /\ Types /\ WorkerTypeOK /\ AccountTypeOK
    BY DEF Base, TypeOK, Types
  <1>2. \A w \in Worker : w \in Session /\ w \notin Request
    BY WorkerAssumption, SessionAssumption
  <1>3. AccountTypeOK'
    BY <1>1 DEF AccountTypeOK, deletion
  <1>4. NoSession \notin Request
    BY RowStoreAssumption, SecretsAssumption
  <1>5. CASE LockExpires
    <2>1. Sound(NoSession)
      BY <1>1, <1>5, SoundIdle DEF LockExpires, secretVars
    <2>2. Types' /\ UNCHANGED requests
      BY <1>1, <1>3, <1>5 DEF LockExpires, Types, WorkerTypeOK, secretVars
    <2> QED  BY <1>4, <2>1, <2>2 DEF ElseStep
  <1>6. ASSUME NEW w \in Worker, Tick(w)
        PROVE  ElseStep(w)
    <2>1. Sound(w)
      BY <1>1, <1>6, SoundIdle DEF Tick, secretVars
    <2>2. Types' /\ UNCHANGED requests
      BY <1>1, <1>3, <1>6, WorkerAssumption DEF Tick, Types, WorkerTypeOK, Phase, secretVars
    <2> QED  BY <1>2, <2>1, <2>2 DEF ElseStep
  <1>7. ASSUME NEW w \in Worker, SweepStart(w)
        PROVE  ElseStep(w)
    <2>1. Sound(w)
      BY <1>1, <1>7, SoundIdle DEF SweepStart, secretVars
    <2>2. NextPhase(phase[w]) \in Phase
      BY <1>7 DEF SweepStart, NextPhase, Bulk, Phase
    <2>3. Types' /\ UNCHANGED requests
      BY <1>1, <1>3, <1>7, <2>2 DEF SweepStart, Types, WorkerTypeOK, secretVars
    <2> QED  BY <1>2, <2>1, <2>3 DEF ElseStep
  <1>8. ASSUME NEW w \in Worker, NEW s \in Secret, SweepRow(w, s)
        PROVE  ElseStep(w)
    <2>1. Sound(w)
      <3>1. CASE Matches(phase[w], View(w, s))
        <4>1. Put(w, s, Swept(w, View(w, s)))
          BY <1>8, <3>1 DEF SweepRow
        <4>2. View(w, s) \in Row /\ Clean(View(w, s)) /\ View(w, s).life = "live"
          BY <1>1, <3>1, ViewType DEF View, StoreInv, Matches
        <4> QED  BY <1>1, <1>2, <4>1, <4>2, SweptType, SoundPut
      <3>2. CASE ~Matches(phase[w], View(w, s))
        BY <1>1, <1>8, <3>2, SoundIdle DEF SweepRow
      <3> QED  BY <3>1, <3>2
    <2>2. Types' /\ UNCHANGED requests
      BY <1>1, <1>3, <1>8 DEF SweepRow, Types, WorkerTypeOK
    <2> QED  BY <1>2, <2>1, <2>2 DEF ElseStep
  <1>9. ASSUME NEW w \in Worker, SweepDone(w)
        PROVE  ElseStep(w)
    <2>1. Sound(w)
      BY <1>1, <1>2, <1>9, SoundCommit DEF SweepDone
    <2>2. NextPhase(phase[w]) \in Phase
      BY <1>9 DEF SweepDone, NextPhase, Running, Phase
    <2>3. Types' /\ UNCHANGED requests
      BY <1>1, <1>3, <1>9, <2>2 DEF SweepDone, Types, WorkerTypeOK
    <2> QED  BY <1>2, <2>1, <2>3 DEF ElseStep
  <1>10. ASSUME NEW w \in Worker, SweepFail(w)
         PROVE  ElseStep(w)
    <2>1. Sound(w)
      BY <1>1, <1>2, <1>10, SoundRollback DEF SweepFail
    <2>2. Types' /\ UNCHANGED requests
      BY <1>1, <1>3, <1>10 DEF SweepFail, Types, WorkerTypeOK, Phase
    <2> QED  BY <1>2, <2>1, <2>2 DEF ElseStep
  <1> QED  BY <1>5, <1>6, <1>7, <1>8, <1>9, <1>10 DEF WorkerNext, Sweep

LEMMA AccountStep ==
  ASSUME Base, AccountNext, UNCHANGED cleanup
  PROVE  \E t : ElseStep(t)
  <1>1. StoreTypeOK /\ StoreInv /\ Types /\ WorkerTypeOK /\ AccountTypeOK
    BY DEF Base, TypeOK, Types
  <1>2. PICK u \in Leaver : DeleteAccount(u) \/ Detach(u) \/ DetachFail(u)
    BY DEF AccountNext
  <1>3. u \in User /\ u \in Session /\ u \notin Request
    BY AccountAssumption, SessionAssumption
  <1>4. WorkerTypeOK'
    BY <1>1 DEF WorkerTypeOK, cleanup
  <1>5. CASE DeleteAccount(u)
    <2>1. Sound(u)
      BY <1>1, <1>5, SoundIdle DEF DeleteAccount, secretVars
    <2>2. Types' /\ UNCHANGED requests
      BY <1>1, <1>4, <1>5 DEF DeleteAccount, Become, Types, AccountTypeOK, Stage, secretVars
    <2> QED  BY <1>3, <2>1, <2>2 DEF ElseStep
  <1>6. CASE DetachStart(u)
    <2>1. Sound(u)
      BY <1>1, <1>6, SoundIdle DEF DetachStart
    <2>2. Types' /\ UNCHANGED requests
      BY <1>1, <1>4, <1>6 DEF DetachStart, Become, Types, AccountTypeOK, Stage
    <2> QED  BY <1>3, <2>1, <2>2 DEF ElseStep
  <1>7. ASSUME NEW s \in Secret, DetachRow(u, s)
        PROVE  ElseStep(u)
    <2> DEFINE row == [View(u, s) EXCEPT !.owner = NoUser]
    <2>1. Sound(u)
      <3>1. CASE Owns(u, View(u, s))
        <4>1. Put(u, s, row)
          BY <1>7, <3>1 DEF DetachRow
        <4>2. View(u, s) \in Row /\ Clean(View(u, s)) /\ View(u, s).life = "live"
          BY <1>1, <3>1, ViewType DEF View, StoreInv, Owns
        <4>3. row \in Row /\ Clean(row) /\ Descends(View(u, s), row)
          BY <4>2 DEF Row, Clean, Descends
        <4> QED  BY <1>1, <1>3, <4>1, <4>3, SoundPut
      <3>2. CASE ~Owns(u, View(u, s))
        BY <1>1, <1>7, <3>2, SoundIdle DEF DetachRow
      <3> QED  BY <3>1, <3>2
    <2>2. Types' /\ UNCHANGED requests
      BY <1>1, <1>4, <1>7 DEF DetachRow, Types, AccountTypeOK
    <2> QED  BY <1>3, <2>1, <2>2 DEF ElseStep
  <1>8. CASE DetachDone(u)
    <2>1. Sound(u)
      BY <1>1, <1>3, <1>8, SoundCommit DEF DetachDone
    <2>2. Types' /\ UNCHANGED requests
      BY <1>1, <1>4, <1>8 DEF DetachDone, Become, Types, AccountTypeOK, Stage
    <2> QED  BY <1>3, <2>1, <2>2 DEF ElseStep
  <1>9. CASE DetachFail(u)
    <2>1. Sound(u)
      BY <1>1, <1>3, <1>9, SoundRollback DEF DetachFail
    <2>2. Types' /\ UNCHANGED requests
      BY <1>1, <1>3, <1>4, <1>9 DEF DetachFail, Become, Types, AccountTypeOK, Stage
    <2> QED  BY <1>3, <2>1, <2>2 DEF ElseStep
  <1> QED  BY <1>2, <1>5, <1>6, <1>7, <1>8, <1>9 DEF Detach

-----------------------------------------------------------------------------
(* The invariant. *)

LEMMA BaseInit == Init => Base
  <1> SUFFICES ASSUME Init PROVE Base
    OBVIOUS
  <1> USE DEF Init, SecretsInit, StoreInit
  <1>1. StoreTypeOK
    BY UnbornType DEF StoreTypeOK
  <1>2. RequestTypeOK
    BY UnbornType, ResultTypes DEF RequestTypeOK, Location, NoCall, Call
  <1>3. Types
    BY DEF Types, WorkerTypeOK, AccountTypeOK, WorkerInit, AccountInit, Phase, Stage
  <1>4. Clean(Unborn) /\ Descends(Unborn, Unborn)
    BY DEF Clean, Descends, Unborn
  <1>5. StoreInv
    BY <1>4 DEF StoreInv
  <1>6. ASSUME NEW r \in Request PROVE RequestInv(r)
    <2>1. pc[r] = "idle" /\ result[r].kind = "none" /\ call[r].op = "none"
      BY DEF NoResult, NoCall
    <2>2. \A x \in Secret : holder[x] # r
      BY RowStoreAssumption, SecretsAssumption
    <2>3. KindOfOp(r)
      BY <2>1 DEF KindOfOp
    <2>4. WorkInv(r)
      BY <2>1, <2>2 DEF WorkInv, Erasing, Locked
    <2>5. AnswerInv(r)
      BY <2>1 DEF AnswerInv
    <2> QED  BY <2>3, <2>4, <2>5 DEF RequestInv
  <1> QED  BY <1>1, <1>2, <1>3, <1>5, <1>6 DEF Base, TypeOK, RequestTypeOK, Types

LEMMA BaseStutter ==
  ASSUME Base, UNCHANGED vars
  PROVE  Base' /\ Evolves
  <1>1. Sound(NoSession)
    BY SoundIdle DEF Base, TypeOK, vars, secretVars
  <1>2. Types'
    BY DEF Types, Base, TypeOK, WorkerTypeOK, AccountTypeOK, vars, secretVars, cleanup, deletion
  <1>3. ElseStep(NoSession)
    BY <1>1, <1>2, RowStoreAssumption, SecretsAssumption DEF ElseStep, vars, secretVars
  <1> QED  BY <1>3, BaseFromElse

LEMMA BaseNext ==
  ASSUME Base, [Next]_vars
  PROVE  Base' /\ Evolves
  <1>1. CASE SecretsNext /\ UNCHANGED <<cleanup, deletion>>
    <2>1. ASSUME NEW s \in Secret, NEW k \in Kind, CreateSecret(s, k)
          PROVE  Base' /\ Evolves
      BY <1>1, <2>1, CreateStep, BaseFromElse
    <2>2. ASSUME NEW s \in Secret, Expire(s)
          PROVE  Base' /\ Evolves
      BY <1>1, <2>2, ExpireStep, BaseFromElse
    <2>3. ASSUME NEW r \in Request, NEW s \in Secret, NEW u \in User \cup {NoUser},
                 NEW good \in BOOLEAN, NEW op \in Traffic, Arrive(r, op, s, u, good)
          PROVE  Base' /\ Evolves
      <3>1. GoodStep(r)
        BY <2>3, ArriveStep
      <3>2. Types'
        BY <1>1, <2>3 DEF Arrive, Types, Base, TypeOK, WorkerTypeOK, AccountTypeOK, cleanup,
           deletion
      <3> QED  BY <3>1, <3>2, BaseFromRequest
    <2>4. ASSUME NEW r \in Request, Proceed(r) \/ Fail(r)
          PROVE  Base' /\ Evolves
      <3>1. GoodStep(r) /\ UNCHANGED <<expired, users>>
        BY <2>4, RequestStep
      <3>2. Types'
        BY <1>1, <3>1 DEF Types, Base, TypeOK, WorkerTypeOK, AccountTypeOK, cleanup, deletion
      <3> QED  BY <3>1, <3>2, BaseFromRequest
    <2> QED  BY <1>1, <2>1, <2>2, <2>3, <2>4 DEF SecretsNext
  <1>2. CASE WorkerNext /\ UNCHANGED deletion
    BY <1>2, WorkerStep, BaseFromElse
  <1>3. CASE AccountNext /\ UNCHANGED cleanup
    BY <1>3, AccountStep, BaseFromElse
  <1>4. CASE UNCHANGED vars
    BY <1>4, BaseStutter
  <1> QED  BY <1>1, <1>2, <1>3, <1>4 DEF Next

(* What every reachable state satisfies, however many requests, cleanup     *)
(* runs and account deletions interleave.                                   *)
LEMMA BaseInvariant == Spec => []Base
  <1>1. Base /\ [Next]_vars => Base'
    BY BaseNext
  <1> QED  BY BaseInit, <1>1, PTL DEF Spec

-----------------------------------------------------------------------------
(* Results. *)

(* Every variable keeps its type: no handler of secrets.service.ts, cleanup *)
(* statement or account deletion writes a row the table cannot hold.        *)
THEOREM TypeCorrect == Spec => []TypeOK
  <1>1. Base => TypeOK
    BY DEF Base
  <1> QED  BY BaseInvariant, <1>1, PTL

(* Zero-then-delete holds for any number of concurrent requests: once a     *)
(* retrieval has answered with the ciphertext, or a deletion has answered   *)
(* success, the committed row no longer contains it.                        *)
THEOREM ErasedOnceAnswered == Spec => []AnsweredMeansErased
  <1>1. Base => AnsweredMeansErased
    BY DEF Base, AnsweredMeansErased, RequestInv, AnswerInv, Delivers
  <1> QED  BY BaseInvariant, <1>1, PTL

(* A row whose status is viewed, expired or deleted never holds ciphertext, *)
(* whichever handler, cleanup statement or account deletion wrote it last.  *)
THEOREM InactiveErased == Spec => []InactiveMeansErased
  <1>1. Base => InactiveMeansErased
    BY DEF Base, InactiveMeansErased, StoreInv, Clean
  <1> QED  BY BaseInvariant, <1>1, PTL

(* Zero attempts left is only answered for a secret that has been deleted.  *)
THEOREM NoAttemptsMeansGone == Spec => []ExhaustedMeansGone
  <1>1. Base => ExhaustedMeansGone
    BY DEF Base, ExhaustedMeansGone, RequestInv, AnswerInv
  <1> QED  BY BaseInvariant, <1>1, PTL

(* No step of any actor brings an erased, deleted or inactive row back, or  *)
(* lowers its count of password attempts.                                   *)
THEOREM Irreversible == Spec => ErasureIsFinal
  <1>1. Base /\ [Next]_vars => [\A s \in Secret : NoWayBack(s)]_committed
    <2> SUFFICES ASSUME Base, [Next]_vars, NEW s \in Secret
                 PROVE  NoWayBack(s)
      OBVIOUS
    <2>1. Descends(committed[s], committed'[s]) /\ Clean(committed[s])
      BY BaseNext DEF Evolves, Base, StoreInv
    <2> QED  BY <2>1 DEF NoWayBack, Descends, Clean
  <1> QED  BY BaseInvariant, <1>1, PTL DEF Spec, ErasureIsFinal

-----------------------------------------------------------------------------
(* Exclusion. *)

LEMMA OthersIdle ==
  ASSUME WorkerNext \/ AccountNext
  PROVE  UNCHANGED requests
  BY DEF WorkerNext, LockExpires, Tick, Sweep, SweepStart, SweepRow, SweepDone, SweepFail,
     AccountNext, DeleteAccount, Detach, DetachStart, DetachRow, DetachDone, DetachFail, secretVars

(* An answer with ciphertext or a count of attempts is decided before, and  *)
(* given at, COMMIT.                                                        *)
LEMMA AnsweredAtCommit ==
  ASSUME Base, [Next]_vars, NEW r \in Request,
         Answered(r)', result'[r].kind \in {"ok", "wrong"}
  PROVE  /\ call'[r] = call[r]
         /\ result'[r] = result[r]
         /\ Answered(r) \/ CommitRequest(r)
  <1>1. CASE Same(r)
    BY <1>1 DEF Same, Answered
  <1>2. CASE Proceed(r)
    <2>1. /\ pc \in [Request -> Location] /\ result \in [Request -> Result]
          /\ call \in [Request -> Call] /\ KindOfOp(r)
      BY DEF Base, TypeOK, RequestInv
    <2>2. CASE Retrieve(r)
      <3>1. pc'[r] \notin {"reply", "done"}
        BY <2>1, <2>2 DEF Retrieve, RetrieveSelect, RetrieveCheck, RetrievePurge, RetrieveRemove,
           RetrieveZero, RetrieveConsume, Select, ZeroThen, Remove, Consume, Return, Goto
      <3> QED  BY <3>1 DEF Answered
    <2>3. CASE Verify(r)
      <3>1. pc'[r] \notin {"reply", "done"}
        BY <2>1, <2>3 DEF Verify, VerifyLock, VerifySelect, VerifyCheck, VerifyPurge, VerifyRemove,
           VerifyZero, VerifyConsume, VerifyCount, Select, ZeroThen, Remove, Consume, Return, Goto
      <3> QED  BY <3>1 DEF Answered
    <2>4. CASE GetMeta(r)
      <3>1. KindOfOp(r)' /\ call' = call /\ call[r].op = "meta"
        BY <2>4, MetaSelectStep, MetaCheckStep, MetaZeroStep, MetaMarkStep
           DEF GetMeta, GoodStep, RequestInv, MetaSelect, MetaCheck, MetaZero, MetaMark, At, Select,
           Decide
      <3> QED  BY <3>1 DEF KindOfOp
    <2>5. CASE DeleteOwn(r)
      <3>1. pc'[r] \notin {"reply", "done"}
        BY <2>1, <2>5 DEF DeleteOwn, DeleteSelect, DeleteErase, Return, Goto
      <3> QED  BY <3>1 DEF Answered
    <2>6. CASE CommitRequest(r)
      BY <2>6 DEF CommitRequest
    <2>7. CASE Reply(r)
      BY <2>7 DEF Reply, Answered
    <2> QED  BY <1>2, <2>2, <2>3, <2>4, <2>5, <2>6, <2>7 DEF Proceed
  <1>3. CASE Fail(r)
    <2>1. result'[r].kind = "error"
      BY <1>3 DEF Fail, Return, Failed, NoResult, Base, TypeOK
    <2> QED  BY <2>1
  <1>4. CASE \E s \in Secret, u \in User \cup {NoUser}, good \in BOOLEAN, op \in Traffic :
               Arrive(r, op, s, u, good)
    <2>1. pc'[r] = "asked"
      BY <1>4 DEF Arrive, Goto, Base, TypeOK
    <2> QED  BY <2>1 DEF Answered
  <1>5. CASE \E q \in Request : q # r /\ (Proceed(q) \/ Fail(q))
    BY <1>5, <1>1, RequestStep DEF GoodStep
  <1>6. CASE \E q \in Request, s \in Secret, u \in User \cup {NoUser}, good \in BOOLEAN,
               op \in Traffic : q # r /\ Arrive(q, op, s, u, good)
    BY <1>6, <1>1, ArriveStep DEF GoodStep
  <1>7. CASE UNCHANGED requests
    BY <1>7, <1>1 DEF Same, requests
  <1>8. CASE WorkerNext \/ AccountNext
    <2>1. UNCHANGED requests
      BY <1>8, OthersIdle
    <2> QED  BY <2>1, <1>7
  <1>9. CASE SecretsNext
    <2>1. ASSUME NEW s \in Secret, \/ Expire(s)
                                   \/ \E k \in Kind : CreateSecret(s, k)
          PROVE  UNCHANGED requests
      BY <2>1 DEF Expire, CreateSecret
    <2> QED  BY <1>2, <1>3, <1>4, <1>5, <1>6, <1>7, <1>9, <2>1 DEF SecretsNext
  <1>10. CASE UNCHANGED vars
    BY <1>10, <1>7 DEF vars, secretVars
  <1> QED  BY <1>8, <1>9, <1>10 DEF Next

(* What the row lock excludes: r commits an answer that an earlier answer   *)
(* for the same secret rules out.                                           *)
LEMMA Excluded ==
  ASSUME Base, NEW q \in Request, NEW r \in Request, CommitRequest(r),
         Answered(q), call[q].id = call[r].id
  PROVE  /\ ~ /\ Delivers(q)
              /\ committed[call[r].id].pw
              /\ result[r].kind = "ok" /\ result[r].cipher = "sealed"
         /\ ~ /\ result[q].kind = "wrong" /\ result[r].kind = "wrong"
              /\ result[q].left = result[r].left
  <1>1. pc[r] = "commit"
    BY DEF CommitRequest
  <1>2. PICK s \in Secret : s = call[r].id /\ committed[s] \in Row
    BY <1>1, Known
  <1>3. /\ KindOfOp(r) /\ WorkInv(r) /\ AnswerInv(q) /\ StoreInv
        /\ result[q].left \in Nat /\ result[r].left \in Nat
    BY DEF Base, RequestInv, TypeOK, Result
  <1>4. ~ /\ Delivers(q)
          /\ committed[s].pw
          /\ result[r].kind = "ok" /\ result[r].cipher = "sealed"
    BY <1>1, <1>2, <1>3 DEF Delivers, AnswerInv, WorkInv, KindOfOp, Locked
  <1>5. ASSUME result[q].kind = "wrong", result[r].kind = "wrong",
               result[q].left = result[r].left
        PROVE  FALSE
    <2>1. holder[s] = r /\ Counting(r)
      BY <1>1, <1>2, <1>3, <1>5 DEF WorkInv, Locked, KindOfOp, Answered
    <2>2. committed[s].life = "live"
      BY <1>3, <2>1, RowStoreAssumption, SecretsAssumption DEF StoreInv
    <2>3. result[q].left > 0 /\ committed[s].attempts + result[q].left >= MaxPasswordAttempts
      BY <1>2, <1>3, <1>5, <2>2 DEF AnswerInv
    <2>4. result[r].left + committed[s].attempts + 1 = MaxPasswordAttempts
      BY <1>2, <1>5, <2>1, <2>3 DEF Counting
    <2>5. committed[s].attempts \in Nat
      BY <1>2 DEF Row
    <2> QED  BY <1>3, <1>5, <2>3, <2>4, <2>5 DEF MaxPasswordAttempts
  <1> QED  BY <1>2, <1>4, <1>5

LEMMA ExclusionStep ==
  ASSUME Base, ProtectedDeliveredOnce, WrongAnswersCountDown, [Next]_vars
  PROVE  ProtectedDeliveredOnce' /\ WrongAnswersCountDown'
  <1> DEFINE Kept(x) == /\ call'[x] = call[x] /\ result'[x] = result[x]
                        /\ Answered(x) \/ CommitRequest(x)
  <1>1. ASSUME NEW x \in Request, Answered(x)', result'[x].kind \in {"ok", "wrong"}
        PROVE  Kept(x)
    BY <1>1, AnsweredAtCommit
  <1>2. ASSUME NEW x \in Request, NEW y \in Request, CommitRequest(x), CommitRequest(y)
        PROVE  x = y
    BY <1>2 DEF CommitRequest, Goto, Base, TypeOK
  <1>3. ASSUME NEW x \in Request, Answered(x) \/ CommitRequest(x)
        PROVE  committed'[call[x].id].pw = committed[call[x].id].pw
    <2>1. pc[x] # "idle"
      BY <1>3 DEF Answered, CommitRequest
    <2>2. PICK s \in Secret : s = call[x].id /\ committed[s].life # "unborn"
      BY <2>1, Known
    <2>3. Descends(committed[s], committed'[s])
      BY BaseNext DEF Evolves
    <2> QED  BY <2>2, <2>3 DEF Descends
  <1>4. ASSUME NEW q \in Request, NEW r \in Request, Delivers(q)', Delivers(r)',
               call'[q].id = call'[r].id, committed'[call'[r].id].pw
        PROVE  q = r
    <2>1. Kept(q) /\ Kept(r)
      BY <1>1, <1>4 DEF Delivers
    <2>2. committed[call[r].id].pw
      BY <1>3, <1>4, <2>1
    <2>3. CASE Answered(q) /\ Answered(r)
      BY <1>4, <2>1, <2>2, <2>3 DEF Delivers, ProtectedDeliveredOnce
    <2>4. CASE CommitRequest(r) /\ Answered(q)
      BY <1>4, <2>1, <2>2, <2>4, Excluded DEF Delivers
    <2>5. CASE CommitRequest(q) /\ Answered(r)
      BY <1>4, <2>1, <2>2, <2>5, Excluded DEF Delivers
    <2> QED  BY <1>2, <2>1, <2>3, <2>4, <2>5
  <1>5. ASSUME NEW q \in Request, NEW r \in Request,
               Answered(q)', result'[q].kind = "wrong",
               Answered(r)', result'[r].kind = "wrong",
               call'[q].id = call'[r].id, result'[q].left = result'[r].left
        PROVE  q = r
    <2>1. Kept(q) /\ Kept(r)
      BY <1>1, <1>5
    <2>2. CASE Answered(q) /\ Answered(r)
      BY <1>5, <2>1, <2>2 DEF WrongAnswersCountDown
    <2>3. CASE CommitRequest(r) /\ Answered(q)
      BY <1>5, <2>1, <2>3, Excluded
    <2>4. CASE CommitRequest(q) /\ Answered(r)
      BY <1>5, <2>1, <2>4, Excluded
    <2> QED  BY <1>2, <2>1, <2>2, <2>3, <2>4
  <1>6. ProtectedDeliveredOnce'
    BY <1>4 DEF ProtectedDeliveredOnce
  <1>7. WrongAnswersCountDown'
    BY <1>5 DEF WrongAnswersCountDown
  <1> QED  BY <1>6, <1>7

LEMMA ExclusionInit == Init => ProtectedDeliveredOnce /\ WrongAnswersCountDown
  BY DEF Init, SecretsInit, ProtectedDeliveredOnce, WrongAnswersCountDown, Delivers, Answered

(* expiresAt is never moved, so that what has expired stays expired.        *)
LEMMA ExpiredGrows ==
  ASSUME [Next]_vars
  PROVE  expired \subseteq expired'
  <1>1. CASE SecretsNext
    <2>1. ASSUME NEW r \in Request, Proceed(r)
          PROVE  expired' = expired
      <3>1. CASE Retrieve(r)
        BY <3>1 DEF Retrieve, RetrieveSelect, RetrieveCheck, RetrievePurge, RetrieveRemove,
           RetrieveZero, RetrieveConsume, Select, Decide, ZeroThen, Remove, Consume, Write
      <3>2. CASE Verify(r)
        BY <3>2 DEF Verify, VerifyLock, VerifySelect, VerifyCheck, VerifyPurge, VerifyRemove,
           VerifyZero, VerifyConsume, VerifyCount, Select, Decide, ZeroThen, Remove, Consume, Write
      <3>3. CASE GetMeta(r) \/ DeleteOwn(r) \/ CommitRequest(r) \/ Reply(r)
        BY <3>3 DEF GetMeta, MetaSelect, MetaCheck, MetaZero, MetaMark, DeleteOwn, DeleteSelect,
           DeleteErase, CommitRequest, Reply, Select, Decide, Write
      <3> QED  BY <2>1, <3>1, <3>2, <3>3 DEF Proceed
    <2> QED  BY <1>1, <2>1 DEF SecretsNext, CreateSecret, Expire, Arrive, Fail
  <1>2. CASE WorkerNext
    BY <1>2 DEF WorkerNext, LockExpires, Tick, Sweep, SweepStart, SweepRow, SweepDone, SweepFail,
       secretVars
  <1>3. CASE AccountNext
    BY <1>3 DEF AccountNext, DeleteAccount, Detach, DetachStart, DetachRow, DetachDone, DetachFail,
       secretVars
  <1>4. CASE UNCHANGED vars
    BY <1>4 DEF vars, secretVars
  <1> QED  BY <1>1, <1>2, <1>3, <1>4 DEF Next

LEMMA LateStep ==
  ASSUME Base, [Next]_vars, NEW r \in Request, LateInv(r)
  PROVE  LateInv(r)'
  <1>1. expired \subseteq expired'
    BY ExpiredGrows
  <1>2. /\ pc \in [Request -> Location] /\ result \in [Request -> Result]
        /\ call \in [Request -> Call] /\ KindOfOp(r)
    BY DEF Base, TypeOK, RequestInv
  <1>3. CASE Same(r)
    BY <1>1, <1>3 DEF Same, LateInv
  <1>4. CASE Retrieve(r)
    BY <1>1, <1>2, <1>4 DEF Retrieve, RetrieveSelect, RetrieveCheck, RetrievePurge, RetrieveRemove,
       RetrieveZero, RetrieveConsume, Select, Decide, ZeroThen, Remove, Consume, Write, Return,
       Goto, At, LateInv, Null, NoResult, Found
  <1>5. CASE Verify(r)
    <2>1. CASE VerifyLock(r)
      BY <1>1, <1>2, <2>1 DEF VerifyLock, Return, Goto, LateInv, Null, NoResult
    <2>2. CASE VerifySelect(r)
      BY <1>1, <1>2, <2>2 DEF VerifySelect, Select, Return, Goto, LateInv, Null, NoResult
    <2>3. CASE VerifyCheck(r)
      <3>1. /\ call' = call /\ expired' = expired /\ result[r].kind = "none"
            /\ \/ pc'[r] \in {"purge", "commit", "count"}
               \/ call[r].id \notin expired
        BY <1>2, <2>3 DEF VerifyCheck, Decide, Return, Goto, At, KindOfOp
      <3>2. \/ result' = result
            \/ \E loc \in Location : Return(r, Null, loc)
            \/ \E n \in {0, MaxPasswordAttempts - (seen[r].attempts + 1)}, loc \in Location :
                  Return(r, Wrong(n), loc)
        BY <2>3 DEF VerifyCheck, Location
      <3>3. Null.kind = "null" /\ \A n : Wrong(n).kind = "wrong"
        BY DEF Null, Wrong, NoResult
      <3>4. result'[r].kind \in {"none", "null", "wrong"}
        <4>1. CASE result' = result
          BY <4>1, <3>1
        <4>2. ASSUME NEW res, NEW loc, Return(r, res, loc)
              PROVE  result'[r] = res
          BY <1>2, <4>2 DEF Return
        <4> QED  BY <3>2, <3>3, <4>1, <4>2
      <3> QED  BY <3>1, <3>4 DEF LateInv
    <2>4. CASE VerifyPurge(r) \/ VerifyRemove(r)
      BY <1>1, <1>2, <2>4 DEF VerifyPurge, VerifyRemove, ZeroThen, Remove, Write, Goto, LateInv
    <2>5. CASE VerifyZero(r) \/ VerifyConsume(r)
      BY <1>1, <1>2, <2>5 DEF VerifyZero, VerifyConsume, ZeroThen, Consume, Write, Return, Goto, At,
         LateInv
    <2>6. CASE VerifyCount(r)
      BY <1>1, <1>2, <2>6 DEF VerifyCount, Write, Goto, LateInv
    <2> QED  BY <1>5, <2>1, <2>2, <2>3, <2>4, <2>5, <2>6 DEF Verify
  <1>6. CASE GetMeta(r) \/ DeleteOwn(r) \/ CommitRequest(r) \/ Reply(r)
    BY <1>1, <1>2, <1>6 DEF GetMeta, MetaSelect, MetaCheck, MetaZero, MetaMark, DeleteOwn,
       DeleteSelect, DeleteErase, CommitRequest, Reply, Select, Decide, Write, Return, Goto, At,
       LateInv, Null, NoResult, Meta, Deleted
  <1>7. CASE Fail(r)
    BY <1>1, <1>2, <1>7 DEF Fail, Return, Goto, LateInv, Failed, NoResult
  <1>8. CASE \E s \in Secret, u \in User \cup {NoUser}, good \in BOOLEAN, op \in Traffic :
               Arrive(r, op, s, u, good)
    <2>1. PICK s \in Secret, u \in User \cup {NoUser}, good \in BOOLEAN, op \in Traffic :
             Arrive(r, op, s, u, good)
      BY <1>8
    <2> DEFINE asked == [op |-> op, id |-> s, user |-> u, good |-> good, late |-> s \in expired]
    <2>2. call'[r] = asked
      BY <1>2, <2>1 DEF Arrive
    <2>3. asked.id = s /\ asked.late = (s \in expired)
      OBVIOUS
    <2>4. pc'[r] = "asked" /\ result'[r].kind = "none" /\ expired' = expired
      BY <1>2, <2>1 DEF Arrive, Goto, KindOfOp
    <2> HIDE DEF asked
    <2> QED  BY <2>2, <2>3, <2>4 DEF LateInv
  <1>9. CASE \E q \in Request : q # r /\ (Proceed(q) \/ Fail(q))
    BY <1>9, <1>3, RequestStep DEF GoodStep
  <1>10. CASE \E q \in Request, s \in Secret, u \in User \cup {NoUser}, good \in BOOLEAN,
                op \in Traffic : q # r /\ Arrive(q, op, s, u, good)
    BY <1>10, <1>3, ArriveStep DEF GoodStep
  <1>11. CASE UNCHANGED requests
    BY <1>11, <1>3 DEF Same, requests
  <1>12. CASE WorkerNext \/ AccountNext
    <2>1. UNCHANGED requests
      BY <1>12, OthersIdle
    <2> QED  BY <2>1, <1>11
  <1>13. CASE SecretsNext
    <2>1. ASSUME NEW s \in Secret, \/ Expire(s)
                                   \/ \E k \in Kind : CreateSecret(s, k)
          PROVE  UNCHANGED requests
      BY <2>1 DEF Expire, CreateSecret
    <2> QED  BY <1>4, <1>5, <1>6, <1>7, <1>8, <1>9, <1>10, <1>11, <1>13, <2>1
                DEF SecretsNext, Proceed
  <1>14. CASE UNCHANGED vars
    BY <1>14, <1>11 DEF vars, secretVars
  <1> QED  BY <1>12, <1>13, <1>14 DEF Next

LEMMA Invariance == Spec => []IInv
  <1>1. Init => IInv
    <2>1. Init => \A r \in Request : LateInv(r)
      BY DEF Init, SecretsInit, LateInv, NoCall
    <2> QED  BY <2>1, BaseInit, ExclusionInit DEF IInv, Base
  <1>2. IInv /\ [Next]_vars => IInv'
    BY BaseNext, ExclusionStep, LateStep DEF IInv, Base
  <1> QED  BY <1>1, <1>2, PTL DEF Spec

(* However many requests of whatever kinds overlap on a password-protected  *)
(* secret, verifyAndRetrieve's SELECT ... FOR UPDATE lets one of them       *)
(* answer with the ciphertext.                                              *)
THEOREM OneDelivery == Spec => []ProtectedDeliveredOnce
  <1>1. IInv => ProtectedDeliveredOnce
    BY DEF IInv
  <1> QED  BY Invariance, <1>1, PTL

(* MAX_PASSWORD_ATTEMPTS bounds the wrong passwords ever answered for a     *)
(* secret: no two of them report the same number of attempts left.          *)
THEOREM AttemptsCountDown == Spec => []WrongAnswersCountDown
  <1>1. IInv => WrongAnswersCountDown
    BY DEF IInv
  <1> QED  BY Invariance, <1>1, PTL

(* A request that comes in after expiresAt is not given the ciphertext,     *)
(* whether or not the cleanup worker has been by.                           *)
THEOREM NothingLate == Spec => []NoLateDelivery
  <1>1. IInv => NoLateDelivery
    BY DEF IInv, LateInv, NoLateDelivery, Delivers
  <1> QED  BY Invariance, <1>1, PTL

=============================================================================
