-------------------------- MODULE SubscribersProofs --------------------------
(***************************************************************************)
(* Proofs about Subscribers, for any number of addresses and requests.     *)
(***************************************************************************)
EXTENDS Subscribers, TLAPS

-----------------------------------------------------------------------------
(* The inductive invariant. *)

(* What a handler knows where it is suspended. *)
Underway ==
    \A r \in Request :
        /\ pc[r] \in {"upsert", "recall", "mail"} => call[r].email \in Email
        /\ pc[r] \in {"recall", "mail"} => rows[call[r].email].status # "none"
        /\ pc[r] \in {"find", "confirm", "tell"} => call[r].token \in mailed
        /\ pc[r] \in {"confirm", "tell"} => call[call[r].token].email = seen[r]
        /\ pc[r] \in {"confirm", "tell", "leave", "bye"} => seen[r] \in Email
        /\ pc[r] \in {"lookUp", "leave"} => call[r].token \in Request
        /\ pc[r] = "leave" => rows[seen[r]].leave = call[r].token
        /\ pc[r] = "bye" => rows[seen[r]].status = "unsubscribed"

(* A token only ever stands in the row it was drawn for. *)
TokensOwned ==
    \A t \in Request :
        /\ t \in mailed => call[t].email \in Email /\ pc[t] # "idle"
        /\ \A e \in Email :
              /\ rows[e].confirm = t => call[t].email = e /\ pc[t] \notin {"idle", "upsert"}
              /\ rows[e].leave = t => seen[t] = e /\ pc[t] \in {"tell", "done", "failed"}

SubscribersInv ==
    TypeOK /\ OneLinkPerStatus /\ ValidLinkMailed /\ Underway /\ TokensOwned

-----------------------------------------------------------------------------
(* The invariant is inductive: one lemma for each action. *)

LEMMA InvInit == Init => SubscribersInv
  <1> SUFFICES ASSUME Init PROVE SubscribersInv
    OBVIOUS
  <1> USE SubscribersAssumption DEF Init, NoRow, NoCall
  <1>1. TypeOK
    BY DEF TypeOK, Row, Token, Call, Location
  <1>2. OneLinkPerStatus
    BY DEF OneLinkPerStatus
  <1>3. ValidLinkMailed
    BY DEF ValidLinkMailed
  <1>4. Underway
    BY DEF Underway
  <1>5. TokensOwned
    BY DEF TokensOwned
  <1> QED  BY <1>1, <1>2, <1>3, <1>4, <1>5 DEF SubscribersInv

LEMMA ArriveInv ==
  ASSUME SubscribersInv, NEW r \in Request, NEW c \in Call, NEW loc \in Location,
         Arrive(r, c, loc),
         \/ loc = "upsert" /\ c.email \in Email
         \/ loc = "find" /\ c.token \in mailed
         \/ loc = "lookUp" /\ c.token \in Request
  PROVE  SubscribersInv'
  <1> USE SubscribersAssumption DEF Arrive, Goto
  <1>1. TypeOK'
    BY DEF SubscribersInv, TypeOK, Row, Token, Location, Call, Underway
  <1>2. OneLinkPerStatus'
    BY DEF SubscribersInv, OneLinkPerStatus, TypeOK, Row, Token, Location, Underway, TokensOwned
  <1>3. ValidLinkMailed'
    BY DEF SubscribersInv, ValidLinkMailed, TypeOK, Row, Token, Location, TokensOwned, Underway
  <1>4. Underway'
    <2>1. /\ pc[r] = "idle" /\ r \notin mailed
          /\ pc' = [pc EXCEPT ![r] = loc] /\ call' = [call EXCEPT ![r] = c]
          /\ UNCHANGED <<rows, seen, mailed>>
      BY DEF SubscribersInv, TokensOwned
    <2>2. \A t \in Request : t # r => call'[t] = call[t] /\ pc'[t] = pc[t]
      BY <2>1 DEF SubscribersInv, TypeOK
    <2>3. call'[r] = c /\ pc'[r] = loc
      BY <2>1 DEF SubscribersInv, TypeOK
    <2>4. \A t \in Request : pc[t] \in {"confirm", "tell"} => call[t].token \in mailed /\ mailed \in SUBSET Request
      BY DEF SubscribersInv, TypeOK, Underway
    <2> QED  BY <2>1, <2>2, <2>3, <2>4 DEF SubscribersInv, Underway
  <1>5. TokensOwned'
    BY DEF SubscribersInv, Underway, TokensOwned, TypeOK, Row, Token, Location, Call
  <1> QED  BY <1>1, <1>2, <1>3, <1>4, <1>5 DEF SubscribersInv

LEMMA UpsertInv ==
  ASSUME SubscribersInv, NEW r \in Request, Upsert(r)
  PROVE  SubscribersInv'
  <1> USE SubscribersAssumption DEF Upsert, Pending, Goto
  <1>1. TypeOK'
    <2>1. /\ rows \in [Email -> Row] /\ pc \in [Request -> Location]
          /\ call[r].email \in Email
      BY DEF SubscribersInv, TypeOK, Underway
    <2>2. \A row \in Row : Pending(row, r) \in Row
      BY DEF Row, Token
    <2>3. rows' \in [Email -> Row]
      BY <2>1, <2>2
    <2>4. pc' \in [Request -> Location]
      BY <2>1 DEF Location
    <2> QED  BY <2>3, <2>4 DEF SubscribersInv, TypeOK
  <1>2. OneLinkPerStatus'
    BY DEF SubscribersInv, OneLinkPerStatus, TypeOK, Row, Token, Location, Underway, TokensOwned
  <1>3. ValidLinkMailed'
    BY DEF SubscribersInv, ValidLinkMailed, TypeOK, Row, Token, Location, TokensOwned, Underway
  <1>4. Underway'
    BY DEF SubscribersInv, OneLinkPerStatus, Underway, TokensOwned, TypeOK, Row, Token, Location, Call
  <1>5. TokensOwned'
    BY DEF SubscribersInv, Underway, TokensOwned, TypeOK, Row, Token, Location, Call
  <1> QED  BY <1>1, <1>2, <1>3, <1>4, <1>5 DEF SubscribersInv

LEMMA RecallInv ==
  ASSUME SubscribersInv, NEW r \in Request, Recall(r)
  PROVE  SubscribersInv'
  <1> USE SubscribersAssumption DEF Recall, Answer, Goto
  <1>1. TypeOK'
    BY DEF SubscribersInv, TypeOK, Location, Underway
  <1>2. OneLinkPerStatus'
    BY DEF SubscribersInv, OneLinkPerStatus, TypeOK, Row, Token, Location, Underway, TokensOwned
  <1>3. ValidLinkMailed'
    BY DEF SubscribersInv, ValidLinkMailed, TypeOK, Row, Token, Location, TokensOwned, Underway
  <1>4. Underway'
    BY DEF SubscribersInv, OneLinkPerStatus, Underway, TokensOwned, TypeOK, Row, Token, Location, Call
  <1>5. TokensOwned'
    BY DEF SubscribersInv, Underway, TokensOwned, TypeOK, Row, Token, Location, Call
  <1> QED  BY <1>1, <1>2, <1>3, <1>4, <1>5 DEF SubscribersInv

LEMMA SendMailInv ==
  ASSUME SubscribersInv, NEW r \in Request, SendMail(r)
  PROVE  SubscribersInv'
  <1> USE SubscribersAssumption DEF SendMail, Answer, Goto
  <1>1. TypeOK'
    BY DEF SubscribersInv, TypeOK, Location, Underway
  <1>2. OneLinkPerStatus'
    BY DEF SubscribersInv, OneLinkPerStatus, TypeOK, Row, Token, Location, Underway, TokensOwned
  <1>3. ValidLinkMailed'
    BY DEF SubscribersInv, ValidLinkMailed, TypeOK, Row, Token, Location, TokensOwned, Underway
  <1>4. Underway'
    BY DEF SubscribersInv, OneLinkPerStatus, Underway, TokensOwned, TypeOK, Row, Token, Location, Call
  <1>5. TokensOwned'
    BY DEF SubscribersInv, Underway, TokensOwned, TypeOK, Row, Token, Location, Call
  <1> QED  BY <1>1, <1>2, <1>3, <1>4, <1>5 DEF SubscribersInv

LEMMA ConfirmFindInv ==
  ASSUME SubscribersInv, NEW r \in Request, ConfirmFind(r)
  PROVE  SubscribersInv'
  <1> USE SubscribersAssumption DEF ConfirmFind, Answer, Goto
  <1>1. TypeOK'
    BY DEF SubscribersInv, TypeOK, Location, Underway
  <1>2. OneLinkPerStatus'
    BY DEF SubscribersInv, OneLinkPerStatus, TypeOK, Row, Token, Location, Underway, TokensOwned
  <1>3. ValidLinkMailed'
    BY DEF SubscribersInv, ValidLinkMailed, TypeOK, Row, Token, Location, TokensOwned, Underway
  <1>4. Underway'
    BY DEF SubscribersInv, OneLinkPerStatus, Underway, TokensOwned, TypeOK, Row, Token, Location, Call
  <1>5. TokensOwned'
    BY DEF SubscribersInv, Underway, TokensOwned, TypeOK, Row, Token, Location, Call
  <1> QED  BY <1>1, <1>2, <1>3, <1>4, <1>5 DEF SubscribersInv

(* An UPDATE by confirmation token finds the row that was read, or none. *)
LEMMA ConfirmWhere ==
  ASSUME SubscribersInv, NEW r \in Request, ConfirmUpdate(r)
  PROVE  /\ seen[r] \in Email
         /\ \/ rows' = rows
            \/ /\ rows[seen[r]].confirm = call[r].token
               /\ rows' = [rows EXCEPT ![seen[r]] = Confirmed(@, r)]
  <1> DEFINE t == call[r].token
  <1>1. t \in Request /\ seen[r] \in Email /\ call[t].email = seen[r]
    BY DEF SubscribersInv, TypeOK, Underway, ConfirmUpdate
  <1>2. ASSUME NEW e \in Email, rows[e].confirm = t PROVE e = seen[r]
    BY <1>1, <1>2 DEF SubscribersInv, TokensOwned
  <1>3. rows' = [e \in Email |-> IF rows[e].confirm = t THEN Confirmed(rows[e], r) ELSE rows[e]]
    BY DEF ConfirmUpdate
  <1>4. rows = [e \in Email |-> rows[e]]
    BY DEF SubscribersInv, TypeOK
  <1>5. CASE rows[seen[r]].confirm = t
    BY <1>1, <1>2, <1>3, <1>4, <1>5
  <1>6. CASE rows[seen[r]].confirm # t
    BY <1>1, <1>2, <1>3, <1>4, <1>6
  <1> QED  BY <1>1, <1>5, <1>6

(* An UPDATE by unsubscribe token finds the row that was read. *)
LEMMA LeaveWhere ==
  ASSUME SubscribersInv, NEW r \in Request, LeaveUpdate(r)
  PROVE  /\ seen[r] \in Email
         /\ rows[seen[r]].status \in {"confirmed", "unsubscribed"}
         /\ rows' = [rows EXCEPT ![seen[r]].status = "unsubscribed"]
  <1> DEFINE t == call[r].token
  <1>1. t \in Request /\ seen[r] \in Email /\ rows[seen[r]].leave = t
    BY DEF SubscribersInv, Underway, LeaveUpdate
  <1>2. ASSUME NEW e \in Email, rows[e].leave = t PROVE e = seen[r]
    BY <1>1, <1>2 DEF SubscribersInv, TokensOwned
  <1>3. rows' = [e \in Email |-> IF rows[e].leave = t
                                   THEN [rows[e] EXCEPT !.status = "unsubscribed"] ELSE rows[e]]
    BY DEF LeaveUpdate
  <1>4. rows = [e \in Email |-> rows[e]]
    BY DEF SubscribersInv, TypeOK
  <1>5. rows[seen[r]].status \in {"confirmed", "unsubscribed"}
    BY <1>1, SubscribersAssumption DEF SubscribersInv, OneLinkPerStatus
  <1> QED  BY <1>1, <1>2, <1>3, <1>4, <1>5

LEMMA ConfirmUpdateInv ==
  ASSUME SubscribersInv, NEW r \in Request, ConfirmUpdate(r)
  PROVE  SubscribersInv'
  <1> DEFINE e == seen[r]
  <1> USE SubscribersAssumption
  <1>1. /\ pc[r] = "confirm" /\ pc' = [pc EXCEPT ![r] = "tell"]
        /\ UNCHANGED <<lapsed, call, seen, answer, mailed, announced>>
    BY DEF ConfirmUpdate, Goto
  <1>2. CASE rows' = rows
    BY <1>1, <1>2 DEF SubscribersInv, TypeOK, OneLinkPerStatus, ValidLinkMailed, Underway, TokensOwned, Location
  <1>3. CASE /\ e \in Email
             /\ rows[e].confirm = call[r].token
             /\ rows' = [rows EXCEPT ![e] = Confirmed(@, r)]
    <2>1. call[r].token \in Request /\ rows[e].status = "pending" /\ rows[e].leave = NoToken
      BY <1>1, <1>3 DEF SubscribersInv, TypeOK, OneLinkPerStatus, Underway
    <2>0. rows \in [Email -> Row] /\ \A row \in Row : Confirmed(row, r) \in Row
      BY DEF SubscribersInv, TypeOK, Row, Token, Confirmed
    <2>2. rows \in [Email -> Row] /\ rows' \in [Email -> Row]
      BY <1>3, <2>0
    <2>3. /\ rows'[e].status = "confirmed" /\ rows'[e].confirm = NoToken /\ rows'[e].leave = r
          /\ \A f \in Email \ {e} : rows'[f] = rows[f]
      BY <1>3, <2>2 DEF Confirmed, Row
    <2>4. TypeOK'
      BY <1>1, <2>2 DEF SubscribersInv, TypeOK, Location
    <2>5. OneLinkPerStatus'
      BY <2>3 DEF SubscribersInv, OneLinkPerStatus
    <2>6. ValidLinkMailed'
      BY <1>1, <2>3 DEF SubscribersInv, TypeOK, ValidLinkMailed
    <2>7. Underway'
      BY <1>1, <2>1, <2>3 DEF SubscribersInv, TypeOK, Underway
    <2>8. TokensOwned'
      BY <1>1, <2>3 DEF SubscribersInv, TypeOK, TokensOwned
    <2> QED  BY <2>4, <2>5, <2>6, <2>7, <2>8 DEF SubscribersInv
  <1> QED  BY <1>2, <1>3, ConfirmWhere

LEMMA ConfirmTellInv ==
  ASSUME SubscribersInv, NEW r \in Request, ConfirmTell(r)
  PROVE  SubscribersInv'
  <1> USE SubscribersAssumption DEF ConfirmTell, Answer, Goto
  <1>1. TypeOK'
    BY DEF SubscribersInv, TypeOK, Location, Underway
  <1>2. OneLinkPerStatus'
    BY DEF SubscribersInv, OneLinkPerStatus, TypeOK, Row, Token, Location, Underway, TokensOwned
  <1>3. ValidLinkMailed'
    BY DEF SubscribersInv, ValidLinkMailed, TypeOK, Row, Token, Location, TokensOwned, Underway
  <1>4. Underway'
    BY DEF SubscribersInv, OneLinkPerStatus, Underway, TokensOwned, TypeOK, Row, Token, Location, Call
  <1>5. TokensOwned'
    BY DEF SubscribersInv, Underway, TokensOwned, TypeOK, Row, Token, Location, Call
  <1> QED  BY <1>1, <1>2, <1>3, <1>4, <1>5 DEF SubscribersInv

LEMMA LeaveFindInv ==
  ASSUME SubscribersInv, NEW r \in Request, LeaveFind(r)
  PROVE  SubscribersInv'
  <1> USE SubscribersAssumption DEF LeaveFind, Answer, Goto
  <1>1. TypeOK'
    BY DEF SubscribersInv, TypeOK, Location, Underway
  <1>2. OneLinkPerStatus'
    BY DEF SubscribersInv, OneLinkPerStatus, TypeOK, Row, Token, Location, Underway, TokensOwned
  <1>3. ValidLinkMailed'
    BY DEF SubscribersInv, ValidLinkMailed, TypeOK, Row, Token, Location, TokensOwned, Underway
  <1>4. Underway'
    BY DEF SubscribersInv, OneLinkPerStatus, Underway, TokensOwned, TypeOK, Row, Token, Location, Call
  <1>5. TokensOwned'
    BY DEF SubscribersInv, Underway, TokensOwned, TypeOK, Row, Token, Location, Call
  <1> QED  BY <1>1, <1>2, <1>3, <1>4, <1>5 DEF SubscribersInv

LEMMA LeaveUpdateInv ==
  ASSUME SubscribersInv, NEW r \in Request, LeaveUpdate(r)
  PROVE  SubscribersInv'
  <1> DEFINE e == seen[r]
  <1> USE SubscribersAssumption
  <1>1. /\ pc[r] = "leave" /\ pc' = [pc EXCEPT ![r] = "bye"]
        /\ UNCHANGED <<lapsed, call, seen, answer, mailed, announced>>
    BY DEF LeaveUpdate, Goto
  <1>2. /\ e \in Email
        /\ rows[e].status \in {"confirmed", "unsubscribed"}
        /\ rows' = [rows EXCEPT ![e].status = "unsubscribed"]
    BY LeaveWhere
  <1>3. rows \in [Email -> Row] /\ rows' \in [Email -> Row]
    BY <1>2 DEF SubscribersInv, TypeOK, Row
  <1>4. /\ rows'[e].status = "unsubscribed"
        /\ \A f \in Email : /\ rows'[f].confirm = rows[f].confirm
                            /\ rows'[f].leave = rows[f].leave
        /\ \A f \in Email \ {e} : rows'[f] = rows[f]
    BY <1>2, <1>3 DEF Row
  <1>5. TypeOK'
    BY <1>1, <1>3 DEF SubscribersInv, TypeOK, Location
  <1>6. OneLinkPerStatus'
    BY <1>2, <1>4 DEF SubscribersInv, OneLinkPerStatus
  <1>7. ValidLinkMailed'
    BY <1>1, <1>4 DEF SubscribersInv, TypeOK, ValidLinkMailed
  <1>8. Underway'
    BY <1>1, <1>2, <1>4 DEF SubscribersInv, TypeOK, Underway
  <1>9. TokensOwned'
    BY <1>1, <1>4 DEF SubscribersInv, TypeOK, TokensOwned
  <1> QED  BY <1>5, <1>6, <1>7, <1>8, <1>9 DEF SubscribersInv

LEMMA LeaveTellInv ==
  ASSUME SubscribersInv, NEW r \in Request, LeaveTell(r)
  PROVE  SubscribersInv'
  <1> USE SubscribersAssumption DEF LeaveTell, Answer, Goto
  <1>1. TypeOK'
    BY DEF SubscribersInv, TypeOK, Location, Underway
  <1>2. OneLinkPerStatus'
    BY DEF SubscribersInv, OneLinkPerStatus, TypeOK, Row, Token, Location, Underway, TokensOwned
  <1>3. ValidLinkMailed'
    BY DEF SubscribersInv, ValidLinkMailed, TypeOK, Row, Token, Location, TokensOwned, Underway
  <1>4. Underway'
    BY DEF SubscribersInv, OneLinkPerStatus, Underway, TokensOwned, TypeOK, Row, Token, Location, Call
  <1>5. TokensOwned'
    BY DEF SubscribersInv, Underway, TokensOwned, TypeOK, Row, Token, Location, Call
  <1> QED  BY <1>1, <1>2, <1>3, <1>4, <1>5 DEF SubscribersInv

LEMMA FailInv ==
  ASSUME SubscribersInv, NEW r \in Request, Fail(r)
  PROVE  SubscribersInv'
  <1> USE SubscribersAssumption DEF Fail, Goto
  <1>1. TypeOK'
    BY DEF SubscribersInv, TypeOK, Location, Underway
  <1>2. OneLinkPerStatus'
    BY DEF SubscribersInv, OneLinkPerStatus, TypeOK, Row, Token, Location, Underway, TokensOwned
  <1>3. ValidLinkMailed'
    BY DEF SubscribersInv, ValidLinkMailed, TypeOK, Row, Token, Location, TokensOwned, Underway
  <1>4. Underway'
    BY DEF SubscribersInv, OneLinkPerStatus, Underway, TokensOwned, TypeOK, Row, Token, Location, Call
  <1>5. TokensOwned'
    BY DEF SubscribersInv, Underway, TokensOwned, TypeOK, Row, Token, Location, Call
  <1> QED  BY <1>1, <1>2, <1>3, <1>4, <1>5 DEF SubscribersInv

LEMMA LapseInv ==
  ASSUME SubscribersInv, NEW t \in Request, Lapse(t)
  PROVE  SubscribersInv'
  BY DEF SubscribersInv, TypeOK, OneLinkPerStatus, ValidLinkMailed, Underway, TokensOwned, Lapse

LEMMA InvNext == SubscribersInv /\ [Next]_vars => SubscribersInv'
  <1> SUFFICES ASSUME SubscribersInv, [Next]_vars PROVE SubscribersInv'
    OBVIOUS
  <1> USE SubscribersAssumption
  <1>1. ASSUME NEW r \in Request, NEW e \in Email, Subscribe(r, e) PROVE SubscribersInv'
    <2> DEFINE c == [op |-> "subscribe", email |-> e, token |-> NoToken]
    <2>1. c \in Call /\ c.email \in Email /\ "upsert" \in Location
      BY DEF Call, Token, Location
    <2> QED  BY <1>1, <2>1, ArriveInv DEF Subscribe
  <1>2. ASSUME NEW r \in Request, NEW t \in Request, Confirm(r, t) PROVE SubscribersInv'
    <2> DEFINE c == [op |-> "confirm", email |-> NoEmail, token |-> t]
    <2>1. c \in Call /\ c.token = t /\ "find" \in Location
      BY DEF Call, Token, Location
    <2> QED  BY <1>2, <2>1, ArriveInv DEF Confirm
  <1>3. ASSUME NEW r \in Request, NEW t \in Request, Unsubscribe(r, t) PROVE SubscribersInv'
    <2> DEFINE c == [op |-> "unsubscribe", email |-> NoEmail, token |-> t]
    <2>1. c \in Call /\ c.token = t /\ "lookUp" \in Location
      BY DEF Call, Token, Location
    <2> QED  BY <1>3, <2>1, ArriveInv DEF Unsubscribe
  <1>4. CASE UNCHANGED vars
    BY <1>4 DEF vars, SubscribersInv, TypeOK, OneLinkPerStatus, ValidLinkMailed, Underway, TokensOwned
  <1> QED
    BY <1>1, <1>2, <1>3, <1>4, LapseInv, UpsertInv, RecallInv, SendMailInv, ConfirmFindInv,
       ConfirmUpdateInv, ConfirmTellInv, LeaveFindInv, LeaveUpdateInv, LeaveTellInv, FailInv
    DEF Next

(* In every state the program reaches: *)
THEOREM InvAlways == Spec => []SubscribersInv
  BY InvInit, InvNext, PTL DEF Spec

-----------------------------------------------------------------------------
(* Every row, token and handler of the mailing list keeps its type. *)
THEOREM TypeCorrect == Spec => []TypeOK
  <1>1. SubscribersInv => TypeOK
    BY DEF SubscribersInv
  <1> QED  BY <1>1, InvAlways, PTL

(* However subscribing, confirming and unsubscribing overlap, a pending row *)
(* has a confirmation token and no unsubscribe token, and a confirmed or    *)
(* unsubscribed row has it the other way round.                             *)
THEOREM OneLink == Spec => []OneLinkPerStatus
  <1>1. SubscribersInv => OneLinkPerStatus
    BY DEF SubscribersInv
  <1> QED  BY <1>1, InvAlways, PTL

(* Whoever wins when requests replace each other's confirmation token, the  *)
(* token in the row is mailed unless the handler that drew it failed.       *)
THEOREM LastTokenMailed == Spec => []ValidLinkMailed
  <1>1. SubscribersInv => ValidLinkMailed
    BY DEF SubscribersInv
  <1> QED  BY <1>1, InvAlways, PTL

(* An unsubscribe link, once issued, is never replaced or withdrawn. *)
THEOREM LinkPermanent == Spec => LeaveLinkPermanent
  <1>1. SubscribersInv /\ [Next]_vars =>
          [\A e \in Email : rows[e].leave # NoToken => rows'[e].leave = rows[e].leave]_rows
    <2> SUFFICES ASSUME SubscribersInv, [Next]_vars, rows' # rows, NEW e \in Email,
                        rows[e].leave # NoToken
                 PROVE  rows'[e].leave = rows[e].leave
      OBVIOUS
    <2>1. rows \in [Email -> Row]
      BY DEF SubscribersInv, TypeOK
    <2>2. rows[e].status \in {"confirmed", "unsubscribed"} /\ rows[e].confirm = NoToken
      BY SubscribersAssumption, <2>1 DEF SubscribersInv, OneLinkPerStatus, Row
    <2>3. ASSUME NEW r \in Request, Upsert(r) PROVE rows'[e].leave = rows[e].leave
      BY <2>1, <2>2, <2>3 DEF Upsert, Row
    <2>4. ASSUME NEW r \in Request, ConfirmUpdate(r) PROVE rows'[e].leave = rows[e].leave
      <3>1. call[r].token \in Request
        BY <2>4 DEF SubscribersInv, TypeOK, Underway, ConfirmUpdate
      <3> QED  BY <2>2, <2>4, <3>1, SubscribersAssumption DEF ConfirmUpdate
    <2>5. ASSUME NEW r \in Request, LeaveUpdate(r) PROVE rows'[e].leave = rows[e].leave
      BY <2>1, <2>5 DEF LeaveUpdate, Row
    <2> QED
      BY <2>3, <2>4, <2>5
      DEF Next, vars, Subscribe, Confirm, Unsubscribe, Arrive, Lapse, Recall, SendMail,
          ConfirmFind, ConfirmTell, LeaveFind, LeaveTell, Fail
  <1> QED  BY <1>1, InvAlways, PTL DEF Spec, LeaveLinkPermanent

-----------------------------------------------------------------------------
(* The handlers implement the opt-in promise. *)

StandingOf == [e \in Email |-> Standing(rows[e])]
SentTo == [e \in Email |-> {t \in mailed : call[t].email = e}]

LEMMA StandingCases ==
  ASSUME NEW row
  PROVE  /\ row.status = "none" => Standing(row) = "stranger"
         /\ row.status = "pending" => Standing(row) = "invited"
         /\ row.status = "confirmed" => Standing(row) = "member"
         /\ row.status = "unsubscribed" => Standing(row) = "left"
  BY DEF Standing

LEMMA SentKept ==
  ASSUME SubscribersInv, mailed' = mailed,
         \A t \in mailed : call'[t] = call[t]
  PROVE  SentTo' = SentTo
  BY DEF SentTo

LEMMA PromiseInit == Init => Promise!Init
  <1> SUFFICES ASSUME Init PROVE Promise!Init
    OBVIOUS
  <1>1. \A e \in Email : rows[e].status = "none"
    BY DEF Init, NoRow
  <1>2. StandingOf = [e \in Email |-> "stranger"]
    BY <1>1, StandingCases DEF StandingOf
  <1>3. SentTo = [e \in Email |-> {}] /\ announced = {}
    BY DEF SentTo, Init
  <1> QED  BY <1>2, <1>3 DEF Promise!Init, StandingOf, SentTo

LEMMA ArriveStutters ==
  ASSUME SubscribersInv, NEW r \in Request, NEW c, NEW loc, Arrive(r, c, loc)
  PROVE  UNCHANGED <<StandingOf, SentTo, announced>>
  <1>1. \A t \in mailed : call'[t] = call[t]
    BY DEF SubscribersInv, TypeOK, TokensOwned, Arrive
  <1>2. SentTo' = SentTo
    BY <1>1, SentKept DEF Arrive
  <1> QED  BY <1>2 DEF Arrive, StandingOf

LEMMA UpsertInvites ==
  ASSUME SubscribersInv, NEW r \in Request, Upsert(r)
  PROVE  \/ UNCHANGED <<StandingOf, SentTo, announced>>
         \/ \E e \in Email : Promise!Invite(e)
  <1> DEFINE e == call[r].email
  <1>1. e \in Email /\ rows \in [Email -> Row]
    BY DEF SubscribersInv, TypeOK, Underway, Upsert
  <1>2. SentTo' = SentTo /\ announced' = announced
    BY SentKept DEF Upsert
  <1>3. CASE rows[e].status = "none"
    <2>1. rows'[e].status = "pending" /\ \A f \in Email \ {e} : rows'[f] = rows[f]
      BY <1>1, <1>3 DEF Upsert, Pending, Row
    <2>2. StandingOf[e] = "stranger" /\ StandingOf' = [StandingOf EXCEPT ![e] = "invited"]
      BY <1>1, <1>3, <2>1, StandingCases DEF StandingOf
    <2> QED  BY <1>1, <1>2, <2>2 DEF Promise!Invite, Promise!Become, StandingOf, SentTo
  <1>4. CASE rows[e].status # "none"
    <2>1. rows'[e].status = rows[e].status /\ \A f \in Email \ {e} : rows'[f] = rows[f]
      BY <1>1, <1>4 DEF Upsert, Pending, Row
    <2>2. \A f \in Email : Standing(rows'[f]) = Standing(rows[f])
      BY <2>1 DEF Standing
    <2>3. StandingOf' = StandingOf
      BY <2>2 DEF StandingOf
    <2> QED  BY <1>2, <2>3
  <1> QED  BY <1>3, <1>4

LEMMA SendMailMails ==
  ASSUME SubscribersInv, NEW r \in Request, SendMail(r)
  PROVE  \E e \in Email : Promise!Mail(e, r)
  <1> DEFINE e == call[r].email
  <1>1. e \in Email /\ rows[e].status # "none" /\ rows \in [Email -> Row]
    BY DEF SubscribersInv, TypeOK, Underway, SendMail
  <1>2. StandingOf' = StandingOf /\ announced' = announced
    BY DEF SendMail, StandingOf
  <1>3. StandingOf[e] # "stranger"
    BY <1>1, StandingCases DEF StandingOf, Row
  <1>4. SentTo' = [SentTo EXCEPT ![e] = @ \cup {r}]
    BY <1>1 DEF SendMail, SentTo
  <1> QED  BY <1>1, <1>2, <1>3, <1>4 DEF Promise!Mail, StandingOf, SentTo

LEMMA ConfirmJoins ==
  ASSUME SubscribersInv, NEW r \in Request, ConfirmUpdate(r)
  PROVE  \/ UNCHANGED <<StandingOf, SentTo, announced>>
         \/ \E e \in Email : Promise!Join(e)
  <1> DEFINE e == seen[r]
  <1> DEFINE t == call[r].token
  <1>1. SentTo' = SentTo /\ announced' = announced
    BY SentKept DEF ConfirmUpdate
  <1>2. CASE rows' = rows
    BY <1>1, <1>2 DEF StandingOf
  <1>3. CASE e \in Email /\ rows[e].confirm = t /\ rows' = [rows EXCEPT ![e] = Confirmed(@, r)]
    <2>1. t \in mailed /\ t \in Request /\ call[t].email = e /\ rows \in [Email -> Row]
      BY DEF SubscribersInv, TypeOK, Underway, ConfirmUpdate
    <2>2. rows[e].status = "pending"
      BY <1>3, <2>1, SubscribersAssumption DEF SubscribersInv, OneLinkPerStatus
    <2>3. rows'[e].status = "confirmed" /\ \A f \in Email \ {e} : rows'[f] = rows[f]
      BY <1>3, <2>1 DEF Confirmed, Row
    <2>4. StandingOf[e] = "invited" /\ StandingOf' = [StandingOf EXCEPT ![e] = "member"]
      BY <1>3, <2>2, <2>3, StandingCases DEF StandingOf
    <2>5. SentTo[e] # {}
      BY <1>3, <2>1 DEF SentTo
    <2> QED  BY <1>1, <1>3, <2>4, <2>5 DEF Promise!Join, Promise!Become, StandingOf, SentTo
  <1> QED  BY <1>2, <1>3, ConfirmWhere

LEMMA LeaveLeaves ==
  ASSUME SubscribersInv, NEW r \in Request, LeaveUpdate(r)
  PROVE  \E e \in Email : Promise!Leave(e)
  <1> DEFINE e == seen[r]
  <1>1. SentTo' = SentTo /\ announced' = announced
    BY SentKept DEF LeaveUpdate
  <1>2. /\ e \in Email /\ rows[e].status \in {"confirmed", "unsubscribed"}
        /\ rows' = [rows EXCEPT ![e].status = "unsubscribed"] /\ rows \in [Email -> Row]
    BY LeaveWhere DEF SubscribersInv, TypeOK
  <1>3. rows'[e].status = "unsubscribed" /\ \A f \in Email \ {e} : rows'[f] = rows[f]
    BY <1>2 DEF Row
  <1>4. /\ StandingOf[e] \in {"member", "left"}
        /\ StandingOf' = [StandingOf EXCEPT ![e] = "left"]
    BY <1>2, <1>3, StandingCases DEF StandingOf
  <1> QED  BY <1>1, <1>2, <1>4 DEF Promise!Leave, Promise!Become, StandingOf, SentTo

LEMMA ConfirmTells ==
  ASSUME SubscribersInv, NEW r \in Request, ConfirmTell(r)
  PROVE  \E e \in Email : Promise!Tell(e, "joined")
  <1> DEFINE e == seen[r]
  <1>1. e \in Email /\ call[r].token \in mailed /\ call[call[r].token].email = e
    BY DEF SubscribersInv, Underway, ConfirmTell
  <1>2. SentTo[e] # {}
    BY <1>1 DEF SentTo
  <1>3. UNCHANGED <<StandingOf, SentTo>> /\ announced' = announced \cup {<<e, "joined">>}
    BY DEF ConfirmTell, StandingOf, SentTo
  <1> QED  BY <1>1, <1>2, <1>3 DEF Promise!Tell, StandingOf, SentTo

LEMMA LeaveTells ==
  ASSUME SubscribersInv, NEW r \in Request, LeaveTell(r)
  PROVE  \E e \in Email : Promise!Tell(e, "left")
  <1> DEFINE e == seen[r]
  <1>1. e \in Email /\ rows[e].status = "unsubscribed"
    BY DEF SubscribersInv, Underway, LeaveTell
  <1>2. StandingOf[e] = "left"
    BY <1>1, StandingCases DEF StandingOf
  <1>3. UNCHANGED <<StandingOf, SentTo>> /\ announced' = announced \cup {<<e, "left">>}
    BY DEF LeaveTell, StandingOf, SentTo
  <1> QED  BY <1>1, <1>2, <1>3 DEF Promise!Tell, StandingOf, SentTo

LEMMA PromiseNext == SubscribersInv /\ [Next]_vars => [Promise!Next]_(Promise!optIn)
  <1> SUFFICES ASSUME SubscribersInv, [Next]_vars PROVE [Promise!Next]_(Promise!optIn)
    OBVIOUS
  <1>0. ASSUME UNCHANGED <<StandingOf, SentTo, announced>> PROVE UNCHANGED Promise!optIn
    BY <1>0 DEF Promise!optIn, StandingOf, SentTo
  <1>1. ASSUME NEW r \in Request, Upsert(r) PROVE [Promise!Next]_(Promise!optIn)
    BY <1>0, <1>1, UpsertInvites DEF Promise!Next
  <1>2. ASSUME NEW r \in Request, SendMail(r) PROVE Promise!Next
    BY <1>2, SendMailMails DEF Promise!Next
  <1>3. ASSUME NEW r \in Request, ConfirmUpdate(r) PROVE [Promise!Next]_(Promise!optIn)
    BY <1>0, <1>3, ConfirmJoins DEF Promise!Next
  <1>4. ASSUME NEW r \in Request, LeaveUpdate(r) PROVE Promise!Next
    BY <1>4, LeaveLeaves DEF Promise!Next
  <1>5. ASSUME NEW r \in Request, ConfirmTell(r) PROVE Promise!Next
    BY <1>5, ConfirmTells DEF Promise!Next
  <1>6. ASSUME NEW r \in Request, LeaveTell(r) PROVE Promise!Next
    BY <1>6, LeaveTells DEF Promise!Next
  <1>7. ASSUME NEW r \in Request, NEW e \in Email, Subscribe(r, e) PROVE UNCHANGED Promise!optIn
    BY <1>0, <1>7, ArriveStutters DEF Subscribe
  <1>8. ASSUME NEW r \in Request, NEW t \in Request, Confirm(r, t) \/ Unsubscribe(r, t)
        PROVE  UNCHANGED Promise!optIn
    BY <1>0, <1>8, ArriveStutters DEF Confirm, Unsubscribe
  <1>9. ASSUME NEW r \in Request, Recall(r) \/ ConfirmFind(r) \/ LeaveFind(r) \/ Fail(r) \/ Lapse(r)
        PROVE  UNCHANGED Promise!optIn
    <2>1. UNCHANGED <<rows, mailed, call, announced>>
      BY <1>9 DEF Recall, ConfirmFind, LeaveFind, Fail, Lapse
    <2> QED  BY <1>0, <2>1 DEF StandingOf, SentTo
  <1>10. CASE UNCHANGED vars
    BY <1>0, <1>10 DEF vars, StandingOf, SentTo
  <1> QED
    BY <1>1, <1>2, <1>3, <1>4, <1>5, <1>6, <1>7, <1>8, <1>9, <1>10 DEF Next

(* For any number of addresses and overlapping requests: an address joins   *)
(* only by a link it was mailed, never goes back a step, never returns once *)
(* it left, and Resend and Loops hear of nobody else.                       *)
THEOREM OptInKept == Spec => KeepsOptIn
  BY PromiseInit, PromiseNext, InvAlways, PTL DEF Spec, KeepsOptIn, Promise!Spec

=============================================================================
