----------------------------- MODULE Subscribers -----------------------------
(***************************************************************************)
(* server/src/services/subscribers.service.ts, the double opt-in of the    *)
(* mailing list, under the routes of server/src/routes/subscribers.ts.     *)
(* Every statement commits by itself; a handler is suspended at each of    *)
(* them, and anybody's request may run in between.                         *)
(*                                                                         *)
(* Each request draws at most one nanoid, and a nanoid is never drawn      *)
(* twice: the request that drew a token stands for it.                     *)
(***************************************************************************)
CONSTANTS
    Email,      \* addresses
    Request,    \* HTTP requests; each may arrive once
    NoEmail,    \* the address of a request that knows none
    NoToken     \* NULL

ASSUME SubscribersAssumption ==
    /\ NoEmail \notin Email
    /\ NoToken \notin Request

VARIABLES
    rows,       \* marketing_subscribers, by address
    lapsed,     \* tokens whose tokenExpiresAt has passed
    pc,         \* where each request's handler is suspended
    call,       \* what each request asks for
    seen,       \* the address of the row it read
    answer,     \* what it answers
    mailed,     \* tokens whose confirmation mail was handed to Resend
    announced   \* what Resend and Loops were told of an address

vars == <<rows, lapsed, pc, call, seen, answer, mailed, announced>>

Token == Request \cup {NoToken}

Row == [status : {"none", "pending", "confirmed", "unsubscribed"},
        confirm : Token,
        leave   : Token]

NoRow == [status |-> "none", confirm |-> NoToken, leave |-> NoToken]

Location == {"idle", "upsert", "recall", "mail", "find", "confirm", "tell",
             "lookUp", "leave", "bye", "done", "failed"}

Call == [op    : {"none", "subscribe", "confirm", "unsubscribe"},
         email : Email \cup {NoEmail},
         token : Token]

NoCall == [op |-> "none", email |-> NoEmail, token |-> NoToken]

Init ==
    /\ rows = [e \in Email |-> NoRow]
    /\ lapsed = {}
    /\ pc = [r \in Request |-> "idle"]
    /\ call = [r \in Request |-> NoCall]
    /\ seen = [r \in Request |-> NoEmail]
    /\ answer = [r \in Request |-> "none"]
    /\ mailed = {}
    /\ announced = {}

-----------------------------------------------------------------------------
Goto(r, loc) == pc' = [pc EXCEPT ![r] = loc]

Answer(r, what) ==
    /\ Goto(r, "done")
    /\ answer' = [answer EXCEPT ![r] = what]

Arrive(r, c, loc) ==
    /\ pc[r] = "idle"
    /\ call' = [call EXCEPT ![r] = c]
    /\ Goto(r, loc)
    /\ UNCHANGED <<rows, lapsed, seen, answer, mailed, announced>>

(* 24 hours after a token was drawn. *)
Lapse(t) ==
    /\ \E e \in Email : rows[e].confirm = t
    /\ lapsed' = lapsed \cup {t}
    /\ UNCHANGED <<rows, pc, call, seen, answer, mailed, announced>>

-----------------------------------------------------------------------------
(* POST /: createSubscriber. *)

Subscribe(r, e) ==
    Arrive(r, [op |-> "subscribe", email |-> e, token |-> NoToken], "upsert")

Pending(row, t) == [row EXCEPT !.status = "pending", !.confirm = t]

(* Faulty: the conflict clause has no WHERE. *)
UpsertAlways(r) ==
    LET e == call[r].email IN
    /\ pc[r] = "upsert"
    /\ rows' = [rows EXCEPT ![e] = Pending(@, r)]
    /\ Goto(r, "recall")
    /\ UNCHANGED <<lapsed, call, seen, answer, mailed, announced>>

(* INSERT ... ON CONFLICT (email) DO UPDATE ... WHERE status = 'pending'. *)
Upsert(r) ==
    LET e == call[r].email IN
    /\ pc[r] = "upsert"
    /\ rows' = [rows EXCEPT ![e] = IF @.status \in {"none", "pending"} THEN Pending(@, r) ELSE @]
    /\ Goto(r, "recall")
    /\ UNCHANGED <<lapsed, call, seen, answer, mailed, announced>>

(* Faulty: an address that has a mail is not sent another. *)
RecallOnce(r) ==
    LET e == call[r].email IN
    /\ pc[r] = "recall"
    /\ UNCHANGED <<rows, lapsed, call, seen, mailed, announced>>
    /\ IF rows[e].confirm = r /\ ~ \E t \in mailed : call[t].email = e
         THEN Goto(r, "mail") /\ UNCHANGED answer
         ELSE Answer(r, "ok")

(* Did this request set the token that is there now? *)
Recall(r) ==
    LET e == call[r].email IN
    /\ pc[r] = "recall"
    /\ UNCHANGED <<rows, lapsed, call, seen, mailed, announced>>
    /\ \/ /\ rows[e].confirm = r
          /\ Goto(r, "mail")
          /\ UNCHANGED answer
       \/ /\ rows[e].confirm # r
          /\ Answer(r, "ok")

(* An error is caught and logged: a mail that is lost is one nobody follows. *)
SendMail(r) ==
    /\ pc[r] = "mail"
    /\ mailed' = mailed \cup {r}
    /\ Answer(r, "ok")
    /\ UNCHANGED <<rows, lapsed, call, seen, announced>>

-----------------------------------------------------------------------------
(* GET /confirm: confirmSubscriber, by somebody who was mailed the token. *)

Confirm(r, t) ==
    /\ t \in mailed
    /\ Arrive(r, [op |-> "confirm", email |-> NoEmail, token |-> t], "find")

ConfirmFind(r) ==
    LET t == call[r].token
        found == {e \in Email : rows[e].confirm = t}
    IN
    /\ pc[r] = "find"
    /\ UNCHANGED <<rows, lapsed, call, mailed, announced>>
    /\ \/ /\ found = {} \/ t \in lapsed
          /\ Answer(r, "expired")
          /\ UNCHANGED seen
       \/ /\ t \notin lapsed
          /\ \E e \in found :
                /\ seen' = [seen EXCEPT ![r] = e]
                /\ IF rows[e].status = "confirmed"
                     THEN Answer(r, "confirmed")
                     ELSE Goto(r, "confirm") /\ UNCHANGED answer

(* Faulty: the token stays after it was used. *)
ConfirmedKeepsToken(row, r) == [row EXCEPT !.status = "confirmed", !.leave = r]

Confirmed(row, r) ==
    [row EXCEPT !.status = "confirmed", !.confirm = NoToken, !.leave = r]

(* Faulty: the row is updated by its address. *)
ConfirmByEmail(r) ==
    /\ pc[r] = "confirm"
    /\ rows' = [rows EXCEPT ![seen[r]] = Confirmed(@, r)]
    /\ Goto(r, "tell")
    /\ UNCHANGED <<lapsed, call, seen, answer, mailed, announced>>

(* UPDATE ... WHERE confirmation_token = token, which may find no row. *)
ConfirmUpdate(r) ==
    /\ pc[r] = "confirm"
    /\ rows' = [e \in Email |-> IF rows[e].confirm = call[r].token
                                  THEN Confirmed(rows[e], r) ELSE rows[e]]
    /\ Goto(r, "tell")
    /\ UNCHANGED <<lapsed, call, seen, answer, mailed, announced>>

ConfirmTell(r) ==
    /\ pc[r] = "tell"
    /\ announced' = announced \cup {<<seen[r], "joined">>}
    /\ Answer(r, "confirmed")
    /\ UNCHANGED <<rows, lapsed, call, seen, mailed>>

-----------------------------------------------------------------------------
(* GET /unsubscribe: unsubscribeByToken, with the link every mailing ends   *)
(* on, or with a token that is not an unsubscribe token.                    *)

Unsubscribe(r, t) ==
    /\ t \in mailed \/ \E e \in Email : rows[e].leave = t
    /\ Arrive(r, [op |-> "unsubscribe", email |-> NoEmail, token |-> t], "lookUp")

LeaveFind(r) ==
    /\ pc[r] = "lookUp"
    /\ UNCHANGED <<rows, lapsed, call, mailed, announced>>
    /\ \/ /\ \A e \in Email : rows[e].leave # call[r].token
          /\ Answer(r, "ok")
          /\ UNCHANGED seen
       \/ \E e \in Email :
             /\ rows[e].leave = call[r].token
             /\ seen' = [seen EXCEPT ![r] = e]
             /\ Goto(r, "leave")
             /\ UNCHANGED answer

LeaveUpdate(r) ==
    /\ pc[r] = "leave"
    /\ rows' = [e \in Email |-> IF rows[e].leave = call[r].token
                                  THEN [rows[e] EXCEPT !.status = "unsubscribed"] ELSE rows[e]]
    /\ Goto(r, "bye")
    /\ UNCHANGED <<lapsed, call, seen, answer, mailed, announced>>

LeaveTell(r) ==
    /\ pc[r] = "bye"
    /\ announced' = announced \cup {<<seen[r], "left">>}
    /\ Answer(r, "ok")
    /\ UNCHANGED <<rows, lapsed, call, seen, mailed>>

-----------------------------------------------------------------------------
(* A statement fails or the process ends; what was written stays. *)
Fail(r) ==
    /\ pc[r] \notin {"idle", "done", "failed"}
    /\ Goto(r, "failed")
    /\ UNCHANGED <<rows, lapsed, call, seen, answer, mailed, announced>>

Next ==
    \/ \E r \in Request, e \in Email : Subscribe(r, e)
    \/ \E r, t \in Request : Confirm(r, t) \/ Unsubscribe(r, t)
    \/ \E t \in Request : Lapse(t)
    \/ \E r \in Request :
          \/ Upsert(r) \/ Recall(r) \/ SendMail(r)
          \/ ConfirmFind(r) \/ ConfirmUpdate(r) \/ ConfirmTell(r)
          \/ LeaveFind(r) \/ LeaveUpdate(r) \/ LeaveTell(r)
          \/ Fail(r)

Spec == Init /\ [][Next]_vars

-----------------------------------------------------------------------------
(* Types. *)
TypeOK ==
    /\ rows \in [Email -> Row]
    /\ lapsed \in SUBSET Request
    /\ pc \in [Request -> Location]
    /\ call \in [Request -> Call]
    /\ seen \in [Request -> Email \cup {NoEmail}]
    /\ answer \in [Request -> {"none", "ok", "confirmed", "expired"}]
    /\ mailed \in SUBSET Request
    /\ announced \in SUBSET (Email \X {"joined", "left"})

(* schema.ts: a confirmation token is there as long as the subscriber is    *)
(* pending and NULL once it is confirmed or unsubscribed; the unsubscribe   *)
(* token is there from confirmation on.  No overlap of subscribing,         *)
(* confirming and unsubscribing leaves a row with both or with neither.     *)
OneLinkPerStatus ==
    \A e \in Email :
        /\ rows[e].status = "pending" <=> rows[e].confirm # NoToken
        /\ rows[e].status \in {"confirmed", "unsubscribed"} <=> rows[e].leave # NoToken

(* createSubscriber's read-back: however many requests subscribe an address *)
(* at once and replace each other's token, the one that is left in the row  *)
(* has been handed to Resend for that address, or is about to be, unless    *)
(* its own handler failed.                                                  *)
ValidLinkMailed ==
    \A e \in Email : \A t \in Request :
        rows[e].confirm = t => t \in mailed \/ pc[t] \in {"recall", "mail", "failed"}

(* schema.ts, "persists permanently": the link in mailings already sent    *)
(* works forever; a late confirm does not issue another.                    *)
LeaveLinkPermanent ==
    [][\A e \in Email : rows[e].leave # NoToken => rows'[e].leave = rows[e].leave]_rows

(* The opt-in promise, with the state it sees here. *)
Standing(row) ==
    CASE row.status = "none"      -> "stranger"
      [] row.status = "pending"   -> "invited"
      [] row.status = "confirmed" -> "member"
      [] OTHER                    -> "left"

Promise == INSTANCE OptIn WITH
    Link     <- Request,
    standing <- [e \in Email |-> Standing(rows[e])],
    sent     <- [e \in Email |-> {t \in mailed : call[t].email = e}],
    told     <- announced

(* Nobody joins without a mailed link, nobody is taken back a step, nobody  *)
(* who has left returns, whatever requests are still under way.             *)
KeepsOptIn == Promise!Spec

=============================================================================
