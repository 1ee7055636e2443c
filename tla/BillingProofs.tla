---------------------------- MODULE BillingProofs -----------------------------
(***************************************************************************)
(* What the tier means and whose a Stripe customer is, for any number of   *)
(* accounts, checkouts, handlers and failures.                             *)
(***************************************************************************)
EXTENDS Billing, TLAPS

Paid(c) == \E s \in Session : checkout[s].status = "complete" /\ checkout[s].customer = c

Ended(c) == \E e \in sent : e.kind \in Ending /\ checkout[e.of].customer = c

(* c is, or is about to be, the customer of u. *)
Claims(u, c) ==
    \/ account[u].customer = c
    \/ keyed[u] = c
    \/ \E h \in Handler : pc[h] \in {"save", "session"} /\ job[h].user = u /\ job[h].held = c

(* No customer is claimed for two accounts. *)
Apart ==
    \A u, v \in User, c \in Customer : Claims(u, c) /\ Claims(v, c) => u = v

GoneHasNothing ==
    \A u \in User : ~ account[u].exists => account[u].customer = None /\ account[u].tier = "free"

(* Subscriptions come of paid checkouts, checkouts of customers, events of both. *)
StripeInv ==
    /\ \A s \in Session : /\ checkout[s].status # "none" => checkout[s].customer # None
                          /\ checkout[s].plan # "none" => checkout[s].status = "complete"
    /\ \A e \in sent : checkout[e.of].status = "complete"

(* What a handler knows at each await.  One that is to save a customer holds
   the one under the idempotency key, and so does any other for this account. *)
HandlerInv(h) ==
    LET u == job[h].user
        c == job[h].held
    IN
    /\ pc[h] \in {"find", "customer", "save", "session", "row"} => u # None
    /\ pc[h] = "customer" => account[u].customer \in {None, keyed[u]}
    /\ pc[h] = "save" => keyed[u] = c /\ account[u].customer \in {None, c}
    /\ pc[h] \in {"save", "session"} => c # None
    /\ pc[h] = "on" => c # None /\ Paid(c)
    /\ pc[h] = "off" => c # None /\ Ended(c)
    /\ pc[h] \in {"row", "retrieve"} => job[h].session # None

BillingInv ==
    /\ TypeOK
    /\ Apart
    /\ GoneHasNothing
    /\ StripeInv
    /\ \A h \in Handler : HandlerInv(h)
    /\ ProMeansPaid

-----------------------------------------------------------------------------
LEMMA InvInit == Init => BillingInv
  <1> SUFFICES ASSUME Init  PROVE BillingInv
    OBVIOUS
  <1>1. TypeOK
    BY BillingAssumption DEF Init, TypeOK, Account, Maybe, Checkout, Location, Job, NoJob
  <1>2. Apart /\ GoneHasNothing /\ StripeInv /\ ProMeansPaid
    BY BillingAssumption DEF Init, Apart, Claims, GoneHasNothing, StripeInv, ProMeansPaid
  <1>3. ASSUME NEW h \in Handler  PROVE HandlerInv(h)
    BY DEF Init, HandlerInv
  <1> QED  BY <1>1, <1>2, <1>3 DEF BillingInv

(* What Stripe was paid stays paid, and what it reported stays reported. *)
StripeMoves ==
    /\ sent \subseteq sent'
    /\ \A s \in Session : checkout[s].status = "complete" =>
            checkout'[s].status = "complete" /\ checkout'[s].customer = checkout[s].customer

LEMMA EventOf == TypeOK => \A e \in sent : e.of \in Session
  BY DEF TypeOK, Event

LEMMA PaidStays ==
  ASSUME StripeMoves, NEW c, Paid(c)
  PROVE  Paid(c)'
  BY DEF StripeMoves, Paid

LEMMA EndedStays ==
  ASSUME TypeOK, StripeInv, StripeMoves, NEW c, Ended(c)
  PROVE  Ended(c)'
  <1>1. PICK e \in sent : e.kind \in Ending /\ checkout[e.of].customer = c
    BY DEF Ended
  <1>2. e \in sent' /\ checkout'[e.of].customer = c
    BY <1>1, EventOf DEF StripeMoves, StripeInv
  <1> QED  BY <1>1, <1>2 DEF Ended

(* A handler that is not at work keeps what it knows, if the key of its
   account is not replaced and a customer is only saved under that key. *)
LEMMA HandlerStays ==
  ASSUME BillingInv, StripeMoves, NEW g \in Handler, pc'[g] = pc[g], job'[g] = job[g],
         pc[g] \in {"customer", "save"} =>
            LET u == job[g].user IN
            /\ keyed'[u] = keyed[u] \/ keyed[u] = None
            /\ account'[u].customer \in {account[u].customer, None, keyed'[u]}
  PROVE  HandlerInv(g)'
  <1>1. HandlerInv(g) /\ TypeOK /\ StripeInv
    BY DEF BillingInv
  <1>2. pc[g] = "on" => Paid(job[g].held)'
    BY <1>1, PaidStays DEF HandlerInv
  <1>3. pc[g] = "off" => Ended(job[g].held)'
    BY <1>1, EndedStays DEF HandlerInv
  <1> QED  BY <1>1, <1>2, <1>3 DEF HandlerInv

(* A step of one handler that changes nothing but its own place and job. *)
LEMMA LocalStep ==
  ASSUME BillingInv, TypeOK', NEW h \in Handler, UNCHANGED <<account, keyed, checkout, sent>>,
         \A g \in Handler \ {h} : pc'[g] = pc[g] /\ job'[g] = job[g],
         HandlerInv(h)',
         pc'[h] \in {"save", "session"} => Claims(job'[h].user, job'[h].held)
  PROVE  BillingInv'
  <1>1. StripeMoves
    BY DEF StripeMoves
  <1>2. \A u \in User, c \in Customer : Claims(u, c)' => Claims(u, c)
    BY DEF Claims
  <1>3. Apart'
    BY <1>2 DEF Apart, BillingInv
  <1>4. ASSUME NEW g \in Handler  PROVE HandlerInv(g)'
    <2>1. CASE g = h
      BY <2>1
    <2>2. CASE g # h
      BY <2>2, <1>1, HandlerStays
    <2> QED  BY <2>1, <2>2
  <1>5. GoneHasNothing' /\ StripeInv' /\ ProMeansPaid'
    BY DEF BillingInv, GoneHasNothing, StripeInv, ProMeansPaid
  <1> QED  BY <1>3, <1>4, <1>5 DEF BillingInv

(* A handler that answers. *)
LEMMA FinishStep ==
  ASSUME BillingInv, NEW h \in Handler, Finish(h), UNCHANGED <<account, keyed, checkout, sent>>,
         unanswered' \subseteq unanswered, faults' \in 0 .. MaxFaults
  PROVE  BillingInv'
  <1>1. pc'[h] = "idle" /\ \A g \in Handler \ {h} : pc'[g] = pc[g] /\ job'[g] = job[g]
    BY DEF Finish, Goto, BillingInv, TypeOK
  <1>2. TypeOK'
    BY DEF Finish, Goto, BillingInv, TypeOK, NoJob, Job, Maybe, Location
  <1>3. HandlerInv(h)'
    BY <1>1 DEF HandlerInv
  <1> QED  BY <1>1, <1>2, <1>3, LocalStep

LEMMA HoldFacts ==
  ASSUME TypeOK, NEW h \in Handler, NEW c \in Maybe(Customer), NEW loc \in Location, Hold(h, c, loc)
  PROVE  /\ pc' \in [Handler -> Location] /\ job' \in [Handler -> Job]
         /\ pc'[h] = loc /\ job'[h].held = c /\ job'[h].user = job[h].user
         /\ job'[h].session = job[h].session
         /\ \A g \in Handler \ {h} : pc'[g] = pc[g] /\ job'[g] = job[g]
  <1>1. job[h] \in Job /\ [job[h] EXCEPT !.held = c] \in Job
    BY DEF TypeOK, Job
  <1>2. job' = [job EXCEPT ![h] = [job[h] EXCEPT !.held = c]] /\ pc' = [pc EXCEPT ![h] = loc]
    BY DEF Hold, Goto, TypeOK
  <1> QED  BY <1>1, <1>2 DEF TypeOK, Job

-----------------------------------------------------------------------------
(* The steps of handlers that read, or only begin. *)

LEMMA CheckoutsStep ==
  ASSUME BillingInv, NEW h \in Handler, NEW u \in User, Checkouts(h, u)
  PROVE  BillingInv'
  <1>1. TypeOK'
    BY DEF Checkouts, Start, Goto, BillingInv, TypeOK, NoJob, Job, Maybe, Location, stripe
  <1>2. /\ UNCHANGED <<account, keyed, checkout, sent>> /\ pc'[h] = "find" /\ job'[h].user = u
        /\ \A g \in Handler \ {h} : pc'[g] = pc[g] /\ job'[g] = job[g]
    BY DEF Checkouts, Start, Goto, BillingInv, TypeOK, NoJob, stripe
  <1>3. HandlerInv(h)'
    BY <1>2, BillingAssumption DEF HandlerInv
  <1> QED  BY <1>1, <1>2, <1>3, LocalStep

LEMMA FindCustomerStep ==
  ASSUME BillingInv, NEW h \in Handler, FindCustomer(h)
  PROVE  BillingInv'
  <1> DEFINE u == job[h].user
  <1>1. pc[h] = "find" /\ u \in User /\ UNCHANGED <<account, keyed, checkout, sent>>
    BY DEF FindCustomer, BillingInv, HandlerInv, TypeOK, Job, Maybe, stripe
  <1>2. \/ account[u].customer # None /\ Hold(h, account[u].customer, "session")
        \/ account[u].customer = None /\ Hold(h, None, "customer")
    BY <1>1 DEF FindCustomer, BillingInv, GoneHasNothing
  <1>3. account[u].customer \in Maybe(Customer) /\ None \in Maybe(Customer)
    BY <1>1 DEF BillingInv, TypeOK, Account, Maybe
  <1>4. /\ TypeOK'
        /\ job'[h].user = u
        /\ \/ pc'[h] = "session" /\ job'[h].held = account[u].customer /\ account[u].customer # None
           \/ pc'[h] = "customer" /\ account[u].customer = None
        /\ \A g \in Handler \ {h} : pc'[g] = pc[g] /\ job'[g] = job[g]
    <2>1. "session" \in Location /\ "customer" \in Location
      BY DEF Location
    <2>2. unanswered' = unanswered /\ faults' = faults
      BY DEF FindCustomer, stripe
    <2> QED  BY <1>1, <1>2, <1>3, <2>1, <2>2, HoldFacts DEF BillingInv, TypeOK
  <1>5. HandlerInv(h)'
    BY <1>1, <1>4, BillingAssumption DEF HandlerInv
  <1>6. pc'[h] \in {"save", "session"} => Claims(job'[h].user, job'[h].held)
    BY <1>4 DEF Claims
  <1> QED  BY <1>1, <1>3, <1>4, <1>5, <1>6, LocalStep

LEMMA VerifiesStep ==
  ASSUME BillingInv, NEW h \in Handler, NEW u \in User, NEW s \in Session, Verifies(h, u, s)
  PROVE  BillingInv'
  <1>1. TypeOK'
    BY DEF Verifies, Start, Goto, BillingInv, TypeOK, NoJob, Job, Maybe, Location, stripe
  <1>2. /\ UNCHANGED <<account, keyed, checkout, sent>> /\ pc'[h] = "row"
        /\ job'[h].user = u /\ job'[h].session = s
        /\ \A g \in Handler \ {h} : pc'[g] = pc[g] /\ job'[g] = job[g]
    BY DEF Verifies, Start, Goto, BillingInv, TypeOK, NoJob, stripe
  <1>3. HandlerInv(h)'
    BY <1>2, BillingAssumption DEF HandlerInv
  <1> QED  BY <1>1, <1>2, <1>3, LocalStep

LEMMA ReadRowStep ==
  ASSUME BillingInv, NEW h \in Handler, ReadRow(h)
  PROVE  BillingInv'
  <1> DEFINE u == job[h].user
  <1>1. /\ u \in User /\ job[h].session # None
        /\ UNCHANGED <<account, keyed, checkout, sent, unanswered, faults>>
    BY DEF ReadRow, BillingInv, HandlerInv, TypeOK, Job, Maybe, stripe
  <1>2. CASE Finish(h)
    BY <1>1, <1>2, FinishStep DEF BillingInv, TypeOK
  <1>3. CASE Hold(h, account[u].customer, "retrieve")
    <2>1. account[u].customer \in Maybe(Customer) /\ "retrieve" \in Location
      BY <1>1 DEF BillingInv, TypeOK, Account, Maybe, Location
    <2>2. /\ TypeOK' /\ pc'[h] = "retrieve" /\ job'[h].session = job[h].session
          /\ \A g \in Handler \ {h} : pc'[g] = pc[g] /\ job'[g] = job[g]
      BY <1>1, <1>3, <2>1, HoldFacts DEF BillingInv, TypeOK
    <2>3. HandlerInv(h)'
      BY <1>1, <2>2 DEF HandlerInv
    <2> QED  BY <1>1, <2>2, <2>3, LocalStep
  <1> QED  BY <1>2, <1>3 DEF ReadRow

LEMMA RetrieveStep ==
  ASSUME BillingInv, NEW h \in Handler, RetrieveSession(h)
  PROVE  BillingInv'
  <1> DEFINE s == job[h].session
  <1>1. /\ pc[h] = "retrieve" /\ s \in Session
        /\ UNCHANGED <<account, keyed, checkout, sent, unanswered, faults>>
    BY DEF RetrieveSession, BillingInv, HandlerInv, TypeOK, Job, Maybe, stripe
  <1>2. CASE Finish(h)
    BY <1>1, <1>2, FinishStep DEF BillingInv, TypeOK
  <1>3. CASE checkout[s].status = "complete" /\ checkout[s].customer = job[h].held
             /\ Goto(h, "on") /\ UNCHANGED job
    <2>1. TypeOK' /\ pc'[h] = "on" /\ \A g \in Handler \ {h} : pc'[g] = pc[g] /\ job'[g] = job[g]
      BY <1>1, <1>3 DEF Goto, BillingInv, TypeOK, Location
    <2>2. job[h].held # None /\ Paid(job[h].held)
      BY <1>1, <1>3 DEF Paid, BillingInv, StripeInv
    <2>3. HandlerInv(h)'
      BY <1>1, <1>3, <2>1, <2>2 DEF HandlerInv, Paid
    <2> QED  BY <1>1, <2>1, <2>3, LocalStep
  <1> QED  BY <1>2, <1>3 DEF RetrieveSession

LEMMA DeliverStep ==
  ASSUME BillingInv, NEW h \in Handler, NEW e \in sent, Deliver(h, e)
  PROVE  BillingInv'
  <1> DEFINE c == checkout[e.of].customer
             j == [NoJob EXCEPT !.held = c, !.event = e]
  <1>1. /\ e \in Event /\ e.of \in Session /\ checkout[e.of].status = "complete"
        /\ c # None /\ c \in Maybe(Customer)
    BY DEF BillingInv, StripeInv, TypeOK, Event, Checkout
  <1>2. UNCHANGED <<account, keyed, checkout, sent, unanswered, faults>>
    BY DEF Deliver, stripe
  <1>3. \/ Start(h, j, "on") /\ Paid(c)
        \/ Start(h, j, "off") /\ Ended(c)
        \/ Start(h, j, "sync")
    BY <1>1 DEF Deliver, Paid, Ended, Deactivating, Ending
  <1>4. j \in Job /\ j.held = c
    BY <1>1 DEF Job, NoJob, Maybe
  <1>5. /\ TypeOK' /\ job'[h] = j
        /\ \/ pc'[h] = "on" /\ Paid(c)
           \/ pc'[h] = "off" /\ Ended(c)
           \/ pc'[h] = "sync"
        /\ \A g \in Handler \ {h} : pc'[g] = pc[g] /\ job'[g] = job[g]
    <2> HIDE DEF j
    <2> QED  BY <1>2, <1>3, <1>4 DEF Start, Goto, BillingInv, TypeOK, Location
  <1>6. HandlerInv(h)'
    <2> HIDE DEF j
    <2>1. Paid(c)' = Paid(c) /\ Ended(c)' = Ended(c)
      BY <1>2 DEF Paid, Ended
    <2> QED  BY <1>1, <1>2, <1>4, <1>5, <2>1 DEF HandlerInv, Paid, Ended
  <1> QED  BY <1>2, <1>5, <1>6, LocalStep

LEMMA EndSteps ==
  ASSUME BillingInv, NEW h \in Handler, Sync(h) \/ Fail(h) \/ OutOfIds(h)
  PROVE  BillingInv'
  <1>1. Finish(h) /\ UNCHANGED <<account, keyed, checkout, sent>> /\ unanswered' \subseteq unanswered
    BY DEF Sync, Fail, OutOfIds, stripe
  <1>2. faults' \in 0 .. MaxFaults
    BY BillingAssumption DEF Sync, Fail, OutOfIds, BillingInv, TypeOK
  <1> QED  BY <1>1, <1>2, FinishStep

-----------------------------------------------------------------------------
(* The steps that write. *)

LEMMA ApartStays ==
  ASSUME Apart, \A u \in User, c \in Customer : Claims(u, c)' => Claims(u, c)
  PROVE  Apart'
  BY DEF Apart

LEMMA CreateCustomerStep ==
  ASSUME BillingInv, NEW h \in Handler, CreateCustomer(h)
  PROVE  BillingInv'
  <1> DEFINE u == job[h].user
  <1>1. PICK c \in Customer : /\ keyed[u] = c \/ (keyed[u] = None /\ Fresh(c))
                             /\ keyed' = [keyed EXCEPT ![u] = c] /\ Hold(h, c, "save")
    BY DEF CreateCustomer
  <1>2. /\ pc[h] = "customer" /\ u \in User /\ account[u].customer \in {None, keyed[u]}
        /\ UNCHANGED <<account, checkout, sent, unanswered, faults>>
    BY DEF CreateCustomer, BillingInv, HandlerInv, TypeOK, Job, Maybe
  <1>3. c # None /\ c \in Maybe(Customer) /\ "save" \in Location
    BY BillingAssumption DEF Maybe, Location
  <1>4. /\ TypeOK' /\ keyed'[u] = c
        /\ pc'[h] = "save" /\ job'[h].held = c /\ job'[h].user = u
        /\ \A g \in Handler \ {h} : pc'[g] = pc[g] /\ job'[g] = job[g]
    <2>1. keyed' \in [User -> Maybe(Customer)] /\ keyed'[u] = c
      BY <1>1, <1>2, <1>3 DEF BillingInv, TypeOK
    <2> QED  BY <1>1, <1>2, <1>3, <2>1, HoldFacts DEF BillingInv, TypeOK
  <1>5. StripeMoves
    BY <1>2 DEF StripeMoves
  <1>6. Apart'
    <2>1. \A v \in User, d \in Customer : Claims(v, d)' => Claims(v, d) \/ (v = u /\ d = c)
      BY <1>1, <1>2, <1>4 DEF Claims, BillingInv, TypeOK
    <2>2. \A v \in User : Claims(v, c) => v = u
      <3>1. CASE keyed[u] = c
        BY <3>1, <1>2 DEF BillingInv, Apart, Claims
      <3>2. CASE Fresh(c)
        BY <3>2 DEF Fresh, Claims
      <3> QED  BY <1>1, <3>1, <3>2
    <2> QED  BY <2>1, <2>2 DEF Apart, BillingInv
  <1>7. HandlerInv(h)'
    BY <1>1, <1>2, <1>3, <1>4, BillingAssumption DEF HandlerInv, Fresh, BillingInv, TypeOK, Account, Maybe
  <1>8. ASSUME NEW g \in Handler, g # h  PROVE HandlerInv(g)'
    <2>1. keyed'[job[g].user] = keyed[job[g].user] \/ keyed[job[g].user] = None
      BY <1>1, <1>2 DEF BillingInv, TypeOK
    <2> QED  BY <1>2, <1>4, <1>5, <1>8, <2>1, HandlerStays
  <1>9. GoneHasNothing' /\ StripeInv' /\ ProMeansPaid'
    BY <1>2 DEF BillingInv, GoneHasNothing, StripeInv, ProMeansPaid
  <1> QED  BY <1>4, <1>6, <1>7, <1>8, <1>9 DEF BillingInv

(* Saving replaces no customer, because all that overlap hold the same one. *)
LEMMA SaveFacts ==
  ASSUME BillingInv, NEW h \in Handler, SaveCustomer(h)
  PROVE  LET u == job[h].user
             c == job[h].held
         IN /\ u \in User /\ c \in Customer /\ keyed[u] = c /\ account[u].customer \in {None, c}
            /\ account' \in [User -> Account]
            /\ \A v \in User \ {u} : account'[v] = account[v]
            /\ account'[u].exists = account[u].exists /\ account'[u].tier = account[u].tier
            /\ account[u].exists => account'[u].customer = c
            /\ ~ account[u].exists => account'[u].customer = account[u].customer
            /\ account[u].customer # None => account'[u] = account[u]
  <1> DEFINE u == job[h].user
             c == job[h].held
  <1>1. pc[h] = "save" /\ u \in User /\ c \in Customer /\ keyed[u] = c /\ account[u].customer \in {None, c}
    BY DEF SaveCustomer, BillingInv, HandlerInv, TypeOK, Job, Maybe
  <1>2. account[u] \in Account
    BY <1>1 DEF BillingInv, TypeOK
  <1>3. account' = [account EXCEPT ![u] = [account[u] EXCEPT !.customer =
                        IF account[u].exists THEN c ELSE account[u].customer]]
    BY DEF SaveCustomer, BillingInv, TypeOK
  <1>4. [account[u] EXCEPT !.customer = IF account[u].exists THEN c ELSE account[u].customer] \in Account
    BY <1>1, <1>2 DEF Account, Maybe
  <1>5. account' \in [User -> Account] /\ \A v \in User \ {u} : account'[v] = account[v]
    BY <1>1, <1>3, <1>4 DEF BillingInv, TypeOK
  <1>6. /\ account'[u].exists = account[u].exists /\ account'[u].tier = account[u].tier
        /\ account[u].exists => account'[u].customer = c
        /\ ~ account[u].exists => account'[u].customer = account[u].customer
    BY <1>1, <1>2, <1>3 DEF BillingInv, TypeOK, Account
  <1>7. account[u].customer # None => account'[u] = account[u]
    BY <1>1, <1>2, <1>5, <1>6 DEF Account
  <1> QED  BY <1>1, <1>5, <1>6, <1>7

LEMMA SaveCustomerStep ==
  ASSUME BillingInv, NEW h \in Handler, SaveCustomer(h)
  PROVE  BillingInv'
  <1> DEFINE u == job[h].user
             c == job[h].held
  <1>1. /\ u \in User /\ c \in Customer /\ keyed[u] = c /\ account[u].customer \in {None, c}
        /\ account' \in [User -> Account]
        /\ \A v \in User \ {u} : account'[v] = account[v]
        /\ account'[u].exists = account[u].exists /\ account'[u].tier = account[u].tier
        /\ account'[u].customer \in {account[u].customer, c}
        /\ account[u].customer # None => account'[u] = account[u]
        /\ ~ account[u].exists => account'[u].customer = account[u].customer
    BY SaveFacts
  <1>2. pc[h] = "save" /\ pc' = [pc EXCEPT ![h] = "session"] /\ c # None
        /\ UNCHANGED <<job, keyed, checkout, sent, unanswered, faults>>
    BY BillingAssumption, <1>1 DEF SaveCustomer, Goto, stripe
  <1>3. TypeOK'
    BY <1>1, <1>2 DEF BillingInv, TypeOK, Location
  <1>4. StripeMoves
    BY <1>2 DEF StripeMoves
  <1>5. Apart'
    <2>1. ASSUME NEW v \in User, NEW d \in Customer, Claims(v, d)'  PROVE Claims(v, d)
      BY <2>1, <1>1, <1>2 DEF Claims, BillingInv, TypeOK
    <2> QED  BY <2>1, ApartStays DEF BillingInv
  <1>6. HandlerInv(h)'
    BY <1>1, <1>2, BillingAssumption DEF HandlerInv, BillingInv, TypeOK
  <1>7. ASSUME NEW g \in Handler, g # h  PROVE HandlerInv(g)'
    <2>1. pc[g] \in {"customer", "save"} => job[g].user \in User
      BY DEF BillingInv, HandlerInv, TypeOK, Job, Maybe
    <2> QED  BY <1>1, <1>2, <1>4, <1>7, <2>1, HandlerStays DEF BillingInv, TypeOK
  <1>8. GoneHasNothing' /\ StripeInv'
    BY <1>1, <1>2 DEF BillingInv, GoneHasNothing, StripeInv
  <1>9. ASSUME NEW v \in User, account'[v].tier = "pro"
        PROVE  \E s \in Session : checkout[s].status = "complete" /\ checkout[s].customer = account'[v].customer
    <2>1. account[v].tier = "pro"
      BY <1>9, <1>1
    <2>2. PICK s \in Session : checkout[s].status = "complete" /\ checkout[s].customer = account[v].customer
      BY <2>1 DEF BillingInv, ProMeansPaid
    <2>3. account[v].customer # None
      BY <2>2 DEF BillingInv, StripeInv
    <2>4. account'[v] = account[v]
      BY <2>3, <1>1
    <2> QED  BY <2>2, <2>4
  <1>10. ProMeansPaid'
    BY <1>2, <1>9 DEF ProMeansPaid
  <1> QED  BY <1>3, <1>5, <1>6, <1>7, <1>8, <1>10 DEF BillingInv

(* What Stripe does to its sessions while no handler's place changes. *)
LEMMA StripeStep ==
  ASSUME BillingInv, TypeOK', StripeInv', StripeMoves, UNCHANGED <<account, keyed>>,
         \A g \in Handler : (pc'[g] = pc[g] /\ job'[g] = job[g]) \/ pc'[g] = "idle"
  PROVE  BillingInv'
  <1>1. Apart'
    <2>1. \A u \in User, c \in Customer : Claims(u, c)' => Claims(u, c)
      BY DEF Claims
    <2> QED  BY <2>1, ApartStays DEF BillingInv
  <1>2. ASSUME NEW g \in Handler  PROVE HandlerInv(g)'
    <2>1. CASE pc'[g] = "idle"
      BY <2>1 DEF HandlerInv
    <2>2. CASE pc'[g] = pc[g] /\ job'[g] = job[g]
      BY <2>2, HandlerStays
    <2> QED  BY <2>1, <2>2
  <1>3. GoneHasNothing'
    BY DEF BillingInv, GoneHasNothing
  <1>4. ProMeansPaid'
    BY DEF BillingInv, ProMeansPaid, StripeMoves
  <1> QED  BY <1>1, <1>2, <1>3, <1>4 DEF BillingInv

LEMMA OpenSessionStep ==
  ASSUME BillingInv, NEW h \in Handler, OpenSession(h)
  PROVE  BillingInv'
  <1>1. PICK s \in Session :
            /\ checkout[s].status = "none"
            /\ checkout' = [checkout EXCEPT ![s].customer = job[h].held, ![s].status = "open"]
    BY DEF OpenSession
  <1>2. /\ Finish(h) /\ UNCHANGED <<account, keyed, sent, unanswered, faults>>
        /\ job[h].held \in Customer /\ job[h].held # None
    BY DEF OpenSession, BillingInv, HandlerInv, TypeOK, Job, Maybe
  <1>3. checkout[s] \in Checkout
    BY DEF BillingInv, TypeOK
  <1>4. /\ checkout' \in [Session -> Checkout]
        /\ checkout'[s].customer = job[h].held /\ checkout'[s].status = "open"
        /\ checkout'[s].plan = checkout[s].plan
        /\ \A z \in Session \ {s} : checkout'[z] = checkout[z]
    <2>1. checkout' = [checkout EXCEPT ![s] =
                          [checkout[s] EXCEPT !.customer = job[h].held, !.status = "open"]]
      BY <1>1 DEF BillingInv, TypeOK
    <2>2. [checkout[s] EXCEPT !.customer = job[h].held, !.status = "open"] \in Checkout
      BY <1>2, <1>3 DEF Checkout, Maybe
    <2> QED  BY <2>1, <2>2, <1>3 DEF BillingInv, TypeOK, Checkout
  <1>5. TypeOK'
    BY <1>2, <1>4 DEF Finish, Goto, BillingInv, TypeOK, NoJob, Job, Maybe, Location
  <1>6. StripeMoves
    BY <1>1, <1>2, <1>4 DEF StripeMoves
  <1>7. StripeInv'
    BY <1>1, <1>2, <1>4, EventOf DEF StripeInv, BillingInv
  <1>8. \A g \in Handler : (pc'[g] = pc[g] /\ job'[g] = job[g]) \/ pc'[g] = "idle"
    BY <1>2 DEF Finish, Goto, BillingInv, TypeOK
  <1> QED  BY <1>2, <1>5, <1>6, <1>7, <1>8, StripeStep

(* SetTier, by one handler, for a customer it knows. *)
LEMMA SetTierFacts ==
  ASSUME TypeOK, NEW c, NEW t \in {"free", "pro"}, SetTier(c, t)
  PROVE  /\ account' \in [User -> Account]
         /\ \A u \in User :
                /\ account'[u].exists = account[u].exists /\ account'[u].customer = account[u].customer
                /\ \/ account'[u] = account[u]
                   \/ account[u].exists /\ account[u].customer = c /\ account'[u].tier = t
                /\ account[u].tier = t => account'[u] = account[u]
  <1>1. ASSUME NEW u \in User
        PROVE  /\ account[u] \in Account /\ [account[u] EXCEPT !.tier = t] \in Account
               /\ account[u].tier = t => [account[u] EXCEPT !.tier = t] = account[u]
    BY <1>1 DEF TypeOK, Account
  <1> QED  BY <1>1 DEF SetTier, TypeOK, Account

LEMMA TierStep ==
  ASSUME BillingInv, NEW h \in Handler, Activate(h) \/ Deactivate(h)
  PROVE  BillingInv'
  <1> DEFINE c == job[h].held
  <1>1. /\ pc' = [pc EXCEPT ![h] = "sync"]
        /\ UNCHANGED <<job, keyed, checkout, sent, unanswered, faults>>
        /\ \/ pc[h] = "on" /\ SetTier(c, "pro")
           \/ pc[h] = "off" /\ SetTier(c, "free")
    BY DEF Activate, Deactivate, Goto, stripe
  <1>2. /\ account' \in [User -> Account]
        /\ \A u \in User :
                /\ account'[u].exists = account[u].exists /\ account'[u].customer = account[u].customer
                /\ \/ account'[u] = account[u]
                   \/ /\ account[u].exists /\ account[u].customer = c
                      /\ account'[u].tier = "pro" => pc[h] = "on"
    BY <1>1, SetTierFacts DEF BillingInv
  <1>3. TypeOK'
    BY <1>1, <1>2 DEF BillingInv, TypeOK, Location
  <1>4. StripeMoves
    BY <1>1 DEF StripeMoves
  <1>5. Apart'
    <2>1. \A u \in User, d \in Customer : Claims(u, d)' => Claims(u, d)
      BY <1>1, <1>2 DEF Claims, BillingInv, TypeOK
    <2> QED  BY <2>1, ApartStays DEF BillingInv
  <1>6. ASSUME NEW g \in Handler  PROVE HandlerInv(g)'
    <2>1. CASE g = h
      BY <2>1, <1>1 DEF HandlerInv, BillingInv, TypeOK
    <2>2. CASE g # h
      <3>1. pc[g] \in {"customer", "save"} => job[g].user \in User
        BY DEF BillingInv, HandlerInv, TypeOK, Job, Maybe
      <3> QED  BY <2>2, <3>1, <1>1, <1>2, <1>4, HandlerStays DEF BillingInv, TypeOK
    <2> QED  BY <2>1, <2>2
  <1>7. GoneHasNothing' /\ StripeInv'
    BY <1>1, <1>2 DEF BillingInv, GoneHasNothing, StripeInv
  <1>8. ProMeansPaid'
    <2>1. pc[h] = "on" => Paid(c)
      BY DEF BillingInv, HandlerInv
    <2> QED  BY <2>1, <1>1, <1>2 DEF BillingInv, ProMeansPaid, Paid
  <1> QED  BY <1>3, <1>5, <1>6, <1>7, <1>8 DEF BillingInv

LEMMA PlanStep ==
  ASSUME BillingInv, NEW s \in Session, Plan(s)
  PROVE  BillingInv'
  <1>1. PICK plan \in {"active", "past_due", "unpaid", "canceled"},
             kinds \in SUBSET {"completed", "active", "past_due", "unpaid", "canceled", "deleted"} :
            /\ Send(s, kinds)
            /\ \/ /\ checkout[s].status = "open"
                  /\ checkout' = [checkout EXCEPT ![s].status = "complete", ![s].plan = plan]
               \/ /\ checkout[s].plan # "none"
                  /\ checkout' = [checkout EXCEPT ![s].plan = plan]
    BY DEF Plan, Pay, PaymentFails, Recovers, GivesUp, Cancel, Turns
  <1>2. UNCHANGED <<account, pc, job, keyed, faults>>
    BY DEF Plan, Pay, PaymentFails, Recovers, GivesUp, Cancel, Turns, server
  <1>3. checkout[s] \in Checkout
    BY DEF BillingInv, TypeOK
  <1>4. /\ checkout' \in [Session -> Checkout]
        /\ checkout'[s].customer = checkout[s].customer /\ checkout'[s].status = "complete"
        /\ checkout[s].status # "none"
        /\ \A z \in Session \ {s} : checkout'[z] = checkout[z]
    <2>1. checkout[s].plan # "none" => checkout[s].status = "complete"
      BY DEF BillingInv, StripeInv
    <2>2. /\ [checkout[s] EXCEPT !.status = "complete", !.plan = plan] \in Checkout
          /\ [checkout[s] EXCEPT !.plan = plan] \in Checkout
      BY <1>3 DEF Checkout
    <2>3. \/ checkout' = [checkout EXCEPT ![s] = [checkout[s] EXCEPT !.status = "complete", !.plan = plan]]
          \/ checkout[s].plan # "none" /\ checkout' = [checkout EXCEPT ![s] = [checkout[s] EXCEPT !.plan = plan]]
      BY <1>1 DEF BillingInv, TypeOK
    <2> QED  BY <2>1, <2>2, <2>3, <1>1, <1>3 DEF BillingInv, TypeOK, Checkout
  <1>5. /\ sent' \subseteq Event /\ unanswered' \subseteq sent' /\ sent \subseteq sent'
        /\ \A e \in sent' : e \in sent \/ e.of = s
    <2>1. [kind : kinds, of : {s}] \subseteq Event
      BY DEF Event
    <2> QED  BY <1>1, <2>1 DEF Send, BillingInv, TypeOK
  <1>6. TypeOK'
    BY <1>2, <1>4, <1>5 DEF BillingInv, TypeOK
  <1>7. StripeMoves
    BY <1>4, <1>5 DEF StripeMoves
  <1>8. StripeInv'
    BY <1>4, <1>5, EventOf DEF BillingInv, StripeInv
  <1> QED  BY <1>2, <1>6, <1>7, <1>8, StripeStep

LEMMA ForgetKeyStep ==
  ASSUME BillingInv, NEW u \in User, ForgetKey(u)
  PROVE  BillingInv'
  <1>1. /\ keyed' = [keyed EXCEPT ![u] = None] /\ \A h \in Handler : job[h].user # u
        /\ UNCHANGED <<account, pc, job, checkout, sent, unanswered, faults>>
    BY DEF ForgetKey, server
  <1>2. TypeOK'
    BY <1>1 DEF BillingInv, TypeOK, Maybe
  <1>3. Apart'
    <2>1. \A v \in User, c \in Customer : Claims(v, c)' => Claims(v, c)
      BY <1>1, BillingAssumption DEF Claims, BillingInv, TypeOK
    <2> QED  BY <2>1, ApartStays DEF BillingInv
  <1>4. ASSUME NEW g \in Handler  PROVE HandlerInv(g)'
    <2>1. StripeMoves
      BY <1>1 DEF StripeMoves
    <2>2. keyed'[job[g].user] = keyed[job[g].user]
      BY <1>1 DEF BillingInv, TypeOK
    <2> QED  BY <1>1, <2>1, <2>2, HandlerStays
  <1>5. GoneHasNothing' /\ StripeInv' /\ ProMeansPaid'
    BY <1>1 DEF BillingInv, GoneHasNothing, StripeInv, ProMeansPaid
  <1> QED  BY <1>2, <1>3, <1>4, <1>5 DEF BillingInv

LEMMA DeleteAccountStep ==
  ASSUME BillingInv, NEW u \in User, DeleteAccount(u)
  PROVE  BillingInv'
  <1>1. /\ account' = [account EXCEPT ![u] = [exists |-> FALSE, customer |-> None, tier |-> "free"]]
        /\ UNCHANGED <<pc, job, keyed, checkout, sent, unanswered, faults>>
    BY DEF DeleteAccount, stripe
  <1>2. TypeOK'
    BY <1>1 DEF BillingInv, TypeOK, Account, Maybe
  <1>3. Apart'
    <2>1. \A v \in User, c \in Customer : Claims(v, c)' => Claims(v, c)
      BY <1>1, BillingAssumption DEF Claims, BillingInv, TypeOK
    <2> QED  BY <2>1, ApartStays DEF BillingInv
  <1>4. ASSUME NEW g \in Handler  PROVE HandlerInv(g)'
    <2>1. StripeMoves
      BY <1>1 DEF StripeMoves
    <2>2. pc[g] \in {"customer", "save"} => job[g].user \in User
      BY DEF BillingInv, HandlerInv, TypeOK, Job, Maybe
    <2>3. pc[g] \in {"customer", "save"} =>
            account'[job[g].user].customer \in {account[job[g].user].customer, None}
      BY <1>1, <2>2 DEF BillingInv, TypeOK
    <2> QED  BY <1>1, <2>1, <2>3, HandlerStays
  <1>5. GoneHasNothing' /\ StripeInv' /\ ProMeansPaid'
    BY <1>1 DEF BillingInv, GoneHasNothing, StripeInv, ProMeansPaid, TypeOK
  <1> QED  BY <1>2, <1>3, <1>4, <1>5 DEF BillingInv

-----------------------------------------------------------------------------
LEMMA InvNext == BillingInv /\ [Next]_vars => BillingInv'
  <1> SUFFICES ASSUME BillingInv, [Next]_vars  PROVE BillingInv'
    OBVIOUS
  <1>1. ASSUME NEW h \in Handler, Proceed(h)  PROVE BillingInv'
    BY <1>1, FindCustomerStep, CreateCustomerStep, SaveCustomerStep, OpenSessionStep, ReadRowStep,
       RetrieveStep, TierStep, EndSteps DEF Proceed
  <1>2. ASSUME NEW h \in Handler, Fail(h)  PROVE BillingInv'
    BY <1>2, EndSteps
  <1>3. ASSUME NEW h \in Handler, NEW u \in User, Checkouts(h, u)  PROVE BillingInv'
    BY <1>3, CheckoutsStep
  <1>4. ASSUME NEW h \in Handler, NEW u \in User, NEW s \in Session, Verifies(h, u, s)  PROVE BillingInv'
    BY <1>4, VerifiesStep
  <1>5. ASSUME NEW h \in Handler, NEW e \in sent, Deliver(h, e)  PROVE BillingInv'
    BY <1>5, DeliverStep
  <1>6. ASSUME NEW s \in Session, Plan(s)  PROVE BillingInv'
    BY <1>6, PlanStep
  <1>7. ASSUME NEW u \in User, ForgetKey(u) \/ DeleteAccount(u)  PROVE BillingInv'
    BY <1>7, ForgetKeyStep, DeleteAccountStep
  <1>8. CASE UNCHANGED vars
    <2>1. UNCHANGED <<account, keyed, checkout, sent, unanswered, pc, job, faults>>
      BY <1>8 DEF vars
    <2>2. TypeOK' /\ StripeInv' /\ StripeMoves
      BY <2>1 DEF BillingInv, TypeOK, StripeInv, StripeMoves
    <2> QED  BY <2>1, <2>2, StripeStep
  <1> QED  BY <1>1, <1>2, <1>3, <1>4, <1>5, <1>6, <1>7, <1>8 DEF Next

(* What a step may do to one account that stays. *)
AccountStep(u) ==
    \/ account'[u] = account[u]
    \/ ~ account'[u].exists
    \/ account[u].customer = None /\ account[u].tier = "free"
    \/ /\ account'[u].customer = account[u].customer
       /\ account[u].tier = "pro" => account[u].customer # None /\ Ended(account[u].customer)

LEMMA AccountSteps ==
  ASSUME BillingInv, [Next]_vars, NEW u \in User
  PROVE  AccountStep(u)
  <1>1. account[u].customer = None => account[u].tier = "free"
    <2>1. account[u].tier \in {"free", "pro"}
      BY DEF BillingInv, TypeOK, Account
    <2>2. account[u].tier = "pro" => account[u].customer # None
      BY DEF BillingInv, ProMeansPaid, StripeInv
    <2> QED  BY <2>1, <2>2
  <1>2. ASSUME NEW h \in Handler, SaveCustomer(h)  PROVE AccountStep(u)
    <2>1. account'[u] = account[u] \/ account[u].customer = None
      BY <1>2, SaveFacts
    <2> QED  BY <1>1, <2>1 DEF AccountStep
  <1>3. ASSUME NEW h \in Handler, Activate(h)  PROVE AccountStep(u)
    <2>1. SetTier(job[h].held, "pro")
      BY <1>3 DEF Activate
    <2>2. account'[u] = account[u] \/ (account[u].tier # "pro" /\ account'[u].customer = account[u].customer)
      BY <2>1, SetTierFacts DEF BillingInv
    <2> QED  BY <2>2 DEF AccountStep
  <1>4. ASSUME NEW h \in Handler, Deactivate(h)  PROVE AccountStep(u)
    <2>1. SetTier(job[h].held, "free") /\ pc[h] = "off"
      BY <1>4 DEF Deactivate
    <2>2. job[h].held # None /\ Ended(job[h].held)
      BY <2>1 DEF BillingInv, HandlerInv
    <2>3. \/ account'[u] = account[u]
          \/ account'[u].customer = account[u].customer /\ account[u].customer = job[h].held
      BY <2>1, SetTierFacts DEF BillingInv
    <2> QED  BY <2>2, <2>3 DEF AccountStep
  <1>5. ASSUME NEW v \in User, DeleteAccount(v)  PROVE AccountStep(u)
    BY <1>5 DEF DeleteAccount, AccountStep, BillingInv, TypeOK
  <1>6. CASE UNCHANGED account
    BY <1>6 DEF AccountStep
  <1> QED
    BY <1>2, <1>3, <1>4, <1>5, <1>6 DEF Next, Proceed, FindCustomer, CreateCustomer, OpenSession, OutOfIds,
       ReadRow, RetrieveSession, Sync, Fail, Checkouts, Verifies, Deliver, Plan, Pay, PaymentFails, Recovers,
       GivesUp, Cancel, Turns, ForgetKey, server, vars

LEMMA Invariant == Spec => []BillingInv
  BY InvInit, InvNext, PTL DEF Spec

(* Every variable keeps its type. *)
THEOREM TypeCorrect == Spec => []TypeOK
  <1>1. BillingInv => TypeOK
    BY DEF BillingInv
  <1> QED  BY <1>1, Invariant, PTL

(* Nobody is Pro without a paid checkout of his own Stripe customer
   (billing.service.ts:57 and routes/billing.ts), for any number of accounts,
   sessions, requests and failures. *)
THEOREM PaidForPro == Spec => []ProMeansPaid
  <1>1. BillingInv => ProMeansPaid
    BY DEF BillingInv
  <1> QED  BY <1>1, Invariant, PTL

(* A Stripe customer is that of one account (getOrCreateStripeCustomer). *)
THEOREM OneAccountPerCustomer == Spec => []OwnCustomer
  <1>1. BillingInv => OwnCustomer
    <2> SUFFICES ASSUME BillingInv, NEW u \in User, NEW v \in User, u # v,
                        account[u].customer # None, account[u].customer = account[v].customer
                 PROVE  FALSE
      BY DEF OwnCustomer
    <2>1. account[u].customer \in Customer
      BY DEF BillingInv, TypeOK, Account, Maybe
    <2> QED  BY <2>1 DEF BillingInv, Apart, Claims
  <1> QED  BY <1>1, Invariant, PTL

(* Overlapping and retried checkouts replace no customer. *)
THEOREM CustomerKept == Spec => CustomerIsFinal
  <1>1. BillingInv /\ [Next]_vars =>
            [\A u \in User : account[u].customer # None /\ account'[u].exists
                => account'[u].customer = account[u].customer]_vars
    BY AccountSteps DEF AccountStep
  <1> QED  BY <1>1, Invariant, PTL DEF Spec, CustomerIsFinal

(* Pro is withdrawn only when Stripe reported the end of a subscription. *)
THEOREM EndedBeforeDowngrade == Spec => DowngradeMeansEnded
  <1>1. BillingInv /\ [Next]_vars =>
            [\A u \in User : account[u].tier = "pro" /\ account'[u] # account[u] /\ account'[u].exists
                => \E e \in sent : /\ e.kind \in Ending
                                   /\ checkout[e.of].customer = account[u].customer]_vars
    BY AccountSteps DEF AccountStep, Ended
  <1> QED  BY <1>1, Invariant, PTL DEF Spec, DowngradeMeansEnded

==============================================================================
