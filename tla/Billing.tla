------------------------------- MODULE Billing -------------------------------
(***************************************************************************)
(* Subscriptions: server/src/services/billing.service.ts under the routes  *)
(* of routes/billing.ts and the webhook handler of routes/webhooks.ts.     *)
(* Stripe is external: it answers calls, takes payments and reports them   *)
(* in events that arrive in any order, more than once, and again until     *)
(* they are answered 2xx.  Every statement of the server commits by        *)
(* itself; a handler is suspended at each of them.                         *)
(*                                                                         *)
(* A checkout session that is completed starts one subscription, and the   *)
(* session stands for it.                                                  *)
(***************************************************************************)
EXTENDS Naturals

CONSTANTS
    User,       \* accounts
    Customer,   \* ids Stripe gives to customers
    Session,    \* ids Stripe gives to checkout sessions
    Handler,    \* requests the server works on at a time
    None,       \* NULL
    MaxFaults   \* statements and calls that fail

ASSUME BillingAssumption ==
    /\ None \notin User \cup Customer \cup Session
    /\ MaxFaults \in Nat

VARIABLES
    account,    \* users: does the row exist, stripe_customer_id, subscription_tier
    keyed,      \* Stripe: the customer remembered under an idempotency key
    checkout,   \* Stripe: checkout sessions and the subscriptions they started
    sent,       \* Stripe: events it has tried to deliver, or will
    unanswered, \* Stripe: those it goes on delivering
    pc,         \* where each handler is suspended
    job,        \* what it works on
    faults      \* how many statements and calls have failed

server == <<account, pc, job>>
stripe == <<keyed, checkout, sent, unanswered>>
vars == <<account, keyed, checkout, sent, unanswered, pc, job, faults>>

Maybe(S) == S \cup {None}

Account == [exists : BOOLEAN, customer : Maybe(Customer), tier : {"free", "pro"}]

Checkout == [customer : Maybe(Customer),
             status   : {"none", "open", "complete"},
             plan     : {"none", "active", "past_due", "unpaid", "canceled"}]

(* checkout.session.completed, customer.subscription.updated with each status
   and customer.subscription.deleted.  invoice.payment_failed, which only has
   a mail sent, comes and goes with the status past_due. *)
Event == [kind : {"completed", "active", "past_due", "unpaid", "canceled", "deleted"},
          of   : Session]

Location == {"idle", "find", "customer", "save", "session",
             "row", "retrieve", "on", "off", "sync"}

Job == [user    : Maybe(User),
        held    : Maybe(Customer),  \* the customer id the handler works with
        session : Maybe(Session),
        event   : Event \cup {None}]

NoJob == [user |-> None, held |-> None, session |-> None, event |-> None]

Init ==
    /\ account = [u \in User |-> [exists |-> TRUE, customer |-> None, tier |-> "free"]]
    /\ keyed = [u \in User |-> None]
    /\ checkout = [s \in Session |-> [customer |-> None, status |-> "none", plan |-> "none"]]
    /\ sent = {}
    /\ unanswered = {}
    /\ pc = [h \in Handler |-> "idle"]
    /\ job = [h \in Handler |-> NoJob]
    /\ faults = 0

-----------------------------------------------------------------------------
Goto(h, loc) == pc' = [pc EXCEPT ![h] = loc]

Start(h, j, loc) ==
    /\ pc[h] = "idle"
    /\ Goto(h, loc)
    /\ job' = [job EXCEPT ![h] = j]

Finish(h) ==
    /\ Goto(h, "idle")
    /\ job' = [job EXCEPT ![h] = NoJob]

Hold(h, c, loc) ==
    /\ Goto(h, loc)
    /\ job' = [job EXCEPT ![h].held = c]

-----------------------------------------------------------------------------
(* POST /checkout *)

Checkouts(h, u) ==
    /\ account[u].exists
    /\ Start(h, [NoJob EXCEPT !.user = u], "find")
    /\ UNCHANGED <<account, stripe, faults>>

(* getOrCreateStripeCustomer: SELECT. *)
FindCustomer(h) ==
    LET row == account[job[h].user] IN
    /\ pc[h] = "find"
    /\ \/ /\ row.exists /\ row.customer # None
          /\ Hold(h, row.customer, "session")
       \/ /\ ~ (row.exists /\ row.customer # None)
          /\ Hold(h, None, "customer")
    /\ UNCHANGED <<account, stripe, faults>>

Fresh(c) == /\ \A u \in User : keyed[u] # c /\ account[u].customer # c
            /\ \A s \in Session : checkout[s].customer # c
            /\ \A h \in Handler : job[h].held # c

(* Faulty: the key is the same for every account. *)
CreateCustomerShared(h) ==
    /\ pc[h] = "customer"
    /\ \E c \in Customer :
        /\ IF \A u \in User : keyed[u] = None THEN Fresh(c) ELSE \E u \in User : c = keyed[u]
        /\ keyed' = [keyed EXCEPT ![job[h].user] = c]
        /\ Hold(h, c, "save")
    /\ UNCHANGED <<account, checkout, sent, unanswered, faults>>

(* Faulty: the call carries no idempotency key. *)
CreateCustomerAgain(h) ==
    /\ pc[h] = "customer"
    /\ \E c \in Customer :
        /\ Fresh(c)
        /\ keyed' = [keyed EXCEPT ![job[h].user] = c]
        /\ Hold(h, c, "save")
    /\ UNCHANGED <<account, checkout, sent, unanswered, faults>>

(* stripe.customers.create under the key torch-secret-<user id>. *)
CreateCustomer(h) ==
    LET u == job[h].user IN
    /\ pc[h] = "customer"
    /\ \E c \in Customer :
        /\ IF keyed[u] = None THEN Fresh(c) ELSE c = keyed[u]
        /\ keyed' = [keyed EXCEPT ![u] = c]
        /\ Hold(h, c, "save")
    /\ UNCHANGED <<account, checkout, sent, unanswered, faults>>

SaveCustomer(h) ==
    LET u == job[h].user IN
    /\ pc[h] = "save"
    /\ account' = [account EXCEPT ![u].customer = IF account[u].exists THEN job[h].held ELSE @]
    /\ Goto(h, "session")
    /\ UNCHANGED <<job, stripe, faults>>

(* stripe.checkout.sessions.create, and the answer with its url. *)
OpenSession(h) ==
    /\ pc[h] = "session"
    /\ \E s \in Session :
        /\ checkout[s].status = "none"
        /\ checkout' = [checkout EXCEPT ![s].customer = job[h].held, ![s].status = "open"]
    /\ Finish(h)
    /\ UNCHANGED <<account, keyed, sent, unanswered, faults>>

-----------------------------------------------------------------------------
(* GET /verify-checkout *)

Verifies(h, u, s) ==
    /\ account[u].exists
    /\ checkout[s].status # "none"
    /\ Start(h, [NoJob EXCEPT !.user = u, !.session = s], "row")
    /\ UNCHANGED <<account, stripe, faults>>

(* The row the answer is decided from; 403 when it is gone. *)
ReadRow(h) ==
    LET row == account[job[h].user] IN
    /\ pc[h] = "row"
    /\ IF row.exists THEN Hold(h, row.customer, "retrieve") ELSE Finish(h)
    /\ UNCHANGED <<account, stripe, faults>>

(* Faulty: any session of this customer will do, paid or not. *)
RetrieveUnpaid(h) ==
    LET s == checkout[job[h].session] IN
    /\ pc[h] = "retrieve"
    /\ IF s.customer = job[h].held THEN Goto(h, "on") /\ UNCHANGED job ELSE Finish(h)
    /\ UNCHANGED <<account, stripe, faults>>

(* stripe.checkout.sessions.retrieve: 402 unless it is complete, 403 when the
   row has no customer or another one. *)
RetrieveSession(h) ==
    LET s == checkout[job[h].session] IN
    /\ pc[h] = "retrieve"
    /\ IF s.status = "complete" /\ s.customer = job[h].held
         THEN Goto(h, "on") /\ UNCHANGED job
         ELSE Finish(h)
    /\ UNCHANGED <<account, stripe, faults>>

-----------------------------------------------------------------------------
(* activatePro and deactivatePro; then the SELECT of the address for Loops,
   which keeps a contact nothing here reads. *)

SetTier(c, tier) ==
    account' = [u \in User |-> IF account[u].exists /\ account[u].customer = c
                                 THEN [account[u] EXCEPT !.tier = tier]
                                 ELSE account[u]]

Activate(h) ==
    /\ pc[h] = "on"
    /\ SetTier(job[h].held, "pro")
    /\ Goto(h, "sync")
    /\ UNCHANGED <<job, stripe, faults>>

Deactivate(h) ==
    /\ pc[h] = "off"
    /\ SetTier(job[h].held, "free")
    /\ Goto(h, "sync")
    /\ UNCHANGED <<job, stripe, faults>>

(* The handler answers; an event that is answered is not delivered again,
   unless Stripe does so by mistake. *)
Sync(h) ==
    /\ pc[h] = "sync"
    /\ unanswered' = unanswered \ {job[h].event}
    /\ Finish(h)
    /\ UNCHANGED <<account, keyed, checkout, sent, faults>>

-----------------------------------------------------------------------------
(* POST /api/webhooks/stripe *)

Activating == {"completed", "active"}

(* Faulty: the first failed payment already ends Pro. *)
DeactivatingEarly == {"past_due", "unpaid", "canceled", "deleted"}

Deactivating == {"unpaid", "canceled", "deleted"}

Deliver(h, e) ==
    LET j == [NoJob EXCEPT !.held = checkout[e.of].customer, !.event = e] IN
    /\ \/ e.kind \in Activating /\ Start(h, j, "on")
       \/ e.kind \in Deactivating /\ Start(h, j, "off")
       \/ e.kind \notin Activating \cup Deactivating /\ Start(h, j, "sync")
    /\ UNCHANGED <<account, stripe, faults>>

-----------------------------------------------------------------------------
(* What Stripe does by itself. *)

Send(s, kinds) ==
    LET events == [kind : kinds, of : {s}] IN
    /\ sent' = sent \cup events
    /\ unanswered' = unanswered \cup events

Turns(s, plan, kind) ==
    /\ checkout' = [checkout EXCEPT ![s].plan = plan]
    /\ Send(s, {kind})
    /\ UNCHANGED <<server, keyed, faults>>

(* The visitor pays; the subscription starts. *)
Pay(s) ==
    /\ checkout[s].status = "open"
    /\ checkout' = [checkout EXCEPT ![s].status = "complete", ![s].plan = "active"]
    /\ Send(s, {"completed", "active"})
    /\ UNCHANGED <<server, keyed, faults>>

(* A payment fails; it is tried again, until Stripe gives up on it. *)
PaymentFails(s) == checkout[s].plan = "active" /\ Turns(s, "past_due", "past_due")

Recovers(s) == checkout[s].plan \in {"past_due", "unpaid"} /\ Turns(s, "active", "active")

GivesUp(s) == checkout[s].plan = "past_due" /\ Turns(s, "unpaid", "unpaid")

Cancel(s) ==
    /\ checkout[s].plan \in {"active", "past_due", "unpaid"}
    /\ \E kind \in {"canceled", "deleted"} : Turns(s, "canceled", kind)

(* Keys are kept for a day, longer than any request takes. *)
ForgetKey(u) ==
    /\ keyed[u] # None
    /\ \A h \in Handler : job[h].user # u
    /\ keyed' = [keyed EXCEPT ![u] = None]
    /\ UNCHANGED <<server, checkout, sent, unanswered, faults>>

-----------------------------------------------------------------------------
(* The row of an account goes; what Stripe knows of it stays. *)
DeleteAccount(u) ==
    /\ account[u].exists
    /\ account' = [account EXCEPT ![u] = [exists |-> FALSE, customer |-> None, tier |-> "free"]]
    /\ UNCHANGED <<pc, job, stripe, faults>>

(* Faulty: errors are logged, and Stripe is answered all the same. *)
FailSilently(h) ==
    /\ pc[h] # "idle"
    /\ faults < MaxFaults
    /\ faults' = faults + 1
    /\ unanswered' = unanswered \ {job[h].event}
    /\ Finish(h)
    /\ UNCHANGED <<account, keyed, checkout, sent>>

(* A statement or a call of the handler fails, or the process is restarted. *)
Fail(h) ==
    /\ pc[h] # "idle"
    /\ faults < MaxFaults
    /\ faults' = faults + 1
    /\ Finish(h)
    /\ UNCHANGED <<account, stripe>>

(* The instance has no more ids for Stripe to give: its call fails. *)
OutOfIds(h) ==
    /\ \/ pc[h] = "customer" /\ keyed[job[h].user] = None /\ ~ \E c \in Customer : Fresh(c)
       \/ pc[h] = "session" /\ \A s \in Session : checkout[s].status # "none"
    /\ Finish(h)
    /\ UNCHANGED <<account, stripe, faults>>

Proceed(h) ==
    \/ FindCustomer(h)
    \/ CreateCustomer(h)
    \/ SaveCustomer(h)
    \/ OpenSession(h)
    \/ OutOfIds(h)
    \/ ReadRow(h)
    \/ RetrieveSession(h)
    \/ Activate(h)
    \/ Deactivate(h)
    \/ Sync(h)

Plan(s) == Pay(s) \/ PaymentFails(s) \/ Recovers(s) \/ GivesUp(s) \/ Cancel(s)

Next ==
    \/ \E h \in Handler : Proceed(h) \/ Fail(h)
    \/ \E h \in Handler, u \in User : Checkouts(h, u)
    \/ \E h \in Handler, u \in User, s \in Session : Verifies(h, u, s)
    \/ \E h \in Handler : \E e \in sent : Deliver(h, e)
    \/ \E s \in Session : Plan(s)
    \/ \E u \in User : ForgetKey(u) \/ DeleteAccount(u)

Spec == Init /\ [][Next]_vars

(* Handlers run on, and Stripe delivers until it is answered: an event that
   stays unanswered gets a handler again and again.  The property below needs it
   of the events that turn Pro on only. *)
Fairness ==
    /\ \A h \in Handler : WF_vars(Proceed(h))
    /\ \A e \in [kind : Activating, of : Session] :
        SF_vars(e \in unanswered /\ \E h \in Handler : Deliver(h, e))

-----------------------------------------------------------------------------
(* Properties. *)

TypeOK ==
    /\ account \in [User -> Account]
    /\ keyed \in [User -> Maybe(Customer)]
    /\ checkout \in [Session -> Checkout]
    /\ sent \subseteq Event
    /\ unanswered \subseteq sent
    /\ pc \in [Handler -> Location]
    /\ job \in [Handler -> Job]
    /\ faults \in 0 .. MaxFaults

(* The events that report the end of a subscription. *)
Ending == {"unpaid", "canceled", "deleted"}

(* An account is Pro only if a checkout of its own customer was paid,
   whatever verify-checkout was asked and whatever events came. *)
ProMeansPaid ==
    \A u \in User : account[u].tier = "pro" =>
        \E s \in Session : /\ checkout[s].status = "complete"
                           /\ checkout[s].customer = account[u].customer

(* No two accounts ever share a Stripe customer: activatePro, which finds the
   account by customer alone, upgrades nobody else. *)
OwnCustomer ==
    \A u, v \in User : u # v /\ account[u].customer # None => account[u].customer # account[v].customer

(* Overlapping and retried checkouts never replace the customer of an account,
   so that no paid session is left with a customer the server does not know. *)
CustomerIsFinal ==
    [][\A u \in User : account[u].customer # None /\ account'[u].exists
            => account'[u].customer = account[u].customer]_vars

(* Pro is withdrawn only after Stripe reported the end of a subscription of
   this customer: a failed payment alone never withdraws it. *)
DowngradeMeansEnded ==
    [][\A u \in User : account[u].tier = "pro" /\ account'[u] # account[u] /\ account'[u].exists
            => \E e \in sent : /\ e.kind \in Ending
                               /\ checkout[e.of].customer = account[u].customer]_vars

(* Whoever pays becomes Pro even if he never returns from Stripe and the
   server fails meanwhile, unless the subscription ends or he leaves. *)
PaidGetsPro ==
    \A u \in User, s \in Session :
        (/\ checkout[s].status = "complete"
         /\ checkout[s].customer = account[u].customer
         /\ account[u].tier = "free")
        ~> \/ account[u].tier = "pro"
           \/ ~ account[u].exists
           \/ \E e \in sent : e.of = s /\ e.kind \in Ending

(* CHANGELOG.md:24: the webhook "syncs the user's subscriptionTier in the
   database - mid-period upgrades and downgrades handled".  Once every event
   is answered, the tier is that of the subscription. *)
TierFollowsPlan ==
    unanswered = {} /\ (\A h \in Handler : pc[h] = "idle") =>
        \A u \in User : account[u].tier = "pro" =>
            \E s \in Session : /\ checkout[s].customer = account[u].customer
                               /\ checkout[s].plan # "canceled"

==============================================================================
