----------------------------- MODULE CreateGates -----------------------------
(***************************************************************************)
(* POST /api/secrets (server/src/routes/secrets.ts): what each tier may    *)
(* ask for.  The handler reads the tier up to three times, in statements   *)
(* of their own, while a subscription may begin or end.                    *)
(***************************************************************************)
EXTENDS Naturals

CONSTANTS
    User,     \* accounts
    Anon,     \* a visitor without a session
    Request,  \* requests, each used once
    None      \* nothing, or nothing yet

ASSUME GatesAssumption == Anon \notin User /\ None \notin User

VARIABLES
    tier,    \* users.subscription_tier, or "gone" for a deleted account
    phase,   \* the await at which each handler is suspended
    asked,   \* who asks, and for what
    answer,  \* the status it is answered
    stored,  \* the row it inserted
    wasPro   \* the requests during which the account was Pro (no such thing in the code)

gates == <<tier, phase, asked, answer, stored, wasPro>>

Expiry == {"1h", "7d", "30d"}  \* 24h is treated as 7d is

Kind == {"none", "passphrase", "password"}

Body == [expires : Expiry, kind : Kind, password : BOOLEAN, notify : BOOLEAN]

Ask == [by : User \cup {Anon}, body : Body]

Row == [owner : User \cup {Anon}, expires : Expiry, password : BOOLEAN, notify : BOOLEAN]

Phase == {"unsent", "limit", "protection", "notify", "insert", "done"}

Status == {201, 400, 403, 429, 500}

GatesInit ==
    /\ tier \in [User -> {"free", "pro"}]
    /\ phase = [r \in Request |-> "unsent"]
    /\ asked = [r \in Request |-> None]
    /\ answer = [r \in Request |-> None]
    /\ stored = [r \in Request |-> None]
    /\ wasPro = {}

-----------------------------------------------------------------------------
Enter(r, p) == phase' = [phase EXCEPT ![r] = p] /\ UNCHANGED answer

Answered(r, status) ==
    /\ phase' = [phase EXCEPT ![r] = "done"]
    /\ answer' = [answer EXCEPT ![r] = status]

Running(r) == phase[r] \notin {"unsent", "done"}

Member(r) == asked[r].by # Anon

(* SELECT subscription_tier; no row counts as free. *)
IsPro(u) == tier[u] = "pro"

(* optionalAuth has found out who asks. *)
Arrive(r, a) ==
    /\ phase[r] = "unsent"
    /\ asked' = [asked EXCEPT ![r] = a]
    /\ wasPro' = IF a.by # Anon /\ IsPro(a.by) THEN wasPro \cup {r} ELSE wasPro
    /\ Enter(r, "limit")
    /\ UNCHANGED <<tier, stored>>

(* From the tier caps on protection to the INSERT, skipping what is not asked for. *)
AfterProtection(r) ==
    IF asked[r].body.notify /\ Member(r) THEN Enter(r, "notify") ELSE Enter(r, "insert")

(* The caps that need no statement: expiry, then protection of visitors. *)
Caps(r) ==
    LET body == asked[r].body IN
    \/ /\ body.expires = "30d" \/ (body.expires # "1h" /\ ~ Member(r))
       /\ Answered(r, 400)
    \/ /\ body.expires = "1h" /\ ~ Member(r) /\ body.kind # "none"
       /\ Answered(r, 403)
    \/ /\ \/ body.expires # "30d" /\ Member(r)
          \/ body.expires = "1h" /\ body.kind = "none"
       /\ IF body.kind = "password" THEN Enter(r, "protection") ELSE AfterProtection(r)

(* The limiters: visitors by the hour and by the day, free accounts by the
   day, Pro never.  Counters are express-rate-limit's; any may be used up. *)
Limit(r) ==
    /\ phase[r] = "limit"
    /\ \/ Caps(r)
       \/ ~ (Member(r) /\ IsPro(asked[r].by)) /\ Answered(r, 429)
    /\ UNCHANGED <<tier, asked, stored, wasPro>>

ReadProtection(r) ==
    /\ phase[r] = "protection"
    /\ IF IsPro(asked[r].by) THEN AfterProtection(r) ELSE Answered(r, 403)
    /\ UNCHANGED <<tier, asked, stored, wasPro>>

(* Faulty: notifications are not checked again. *)
ReadNotifyUnchecked(r) ==
    /\ phase[r] = "notify"
    /\ Enter(r, "insert")
    /\ UNCHANGED <<tier, asked, stored, wasPro>>

ReadNotify(r) ==
    /\ phase[r] = "notify"
    /\ IF IsPro(asked[r].by) THEN Enter(r, "insert") ELSE Answered(r, 403)
    /\ UNCHANGED <<tier, asked, stored, wasPro>>

(* createSecret; the foreign key refuses an account that is gone. *)
Insert(r) ==
    LET by == asked[r].by
        body == asked[r].body
    IN
    /\ phase[r] = "insert"
    /\ IF Member(r) /\ tier[by] = "gone"
         THEN Answered(r, 500) /\ UNCHANGED stored
         ELSE /\ Answered(r, 201)
              /\ stored' = [stored EXCEPT ![r] =
                    [owner |-> by, expires |-> body.expires, password |-> body.password,
                     notify |-> Member(r) /\ body.notify]]
    /\ UNCHANGED <<tier, asked, wasPro>>

Fail(r) ==
    /\ Running(r)
    /\ Answered(r, 500)
    /\ UNCHANGED <<tier, asked, stored, wasPro>>

(* Billing, or an account deletion, changes the tier. *)
TierChanges(u, t) ==
    /\ tier[u] # "gone" /\ tier[u] # t
    /\ tier' = [tier EXCEPT ![u] = t]
    /\ wasPro' = IF t = "pro" THEN wasPro \cup {r \in Request : Running(r) /\ asked[r].by = u}
                              ELSE wasPro
    /\ UNCHANGED <<phase, asked, answer, stored>>

Serve(r) == Limit(r) \/ ReadProtection(r) \/ ReadNotify(r) \/ Insert(r)

GatesNext ==
    \/ \E r \in Request : Serve(r) \/ Fail(r) \/ \E a \in Ask : Arrive(r, a)
    \/ \E u \in User, t \in {"free", "pro", "gone"} : TierChanges(u, t)

GatesSpec == GatesInit /\ [][GatesNext]_gates

-----------------------------------------------------------------------------
(* Properties. *)

GatesTypeOK ==
    /\ tier \in [User -> {"free", "pro", "gone"}]
    /\ phase \in [Request -> Phase]
    /\ asked \in [Request -> Ask \cup {None}]
    /\ answer \in [Request -> Status \cup {None}]
    /\ stored \in [Request -> Row \cup {None}]
    /\ wasPro \subseteq Request

(* Nothing is stored beyond what the tier allows, whatever the tier did
   between the checks: a visitor's secret lives an hour, unprotected by type
   and silent; a password type or a notification means the account was Pro at
   some moment of this very request; and a request refused stores nothing. *)
GatesHold ==
    \A r \in Request : stored[r] # None =>
        LET body == asked[r].body IN
        /\ answer[r] = 201
        /\ stored[r].expires # "30d"
        /\ stored[r].owner = Anon => stored[r].expires = "1h" /\ body.kind = "none" /\ ~ stored[r].notify
        /\ stored[r].notify \/ body.kind = "password" => r \in wasPro

==============================================================================
