------------------------------ MODULE AuthHooks -------------------------------
(***************************************************************************)
(* The hooks server/src/auth.ts hangs on the creation of users, accounts   *)
(* and sessions, and the audit rows they write without waiting.  The steps *)
(* of a sign-up and of a sign-in, and what is stored by them, are those of *)
(* the authentication library, as auth.ts and its pages use it.            *)
(***************************************************************************)
EXTENDS Integers

CONSTANTS Users,
          MaxEntries \* how many sign-ups and sign-ins are begun

ASSUME HooksAssumption == MaxEntries \in Nat

VARIABLES
    required,  \* requireEmailVerification: everywhere but in the test environment
    made,      \* users whose row was ever inserted
    gone,      \* those of them that were deleted
    verified,  \* users whose e-mail address is verified
    password,  \* users with an account of the provider "credential"
    linked,    \* users with an account of another provider
    mailed,    \* users who were sent a link to reset their password
    recent,    \* justSignedUpUserIds, in the memory of the process
    requests,  \* sign-ups and sign-ins under way: for each, the step it is at
    sessions,  \* for each, how it was opened
    fired,     \* audit rows being written
    audit,     \* audit_logs
    begun,
    orphaned   \* history: those under way while their user's provider was unlinked

accounts == <<made, gone, verified, password, linked, mailed, orphaned>>
hookVars == <<required, accounts, recent, requests, sessions, fired, audit, begun>>

Live == made \ gone

HooksInit ==
    /\ required \in BOOLEAN
    /\ made = {} /\ gone = {} /\ verified = {} /\ password = {} /\ linked = {}
    /\ mailed = {} /\ orphaned = {}
    /\ recent = {}
    /\ requests = {} /\ sessions = {}
    /\ fired = {} /\ audit = {}
    /\ begun = 0

Request(id, u, via, step) == [id |-> id, user |-> u, via |-> via, step |-> step]

(* A request to sign up or in, with a password or at a provider. *)
Begin(u, via, step) ==
    /\ begun < MaxEntries
    /\ begun' = begun + 1
    /\ requests' = requests \cup {Request(begun', u, via, step)}

(* What is written is the event and the user; of a sign-in, which it was is kept
   here. *)
AuditRow(event, r) ==
    IF event = "sign_in"
    THEN [event |-> event, user |-> r.user, id |-> r.id, via |-> r.via]
    ELSE [event |-> event, user |-> r.user, id |-> 0, via |-> "any"]

(* writeAuditEvent is not awaited. *)
FireAuditEvent(event, r) == fired' = fired \cup {AuditRow(event, r)}

At(r, step) == (requests \ {r}) \cup {Request(r.id, r.user, r.via, step)}

-----------------------------------------------------------------------------
(* Sign-up. *)

(* The user row, and user.create.after. *)
CreateUser(u, via) ==
    /\ u \notin made
    /\ made' = made \cup {u}
    /\ verified' = IF via = "oauth" THEN verified \cup {u} ELSE verified
    /\ Begin(u, via, "account")
    /\ recent' = recent \cup {u}
    /\ FireAuditEvent("sign_up", [id |-> begun', user |-> u, via |-> via])
    /\ UNCHANGED <<required, gone, password, linked, mailed, orphaned, sessions, audit>>

(* The account row, and account.create.after; without a verified address a
   sign-up with a password ends here. *)
CreateAccount(r) ==
    /\ r.step = "account" /\ r.user \in Live
    /\ \/ /\ r.via = "oauth"
          /\ linked' = linked \cup {r.user}
          /\ FireAuditEvent("oauth_connect", r)
          /\ requests' = At(r, "session")
          /\ UNCHANGED password
       \/ /\ r.via = "password"
          /\ password' = password \cup {r.user}
          /\ requests' = IF required THEN requests \ {r} ELSE At(r, "session")
          /\ UNCHANGED <<linked, fired>>
    /\ UNCHANGED <<required, made, gone, verified, mailed, orphaned, recent, sessions,
                   audit, begun>>

(* The link of the verification e-mail; it opens no session. *)
VerifyEmail(u) ==
    /\ u \in password \ verified
    /\ verified' = verified \cup {u}
    /\ UNCHANGED <<required, made, gone, password, linked, mailed, orphaned, recent,
                   requests, sessions, fired, audit, begun>>

(* The account linking API, of which auth.ts speaks. *)
LinkProvider(u) ==
    /\ u \in password \ linked
    /\ \E s \in sessions :
        /\ s.user = u
        /\ FireAuditEvent("oauth_connect", s)
    /\ linked' = linked \cup {u}
    /\ UNCHANGED <<required, made, gone, verified, password, mailed, orphaned, recent,
                   requests, sessions, audit, begun>>

(* The library's other endpoint: one of two accounts is removed. *)
UnlinkAccount(u) ==
    /\ u \in password \cap linked
    /\ \E s \in sessions : s.user = u
    /\ \/ /\ linked' = linked \ {u}
          /\ orphaned' = orphaned \cup {r.id : r \in {q \in requests : q.user = u}}
          /\ UNCHANGED password
       \/ /\ password' = password \ {u}
          /\ UNCHANGED <<linked, orphaned>>
    /\ UNCHANGED <<required, made, gone, verified, mailed, recent, requests, sessions,
                   fired, audit, begun>>

-----------------------------------------------------------------------------
(* Sign-in. *)

SignInEmail(u) ==
    /\ u \in password
    /\ required => u \in verified
    /\ Begin(u, "password", "session")
    /\ UNCHANGED <<required, accounts, recent, sessions, fired, audit>>

SignInSocial(u) ==
    /\ u \in linked
    /\ Begin(u, "oauth", "session")
    /\ UNCHANGED <<required, accounts, recent, sessions, fired, audit>>

Session(r) == [id |-> r.id, user |-> r.user, via |-> r.via]

(* The session row, and session.create.after up to its await: whoever is among
   the recent users is taken out, and no more is done. *)
OpenSession(r) ==
    /\ r.step = "session" /\ r.user \in Live
    /\ sessions' = sessions \cup {Session(r)}
    /\ recent' = recent \ {r.user}
    /\ \/ r.user \in recent /\ requests' = requests \ {r}
       \/ r.user \notin recent /\ requests' = At(r, "look up")
    /\ UNCHANGED <<required, accounts, fired, audit, begun>>

(* Faulty: the accounts of other providers are not looked up. *)
LookUpNoAccounts(r) ==
    /\ r.step = "look up"
    /\ requests' = requests \ {r}
    /\ FireAuditEvent("sign_in", r)
    /\ UNCHANGED <<required, accounts, recent, sessions, audit, begun>>

(* ... and after it: the accounts of other providers are looked up. *)
LookUpAccounts(r) ==
    /\ r.step = "look up"
    /\ requests' = requests \ {r}
    /\ \/ r.user \in linked /\ UNCHANGED fired
       \/ r.user \notin linked /\ FireAuditEvent("sign_in", r)
    /\ UNCHANGED <<required, accounts, recent, sessions, audit, begun>>

(* A statement of the request fails. *)
FailRequest(r) ==
    /\ requests' = requests \ {r}
    /\ UNCHANGED <<required, accounts, recent, sessions, fired, audit, begun>>

-----------------------------------------------------------------------------
(* The rest of an account's life. *)

RequestPasswordReset(u) ==
    /\ u \in Live
    /\ mailed' = mailed \cup {u}
    /\ FireAuditEvent("password_reset_requested",
                      [id |-> 0, user |-> u, via |-> "password"])
    /\ UNCHANGED <<required, made, gone, verified, password, linked, orphaned, recent,
                   requests, sessions, audit, begun>>

(* The link of that e-mail; a user of a provider has a password from then on. *)
ResetPassword(u) ==
    /\ u \in Live \cap mailed
    /\ mailed' = mailed \ {u}
    /\ password' = password \cup {u}
    /\ UNCHANGED <<required, made, gone, verified, linked, orphaned, recent, requests,
                   sessions, fired, audit, begun>>

(* session.delete.after. *)
SignOut(s) ==
    /\ sessions' = sessions \ {s}
    /\ FireAuditEvent("logout", s)
    /\ UNCHANGED <<required, accounts, recent, requests, audit, begun>>

(* Accounts, sessions and audit rows go with the user. *)
DeleteUser(u) ==
    /\ u \in Live
    /\ gone' = gone \cup {u}
    /\ password' = password \ {u} /\ linked' = linked \ {u}
    /\ sessions' = {s \in sessions : s.user # u}
    /\ audit' = {a \in audit : a.user # u}
    /\ UNCHANGED <<required, made, verified, mailed, orphaned, recent, requests, fired,
                   begun>>

(* The insert fails, or is stored if its user is. *)
WriteAuditEvent(a) ==
    /\ fired' = fired \ {a}
    /\ \/ audit' = audit
       \/ a.user \in Live /\ audit' = audit \cup {a}
    /\ UNCHANGED <<required, accounts, recent, requests, sessions, begun>>

(* The process ends, and is started again. *)
Restart ==
    /\ recent' = {} /\ requests' = {} /\ fired' = {}
    /\ UNCHANGED <<required, accounts, sessions, audit, begun>>

OfUser(u) ==
    \/ \E via \in {"password", "oauth"} : CreateUser(u, via)
    \/ VerifyEmail(u) \/ LinkProvider(u) \/ UnlinkAccount(u)
    \/ SignInEmail(u) \/ SignInSocial(u)
    \/ RequestPasswordReset(u) \/ ResetPassword(u) \/ DeleteUser(u)

OfRequest(r) ==
    CreateAccount(r) \/ OpenSession(r) \/ LookUpAccounts(r) \/ FailRequest(r)

HooksNext ==
    \/ \E u \in Users : OfUser(u)
    \/ \E r \in requests : OfRequest(r)
    \/ \E s \in sessions : SignOut(s)
    \/ \E a \in fired : WriteAuditEvent(a)
    \/ Restart

HooksSpec == HooksInit /\ [][HooksNext]_hookVars

-----------------------------------------------------------------------------
(* Properties. *)

(* What the audit log calls a sign-in is one that a password opened, and not
   one, or a sign-up, at a provider: whatever interleaves, is linked, deleted,
   or forgotten in a restart; but a provider may be unlinked before it is looked
   up, after the session was opened by it. *)
SignInMeansPassword ==
    \A a \in audit : a.event = "sign_in" => a.via = "password" \/ a.id \in orphaned

==============================================================================
