---------------------------- MODULE AccountProofs -----------------------------
(***************************************************************************)
(* Signing in, at the server and in the browser: what the audit log calls  *)
(* a sign-in is one that a password opened, and a choice of a provider is  *)
(* told to analytics once at most, for any users, pages and clicks.        *)
(***************************************************************************)
EXTENDS AccountPages, AuthHooks, TLAPS

(* The hooks of authentication. *)

(* A request past its account's creation, at a provider, is of a linked user,
   or of one that is no more, unless the provider was unlinked meanwhile; and so
   a sign-in is fired for a password, or for a user whose row the insert will not
   find. *)
PastAccount == {"session", "look up"}

ProviderLinked ==
    \A r \in requests :
        /\ r.via \in {"password", "oauth"}
        /\ r.via = "oauth" /\ r.step \in PastAccount =>
               r.user \in linked \cup gone \/ r.id \in orphaned

FiredRight ==
    \A a \in fired : a.event = "sign_in" =>
        a.via = "password" \/ a.user \in gone \/ a.id \in orphaned

HooksInv == ProviderLinked /\ FiredRight /\ SignInMeansPassword

-----------------------------------------------------------------------------
LEMMA InitHooks == HooksInit => HooksInv
  BY DEF HooksInit, HooksInv, ProviderLinked, FiredRight, SignInMeansPassword

(* Beginning an entry adds a request that is not past its account, or whose user
   is linked. *)
LEMMA BeginKeeps ==
    ASSUME HooksInv, NEW u, NEW via \in {"password", "oauth"}, NEW step, Begin(u, via, step),
           via = "oauth" /\ step \in PastAccount => u \in linked \cup gone,
           linked \cup gone \subseteq (linked \cup gone)', orphaned' = orphaned
    PROVE  ProviderLinked'
  BY DEF Begin, Request, HooksInv, ProviderLinked

(* So does moving one on. *)
LEMMA AtKeeps ==
    ASSUME HooksInv, NEW r \in requests, NEW step,
           requests' = At(r, step),
           r.via = "oauth" => r.user \in (linked \cup gone)' \/ r.id \in orphaned,
           linked \cup gone \subseteq (linked \cup gone)', orphaned' = orphaned
    PROVE  ProviderLinked'
  BY DEF At, Request, HooksInv, ProviderLinked

LEMMA FireKeeps ==
    ASSUME HooksInv, NEW event, NEW r, FireAuditEvent(event, r),
           event = "sign_in" => r.via = "password" \/ r.user \in gone \/ r.id \in orphaned,
           gone \subseteq gone', orphaned' = orphaned
    PROVE  FiredRight'
  BY DEF FireAuditEvent, AuditRow, HooksInv, FiredRight

(* HooksInv is inductive. *)
LEMMA StepHooks == HooksInv /\ [HooksNext]_hookVars => HooksInv'
<1> SUFFICES ASSUME HooksInv, [HooksNext]_hookVars PROVE HooksInv'
  OBVIOUS
<1> USE DEF PastAccount
<1>1. ASSUME NEW u \in Users, OfUser(u) PROVE HooksInv'
  <2>1. ASSUME NEW via \in {"password", "oauth"}, CreateUser(u, via) PROVE HooksInv'
    <3>1. ProviderLinked'
      BY <2>1, BeginKeeps DEF CreateUser
    <3>2. FiredRight'
      BY <2>1, FireKeeps DEF CreateUser
    <3> QED BY <2>1, <3>1, <3>2 DEF CreateUser, HooksInv, SignInMeansPassword
  <2>2. CASE VerifyEmail(u)
    BY <2>2 DEF VerifyEmail, HooksInv, ProviderLinked, FiredRight, SignInMeansPassword
  <2>3. CASE LinkProvider(u)
    <3>1. FiredRight'
      BY <2>3, FireKeeps DEF LinkProvider
    <3> QED BY <2>3, <3>1 DEF LinkProvider, HooksInv, ProviderLinked, SignInMeansPassword
  <2>4. CASE SignInEmail(u)
    <3>1. ProviderLinked'
      BY <2>4, BeginKeeps DEF SignInEmail, accounts
    <3> QED BY <2>4, <3>1 DEF SignInEmail, accounts, HooksInv, FiredRight, SignInMeansPassword
  <2>5. CASE SignInSocial(u)
    <3>1. ProviderLinked'
      BY <2>5, BeginKeeps DEF SignInSocial, accounts
    <3> QED BY <2>5, <3>1 DEF SignInSocial, accounts, HooksInv, FiredRight, SignInMeansPassword
  <2>6. CASE RequestPasswordReset(u)
    <3>1. FiredRight'
      BY <2>6, FireKeeps DEF RequestPasswordReset, accounts
    <3> QED BY <2>6, <3>1 DEF RequestPasswordReset, accounts, HooksInv, ProviderLinked, SignInMeansPassword
  <2>7. CASE DeleteUser(u)
    BY <2>7 DEF DeleteUser, HooksInv, ProviderLinked, FiredRight, SignInMeansPassword
  <2>8. CASE ResetPassword(u)
    BY <2>8 DEF ResetPassword, HooksInv, ProviderLinked, FiredRight, SignInMeansPassword
  <2>9. CASE UnlinkAccount(u)
    <3>1. /\ UNCHANGED <<gone, requests, fired, audit>>
          /\ \/ /\ linked' = linked \ {u}
                /\ orphaned' = orphaned \cup {r.id : r \in {q \in requests : q.user = u}}
             \/ UNCHANGED <<linked, orphaned>>
      BY <2>9 DEF UnlinkAccount
    <3>2. ProviderLinked'
      BY <3>1 DEF HooksInv, ProviderLinked
    <3> QED BY <3>1, <3>2 DEF HooksInv, FiredRight, SignInMeansPassword
  <2> QED BY <1>1, <2>1, <2>2, <2>3, <2>4, <2>5, <2>6, <2>7, <2>8, <2>9 DEF OfUser
<1>2. ASSUME NEW r \in requests, OfRequest(r) PROVE HooksInv'
  <2>1. CASE CreateAccount(r)
    <3>1. ProviderLinked'
      <4>1. CASE r.via = "oauth"
        BY <2>1, <4>1, AtKeeps DEF CreateAccount
      <4>2. CASE r.via = "password"
        BY <2>1, <4>2, AtKeeps DEF CreateAccount, HooksInv, ProviderLinked
      <4> QED BY <2>1, <4>1, <4>2 DEF CreateAccount
    <3>2. FiredRight'
      <4>1. CASE r.via = "oauth"
        BY <2>1, <4>1, FireKeeps DEF CreateAccount
      <4>2. CASE r.via = "password"
        BY <2>1, <4>2 DEF CreateAccount, HooksInv, FiredRight
      <4> QED BY <2>1, <4>1, <4>2 DEF CreateAccount
    <3> QED BY <2>1, <3>1, <3>2 DEF CreateAccount, HooksInv, SignInMeansPassword
  <2>2. CASE OpenSession(r)
    <3>1. r.via = "oauth" => r.user \in linked \cup gone \/ r.id \in orphaned
      BY <2>2 DEF OpenSession, HooksInv, ProviderLinked
    <3>2. ProviderLinked'
      BY <2>2, <3>1, AtKeeps DEF OpenSession, accounts, HooksInv, ProviderLinked
    <3> QED BY <2>2, <3>2 DEF OpenSession, accounts, HooksInv, FiredRight, SignInMeansPassword
  <2>3. CASE LookUpAccounts(r)
    <3>1. ProviderLinked'
      BY <2>3 DEF LookUpAccounts, accounts, HooksInv, ProviderLinked
    <3>2. FiredRight'
      <4>1. CASE r.user \in linked
        BY <2>3, <4>1 DEF LookUpAccounts, accounts, HooksInv, FiredRight
      <4>2. CASE r.user \notin linked
        <5>1. r.via = "password" \/ r.user \in gone \/ r.id \in orphaned
          BY <2>3, <4>2 DEF LookUpAccounts, HooksInv, ProviderLinked
        <5> QED BY <2>3, <4>2, <5>1, FireKeeps DEF LookUpAccounts, accounts
      <4> QED BY <4>1, <4>2
    <3> QED BY <2>3, <3>1, <3>2 DEF LookUpAccounts, accounts, HooksInv, SignInMeansPassword
  <2>4. CASE FailRequest(r)
    BY <2>4 DEF FailRequest, accounts, HooksInv, ProviderLinked, FiredRight, SignInMeansPassword
  <2> QED BY <1>2, <2>1, <2>2, <2>3, <2>4 DEF OfRequest
<1>3. ASSUME NEW s \in sessions, SignOut(s) PROVE HooksInv'
  <2>1. FiredRight'
    BY <1>3, FireKeeps DEF SignOut, accounts
  <2> QED BY <1>3, <2>1 DEF SignOut, accounts, HooksInv, ProviderLinked, SignInMeansPassword
<1>4. ASSUME NEW a \in fired, WriteAuditEvent(a) PROVE HooksInv'
  BY <1>4 DEF WriteAuditEvent, accounts, Live, HooksInv, ProviderLinked, FiredRight, SignInMeansPassword
<1>5. CASE Restart
  BY <1>5 DEF Restart, accounts, HooksInv, ProviderLinked, FiredRight, SignInMeansPassword
<1>6. CASE UNCHANGED hookVars
  BY <1>6 DEF hookVars, accounts, HooksInv, ProviderLinked, FiredRight, SignInMeansPassword
<1> QED BY <1>1, <1>2, <1>3, <1>4, <1>5, <1>6 DEF HooksNext

(* No sign-up and no sign-in at a provider is written to audit_logs as a
   sign-in: whatever the hooks of auth.ts interleave with, and whenever the
   process is restarted or the user deleted; but for one whose provider was
   unlinked before it was looked up. *)
THEOREM AuditedSignInsAreSo == HooksSpec => []SignInMeansPassword
<1>1. HooksInv => SignInMeansPassword
  BY DEF HooksInv
<1> QED BY InitHooks, StepHooks, <1>1, PTL DEF HooksSpec

-----------------------------------------------------------------------------
(* The pages of the account. *)

(* A flag that is still set. *)
Waiting(p) == IF p \in flags THEN 1 ELSE 0

(* What was told and what is still to be told do not exceed the choices made:
   this is what a dashboard leaves true that takes a flag as it tells it. *)
Accounted ==
    /\ said \in [login : Nat, register : Nat]
    /\ clicks \in Nat
    /\ said.login + Waiting("login") + said.register + Waiting("register") <= clicks

LEMMA InitAccounted == PagesInit => Accounted
  BY DEF PagesInit, Accounted, Waiting

LEMMA ClickStep ==
  ASSUME Accounted, NEW m, ClickProvider(m)
  PROVE  Accounted'
  <1>1. clicks' = clicks + 1 /\ said' = said /\ flags' = flags \cup {m.page}
    BY DEF ClickProvider
  <1>2. Waiting("login")' + Waiting("register")' <= Waiting("login") + Waiting("register") + 1
    <2>1. CASE m.page = "login"
      BY <1>1, <2>1 DEF Waiting
    <2>2. CASE m.page # "login"
      BY <1>1, <2>2 DEF Waiting
    <2> QED  BY <2>1, <2>2
  <1>3. Waiting("login") \in Nat /\ Waiting("register") \in Nat
        /\ Waiting("login")' \in Nat /\ Waiting("register")' \in Nat
    BY DEF Waiting
  <1> QED  BY <1>1, <1>2, <1>3 DEF Accounted

LEMMA UnavailableStep ==
  ASSUME Accounted, NEW p, ProviderUnavailable(p)
  PROVE  Accounted'
  <1>1. said' = said /\ clicks' = clicks /\ flags' \subseteq flags
    BY DEF ProviderUnavailable
  <1>2. /\ Waiting("login")' <= Waiting("login") /\ Waiting("register")' <= Waiting("register")
        /\ Waiting("login") \in Nat /\ Waiting("register") \in Nat
        /\ Waiting("login")' \in Nat /\ Waiting("register")' \in Nat
    BY <1>1 DEF Waiting
  <1> QED  BY <1>1, <1>2 DEF Accounted

LEMMA ShowStep ==
  ASSUME Accounted, NEW m, ShowDashboard(m)
  PROVE  Accounted'
  <1>1. /\ clicks' = clicks /\ flags' = {}
        /\ said' = [login |-> said.login + Waiting("login"),
                    register |-> said.register + Waiting("register")]
    BY DEF ShowDashboard, TakeFlags, counters, Waiting
  <1>2. /\ Waiting("login") \in Nat /\ Waiting("register") \in Nat
        /\ Waiting("login")' = 0 /\ Waiting("register")' = 0
    BY <1>1 DEF Waiting
  <1> QED  BY <1>1, <1>2 DEF Accounted

LEMMA NextAccounted == Accounted /\ [PagesNext]_pagesVars => Accounted'
  <1> SUFFICES ASSUME Accounted, [PagesNext]_pagesVars  PROVE Accounted'
    OBVIOUS
  <1>1. CASE UNCHANGED <<said, flags, clicks>>
    BY <1>1 DEF Accounted, Waiting
  <1>2. ASSUME NEW m \in mounts, OfMount(m)  PROVE Accounted'
    <2>1. CASE ClickProvider(m)
      BY <2>1, ClickStep
    <2>2. CASE ShowDashboard(m)
      BY <2>2, ShowStep
    <2> QED
      BY <1>1, <1>2, <2>1, <2>2 DEF OfMount, MountForm, Submit, SignInAnswered, SignedIn, SignedInRedirected,
         SignUpAnswered, MountDashboard, MountTooLate, LogOut, SignOutAnswered, SignedOut, analytics, counters
  <1>3. ASSUME NEW p \in socials, RedirectToProvider(p) \/ ProviderUnavailable(p)  PROVE Accounted'
    BY <1>1, <1>3, UnavailableStep DEF RedirectToProvider, analytics
  <1>4. ASSUME NEW p \in Places, Follow(p) \/ Visit(p) \/ ProviderRefuses(p)  PROVE Accounted'
    BY <1>1, <1>4 DEF Follow, Visit, ProviderRefuses, analytics
  <1> QED
    BY <1>1, <1>2, <1>3, <1>4 DEF PagesNext, ProviderAccepts, analytics, counters, pagesVars

(* However many dashboards are mounted at a time and whatever fails, no choice
   of a provider is told twice (dashboard.ts, "to prevent it from firing again"). *)
THEOREM ToldOnce == PagesSpec => []SaidOncePerClick
  <1>1. Accounted => SaidOncePerClick
    BY DEF Accounted, Waiting, SaidOncePerClick
  <1> QED  BY <1>1, InitAccounted, NextAccounted, PTL DEF PagesSpec

==============================================================================
