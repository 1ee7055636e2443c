--------------------------- MODULE CreatePageProofs ---------------------------
(***************************************************************************)
(* A secret on its way from the page to the row.  The tier caps of POST    *)
(* /api/secrets hold for any accounts, any requests and any changes of     *)
(* tier between the statements of a handler; what the page sends is what   *)
(* was chosen, and is accepted; and a text of any length that the page     *)
(* takes passes every limit and shows nothing but its tier.                *)
(***************************************************************************)
EXTENDS CreatePage, Sealing, TLAPS

(* What the handler of r may rely on at each await: the caps it has passed,
   and that a tier it read as Pro was Pro during the request. *)
Passed(r) ==
    LET by == asked[r].by
        body == asked[r].body
    IN
    /\ phase[r] # "unsent" => asked[r] \in Ask
    /\ phase[r] # "done" => stored[r] = None /\ answer[r] = None
    /\ Running(r) /\ Member(r) /\ IsPro(by) => r \in wasPro
    /\ phase[r] \in {"protection", "notify", "insert"} =>
            body.expires # "30d" /\ (~ Member(r) => body.expires = "1h" /\ body.kind = "none")
    /\ phase[r] \in {"protection", "notify"} => Member(r)
    /\ phase[r] = "protection" => body.kind = "password"
    /\ phase[r] = "notify" => body.notify
    /\ phase[r] \in {"notify", "insert"} /\ body.kind = "password" => r \in wasPro
    /\ phase[r] = "insert" /\ Member(r) /\ body.notify => r \in wasPro

(* GatesHold, of one request. *)
Held(r) ==
    stored[r] # None =>
        LET body == asked[r].body IN
        /\ answer[r] = 201
        /\ stored[r].expires # "30d"
        /\ stored[r].owner = Anon => stored[r].expires = "1h" /\ body.kind = "none" /\ ~ stored[r].notify
        /\ stored[r].notify \/ body.kind = "password" => r \in wasPro

GatesInv == GatesTypeOK /\ \A r \in Request : Passed(r) /\ Held(r)

LEMMA InvInit == GatesInit => GatesInv
  BY GatesAssumption DEF GatesInit, GatesInv, GatesTypeOK, Passed, Held, Running, Phase

(* A step of r's handler leaves the other requests as they are. *)
LEMMA Others ==
  ASSUME NEW r \in Request, NEW q \in Request, q # r, GatesInv,
         phase'[q] = phase[q], asked'[q] = asked[q], answer'[q] = answer[q],
         stored'[q] = stored[q], wasPro \subseteq wasPro',
         Member(q) /\ Running(q) => tier'[asked[q].by] = tier[asked[q].by]
  PROVE  Passed(q)' /\ Held(q)'
  BY DEF GatesInv, Passed, Held, Running, Member, IsPro

LEMMA ArriveStep ==
  ASSUME GatesInv, NEW r \in Request, NEW a \in Ask, Arrive(r, a)
  PROVE  GatesInv'
  <1>1. GatesTypeOK'
    BY DEF GatesInv, GatesTypeOK, Arrive, Enter, Phase
  <1>2. Passed(r)' /\ Held(r)'
    BY DEF GatesInv, GatesTypeOK, Arrive, Enter, Passed, Held, Running, Member, IsPro
  <1>3. ASSUME NEW q \in Request, q # r  PROVE Passed(q)' /\ Held(q)'
    BY <1>3, Others DEF GatesInv, GatesTypeOK, Arrive, Enter
  <1> QED  BY <1>1, <1>2, <1>3 DEF GatesInv

LEMMA LimitStep ==
  ASSUME GatesInv, NEW r \in Request, Limit(r)
  PROVE  GatesInv'
  <1>1. /\ phase[r] = "limit" /\ stored[r] = None /\ answer[r] = None /\ asked[r] \in Ask
        /\ Member(r) /\ IsPro(asked[r].by) => r \in wasPro
        /\ UNCHANGED <<tier, asked, stored, wasPro>>
    BY DEF GatesInv, Limit, Passed, Running
  <1>2. \/ \E s \in Status : Answered(r, s)
        \/ /\ asked[r].body.expires # "30d"
           /\ ~ Member(r) => asked[r].body.expires = "1h" /\ asked[r].body.kind = "none"
           /\ \/ Enter(r, "protection") /\ asked[r].body.kind = "password"
              \/ /\ Enter(r, "notify") /\ asked[r].body.kind # "password"
                 /\ Member(r) /\ asked[r].body.notify
              \/ /\ Enter(r, "insert") /\ asked[r].body.kind # "password"
                 /\ ~ (asked[r].body.notify /\ Member(r))
    BY DEF Limit, Caps, AfterProtection, Status
  <1>3. GatesTypeOK'
    BY <1>1, <1>2 DEF GatesInv, GatesTypeOK, Answered, Enter, Phase
  <1>4. Passed(r)' /\ Held(r)'
    BY <1>1, <1>2 DEF GatesInv, GatesTypeOK, Answered, Enter, Passed, Held, Running, Member, IsPro
  <1>5. ASSUME NEW q \in Request, q # r  PROVE Passed(q)' /\ Held(q)'
    BY <1>1, <1>2, <1>5, Others DEF GatesInv, GatesTypeOK, Answered, Enter
  <1> QED  BY <1>3, <1>4, <1>5 DEF GatesInv

LEMMA ReadProtectionStep ==
  ASSUME GatesInv, NEW r \in Request, ReadProtection(r)
  PROVE  GatesInv'
  <1>1. /\ phase[r] = "protection" /\ stored[r] = None /\ answer[r] = None /\ asked[r] \in Ask /\ Member(r)
        /\ asked[r].body.expires # "30d"
        /\ IsPro(asked[r].by) => r \in wasPro
        /\ UNCHANGED <<tier, asked, stored, wasPro>>
    BY DEF GatesInv, ReadProtection, Passed, Running
  <1>2. \/ Answered(r, 403)
        \/ /\ r \in wasPro
           /\ (Enter(r, "notify") /\ asked[r].body.notify) \/ Enter(r, "insert")
    BY <1>1 DEF ReadProtection, AfterProtection
  <1>3. GatesTypeOK'
    BY <1>1, <1>2 DEF GatesInv, GatesTypeOK, Answered, Enter, Phase, Status
  <1>4. Passed(r)' /\ Held(r)'
    BY <1>1, <1>2 DEF GatesInv, GatesTypeOK, Answered, Enter, Passed, Held, Running, Member, IsPro
  <1>5. ASSUME NEW q \in Request, q # r  PROVE Passed(q)' /\ Held(q)'
    BY <1>1, <1>2, <1>5, Others DEF GatesInv, GatesTypeOK, Answered, Enter
  <1> QED  BY <1>3, <1>4, <1>5 DEF GatesInv

LEMMA ReadNotifyStep ==
  ASSUME GatesInv, NEW r \in Request, ReadNotify(r)
  PROVE  GatesInv'
  <1>1. /\ phase[r] = "notify" /\ stored[r] = None /\ answer[r] = None /\ asked[r] \in Ask /\ Member(r)
        /\ asked[r].body.expires # "30d"
        /\ IsPro(asked[r].by) => r \in wasPro
        /\ UNCHANGED <<tier, asked, stored, wasPro>>
    BY DEF GatesInv, ReadNotify, Passed, Running
  <1>2. Answered(r, 403) \/ (r \in wasPro /\ Enter(r, "insert"))
    BY <1>1 DEF ReadNotify
  <1>3. GatesTypeOK'
    BY <1>1, <1>2 DEF GatesInv, GatesTypeOK, Answered, Enter, Phase, Status
  <1>4. Passed(r)' /\ Held(r)'
    BY <1>1, <1>2 DEF GatesInv, GatesTypeOK, Answered, Enter, Passed, Held, Running, Member, IsPro
  <1>5. ASSUME NEW q \in Request, q # r  PROVE Passed(q)' /\ Held(q)'
    BY <1>1, <1>2, <1>5, Others DEF GatesInv, GatesTypeOK, Answered, Enter
  <1> QED  BY <1>3, <1>4, <1>5 DEF GatesInv

LEMMA InsertStep ==
  ASSUME GatesInv, NEW r \in Request, Insert(r)
  PROVE  GatesInv'
  <1> DEFINE body == asked[r].body
             told == Member(r) /\ body.notify
             row == [owner |-> asked[r].by, expires |-> body.expires, password |-> body.password,
                     notify |-> told]
  <1>1. /\ phase[r] = "insert" /\ stored[r] = None /\ asked[r] \in Ask
        /\ body.expires # "30d"
        /\ ~ Member(r) => body.expires = "1h" /\ body.kind = "none"
        /\ body.kind = "password" => r \in wasPro
        /\ Member(r) /\ body.notify => r \in wasPro
        /\ UNCHANGED <<tier, asked, wasPro>>
    BY DEF GatesInv, Insert, Passed
  <1>2. \/ Answered(r, 500) /\ UNCHANGED stored
        \/ Answered(r, 201) /\ stored' = [stored EXCEPT ![r] = row]
    BY DEF Insert
  <1>3. row \in Row
    BY <1>1 DEF Row, Ask, Body
  <1>4. GatesTypeOK'
    BY <1>1, <1>2, <1>3 DEF GatesInv, GatesTypeOK, Answered, Phase, Status
  <1>5. Passed(r)'
    BY <1>1, <1>2 DEF GatesInv, GatesTypeOK, Answered, Passed, Running
  <1>6. Held(r)'
    <2>1. CASE UNCHANGED stored
      BY <2>1, <1>1 DEF Held
    <2>2. CASE Answered(r, 201) /\ stored' = [stored EXCEPT ![r] = row]
      <3>1. stored'[r] = row /\ answer'[r] = 201 /\ asked'[r] = asked[r] /\ wasPro' = wasPro
        BY <2>2, <1>1 DEF Answered, GatesInv, GatesTypeOK
      <3>2. stored'[r].owner = asked[r].by /\ stored'[r].expires = body.expires
        BY <3>1
      <3>3. stored'[r].notify = told
        <4> HIDE DEF told
        <4> QED  BY <3>1
      <3> QED  BY <3>1, <3>2, <3>3, <1>1 DEF Held, Member
    <2> QED  BY <1>2, <2>1, <2>2
  <1>7. ASSUME NEW q \in Request, q # r  PROVE Passed(q)' /\ Held(q)'
    BY <1>1, <1>2, <1>7, Others DEF GatesInv, GatesTypeOK, Answered
  <1> QED  BY <1>4, <1>5, <1>6, <1>7 DEF GatesInv

LEMMA FailStep ==
  ASSUME GatesInv, NEW r \in Request, Fail(r)
  PROVE  GatesInv'
  <1>1. stored[r] = None /\ asked[r] \in Ask
    BY DEF GatesInv, Fail, Passed, Running
  <1>2. GatesTypeOK'
    BY DEF GatesInv, GatesTypeOK, Fail, Answered, Phase, Status
  <1>3. Passed(r)' /\ Held(r)'
    BY <1>1 DEF GatesInv, GatesTypeOK, Fail, Answered, Passed, Held, Running
  <1>4. ASSUME NEW q \in Request, q # r  PROVE Passed(q)' /\ Held(q)'
    BY <1>4, Others DEF GatesInv, GatesTypeOK, Fail, Answered
  <1> QED  BY <1>2, <1>3, <1>4 DEF GatesInv

(* A tier changes under every request at once; those it makes Pro are noted. *)
LEMMA TierStep ==
  ASSUME GatesInv, NEW u \in User, NEW t \in {"free", "pro", "gone"}, TierChanges(u, t)
  PROVE  GatesInv'
  <1>1. GatesTypeOK'
    BY DEF GatesInv, GatesTypeOK, TierChanges
  <1>2. wasPro \subseteq wasPro'
    BY DEF TierChanges
  <1>3. ASSUME NEW q \in Request  PROVE Passed(q)' /\ Held(q)'
    <2>1. Running(q) /\ Member(q) /\ tier'[asked[q].by] = "pro" => q \in wasPro'
      <3>1. CASE asked[q].by = u
        BY <3>1, <1>2 DEF GatesInv, GatesTypeOK, Passed, TierChanges, Running, IsPro
      <3>2. CASE asked[q].by # u
        BY <3>2, <1>2 DEF GatesInv, GatesTypeOK, Passed, TierChanges, Running, IsPro
      <3> QED  BY <3>1, <3>2
    <2>2. UNCHANGED <<phase, asked, answer, stored>>
      BY DEF TierChanges
    <2>3. Passed(q)'
      BY <1>2, <2>1, <2>2 DEF GatesInv, Passed, Running, Member, IsPro
    <2>4. Held(q)'
      BY <1>2, <2>2 DEF GatesInv, Held
    <2> QED  BY <2>3, <2>4
  <1> QED  BY <1>1, <1>3 DEF GatesInv

LEMMA InvNext == GatesInv /\ [GatesNext]_gates => GatesInv'
  <1> SUFFICES ASSUME GatesInv, [GatesNext]_gates  PROVE GatesInv'
    OBVIOUS
  <1>1. ASSUME NEW r \in Request, Serve(r)  PROVE GatesInv'
    BY <1>1, LimitStep, ReadProtectionStep, ReadNotifyStep, InsertStep DEF Serve
  <1>2. ASSUME NEW r \in Request, Fail(r)  PROVE GatesInv'
    BY <1>2, FailStep
  <1>3. ASSUME NEW r \in Request, NEW a \in Ask, Arrive(r, a)  PROVE GatesInv'
    BY <1>3, ArriveStep
  <1>4. ASSUME NEW u \in User, NEW t \in {"free", "pro", "gone"}, TierChanges(u, t)  PROVE GatesInv'
    BY <1>4, TierStep
  <1>5. CASE UNCHANGED gates
    BY <1>5 DEF gates, GatesInv, GatesTypeOK, Passed, Held, Running, Member, IsPro
  <1> QED  BY <1>1, <1>2, <1>3, <1>4, <1>5 DEF GatesNext

(* Every variable of the handlers of POST /api/secrets keeps its type. *)
THEOREM TypeCorrect == GatesSpec => []GatesTypeOK
  <1>1. GatesInv => GatesTypeOK
    BY DEF GatesInv
  <1> QED  BY <1>1, InvInit, InvNext, PTL DEF GatesSpec

(* Nothing is ever stored beyond what the tier allowed during the request, for
   any number of accounts and overlapping requests (routes/secrets.ts:80-166). *)
THEOREM CapsHold == GatesSpec => []GatesHold
  <1>1. GatesInv => GatesHold
    BY DEF GatesInv, GatesHold, Held
  <1> QED  BY <1>1, InvInit, InvNext, PTL DEF GatesSpec

-----------------------------------------------------------------------------
(* The create page: each of its steps is one of the handlers' or changes none
   of their variables. *)

Choices == [expires : Expiry, kind : Kind, password : BOOLEAN]

PageTypeOK ==
    /\ {session, revoked, known, tierRead} \subseteq BOOLEAN
    /\ check \in {"session", "me", "upgrade", "done"}
    /\ mode \in {"anon", "free", "pro"}
    /\ form \in Form
    /\ sending \in {"no", "encrypting", "sending"}
    /\ sending # "no" => clicked \in Choices
    /\ sending = "sending" => mine \in Request

(* What a handler answered with 201 it has stored as it was asked. *)
StoredAsAsked ==
    \A r \in Request : answer[r] = 201 =>
        /\ phase[r] = "done"
        /\ stored[r].expires = asked[r].body.expires
        /\ stored[r].password = asked[r].body.password

AskedAsClicked(r) ==
    /\ r \in Request /\ phase[r] # "unsent"
    /\ asked[r].body.expires = clicked.expires
    /\ asked[r].body.kind = clicked.kind
    /\ asked[r].body.password = clicked.password

SentAsClicked ==
    /\ sending = "sending" => AskedAsClicked(mine)
    /\ ~ OnForm => /\ sending = "no"
                   /\ answer[place.request] = 201
                   /\ AskedAsClicked(place.request)

(* While nothing has ended, the page has read the session and the tier right. *)
ReadRight ==
    /\ tierRead \/ mode = "pro" => session /\ IsPro(Me)
    /\ mode # "anon" \/ check \in {"me", "upgrade"} => session

(* The controls offer what they were made for, *)
Offered ==
    /\ mode = "anon" => form.expires = "1h" /\ form.tab = "none"
    /\ mode = "free" => form.tab \in {"none", "passphrase"}
    /\ mode # "pro" => ~ form.notify

(* and so does what was chosen, *)
ChosenFairly ==
    sending = "encrypting" /\ clicked.expires # "30d" =>
        /\ ~ session => clicked.expires = "1h" /\ clicked.kind = "none"
        /\ clicked.kind = "password" => session /\ IsPro(Me)

(* and what was sent. *)
AskedFairly(r) ==
    LET body == asked[r].body IN
    phase[r] \in {"limit", "protection", "notify"} /\ body.expires # "30d" =>
        /\ ~ Member(r) => body.expires = "1h" /\ body.kind = "none"
        /\ body.kind = "password" => Member(r) /\ IsPro(asked[r].by)
        /\ body.notify /\ Member(r) => IsPro(asked[r].by)

PageInv ==
    /\ GatesInv /\ PageTypeOK
    /\ StoredAsAsked /\ SentAsClicked
    /\ Offered
    /\ ~ revoked => /\ ReadRight /\ ChosenFairly
                    /\ \A r \in Request : AskedFairly(r)
    /\ OfferedIsAccepted

LEMMA PageTypes ==
  ASSUME PageInv
  PROVE  GatesInv /\ GatesTypeOK /\ PageTypeOK /\ form \in Form /\ Me \in User
  BY PageAssumption DEF PageInv, GatesInv, PageTypeOK

LEMMA InitPage == PageInit => PageInv
  <1> SUFFICES ASSUME PageInit  PROVE PageInv
    OBVIOUS
  <1>1. GatesInit /\ None \notin Status
    BY PageAssumption DEF PageInit
  <1>2. GatesInv
    BY <1>1, InvInit
  <1>3. /\ \A r \in Request : phase[r] = "unsent" /\ answer[r] = None
        /\ sending = "no" /\ place = None /\ revoked = FALSE /\ tierRead = FALSE
        /\ mode = "anon" /\ check = "session" /\ known = FALSE /\ session \in BOOLEAN
        /\ form = FreshForm("1h")
    BY DEF PageInit, GatesInit
  <1>4. form \in Form /\ form.expires = "1h" /\ form.tab = "none" /\ ~ form.notify
    BY <1>3 DEF FreshForm, Form, Expiry, Tab
  <1>5. PageTypeOK
    BY <1>3, <1>4 DEF PageTypeOK
  <1>6. StoredAsAsked /\ OfferedIsAccepted /\ \A r \in Request : AskedFairly(r)
    BY <1>1, <1>3 DEF StoredAsAsked, OfferedIsAccepted, AskedFairly, Status
  <1> QED  BY <1>2, <1>3, <1>4, <1>5, <1>6 DEF PageInv, SentAsClicked, OnForm, Offered, ReadRight, ChosenFairly

-----------------------------------------------------------------------------
(* The steps of the handlers. *)

LEMMA PageOrHandler == PageInv /\ [Next]_vars => [GatesNext]_gates
  <1> SUFFICES ASSUME PageInv, [Next]_vars  PROVE GatesNext \/ UNCHANGED gates
    OBVIOUS
  <1>1. CASE SessionAnswers \/ MeAnswers \/ Upgrade
    BY <1>1 DEF SessionAnswers, MeAnswers, Upgrade
  <1>2. CASE Controls
    BY <1>2 DEF Controls, SelectExpiry, OpenTab, ConfirmGenerated, DropGenerated, TypePassword,
       ToggleNotify, TypePassphrase, NewPassphrase, SelectList, Uses
  <1>3. CASE FetchEnds \/ WordsReady
    BY <1>3 DEF FetchEnds, WordsReady, OnlyWords
  <1>4. CASE Click \/ NetworkFails \/ Another \/ Refused \/ Created \/ SessionEnds
    BY <1>4 DEF Click, NetworkFails, Another, Refused, Created, SessionEnds
  <1>5. CASE Encrypted
    <2>1. PICK r \in Request, by \in {Me, Anon} :
            Arrive(r, [by   |-> by,
                       body |-> [expires |-> clicked.expires, kind |-> clicked.kind,
                                 password |-> clicked.password, notify |-> form.notify]])
      BY <1>5 DEF Encrypted, Submits
    <2>2. clicked \in Choices /\ form.notify \in BOOLEAN /\ by \in User \cup {Anon}
      BY <1>5, PageTypes DEF PageTypeOK, Encrypted, Submits, Form
    <2>3. [by   |-> by,
           body |-> [expires |-> clicked.expires, kind |-> clicked.kind,
                     password |-> clicked.password, notify |-> form.notify]] \in Ask
      BY <2>2 DEF Ask, Body, Choices
    <2> QED  BY <2>1, <2>3 DEF GatesNext
  <1>6. CASE TierMoves
    BY <1>6, PageAssumption DEF TierMoves, GatesNext
  <1>7. CASE Served \/ ServerFails
    BY <1>7 DEF Served, ServerFails, GatesNext
  <1>8. CASE UNCHANGED vars
    BY <1>8 DEF vars
  <1> QED  BY <1>1, <1>2, <1>3, <1>4, <1>5, <1>6, <1>7, <1>8 DEF Next, Continues

(* A request stays what it was when it was sent, and its answer what it is. *)
LEMMA GatesKeep ==
  ASSUME GatesInv, [GatesNext]_gates, NEW q \in Request, phase[q] # "unsent"
  PROVE  /\ asked'[q] = asked[q] /\ phase'[q] # "unsent"
         /\ phase[q] = "done" => /\ phase'[q] = "done" /\ answer'[q] = answer[q]
                                 /\ stored'[q] = stored[q]
  <1>1. GatesTypeOK
    BY DEF GatesInv
  <1>2. ASSUME NEW r \in Request, Serve(r) \/ Fail(r) \/ \E a \in Ask : Arrive(r, a)
        PROVE  /\ asked'[q] = asked[q] /\ phase'[q] # "unsent"
               /\ phase[q] = "done" => /\ phase'[q] = "done" /\ answer'[q] = answer[q]
                                       /\ stored'[q] = stored[q]
    <2>1. CASE q # r
      BY <1>1, <1>2, <2>1 DEF GatesTypeOK, Serve, Limit, Caps, AfterProtection, ReadProtection,
         ReadNotify, Insert, Fail, Arrive, Enter, Answered
    <2>2. CASE q = r
      BY <1>1, <1>2, <2>2 DEF GatesTypeOK, Serve, Limit, Caps, AfterProtection, ReadProtection,
         ReadNotify, Insert, Fail, Arrive, Enter, Answered, Running
    <2> QED  BY <2>1, <2>2
  <1>3. ASSUME NEW u \in User, NEW t \in {"free", "pro", "gone"}, TierChanges(u, t)
        PROVE  UNCHANGED <<phase, asked, answer, stored>>
    BY <1>3 DEF TierChanges
  <1>4. CASE UNCHANGED gates
    BY <1>4 DEF gates
  <1> QED  BY <1>2, <1>3, <1>4 DEF GatesNext

LEMMA StoredStep ==
  ASSUME GatesInv, StoredAsAsked, [GatesNext]_gates
  PROVE  StoredAsAsked'
  <1> SUFFICES ASSUME NEW q \in Request, answer'[q] = 201
               PROVE  /\ phase'[q] = "done"
                      /\ stored'[q].expires = asked'[q].body.expires
                      /\ stored'[q].password = asked'[q].body.password
    BY DEF StoredAsAsked
  <1>1. GatesTypeOK
    BY DEF GatesInv
  <1>2. CASE answer[q] = 201
    BY <1>2, GatesKeep DEF StoredAsAsked
  <1>3. CASE answer[q] # 201
    <2>1. PICK r \in Request : Serve(r) \/ Fail(r) \/ \E a \in Ask : Arrive(r, a)
      BY <1>3 DEF GatesNext, gates, TierChanges
    <2>2. q = r /\ Insert(r)
      BY <1>1, <1>3, <2>1 DEF GatesTypeOK, Serve, Limit, Caps, AfterProtection, ReadProtection,
         ReadNotify, Insert, Fail, Arrive, Enter, Answered
    <2>3. /\ stored' = [stored EXCEPT ![q] =
                [owner |-> asked[q].by, expires |-> asked[q].body.expires,
                 password |-> asked[q].body.password,
                 notify |-> Member(q) /\ asked[q].body.notify]]
          /\ phase' = [phase EXCEPT ![q] = "done"] /\ asked' = asked
      BY <1>1, <1>3, <2>2 DEF GatesTypeOK, Insert, Answered
    <2> QED  BY <1>1, <2>3 DEF GatesTypeOK
  <1> QED  BY <1>2, <1>3

-----------------------------------------------------------------------------
(* The steps of the page. *)

LEMMA FormTypes ==
  /\ \A x \in Expiry : FreshForm(x) \in Form
  /\ \A f \in Form : Choice(f) \in Choices
  BY DEF FreshForm, Form, Expiry, Tab, Choice, Choices, Kind

(* What the controls do: the form stays a form of the same mode. *)
LEMMA ControlsStep ==
  ASSUME PageInv, Controls
  PROVE  /\ OnForm /\ form' \in Form
         /\ UNCHANGED <<gates, session, revoked, known, check, tierRead, mode, clicked,
                        sending, mine, place>>
         /\ mode = "anon" => form'.expires = form.expires /\ form'.tab \in {form.tab, "none"}
         /\ mode = "free" => form'.tab \in {form.tab, "none", "passphrase"}
         /\ mode # "pro" => form'.notify = form.notify
  <1> USE PageTypes
  <1>1. CASE SelectExpiry
    BY <1>1, PageAssumption DEF SelectExpiry, Uses, Form
  <1>2. ASSUME NEW tab \in Tried, OpenTab(tab)
        PROVE  /\ form' \in Form /\ OnForm
               /\ UNCHANGED <<gates, session, revoked, known, check, tierRead, mode, clicked,
                              sending, mine, place>>
               /\ form'.tab = tab /\ form'.expires = form.expires /\ form'.notify = form.notify
               /\ Unlocked(tab)
    BY <1>2, PageAssumption DEF OpenTab, Uses, Form
  <1>3. CASE ConfirmGenerated \/ DropGenerated \/ TypePassword \/ TypePassphrase
    BY <1>3 DEF ConfirmGenerated, DropGenerated, TypePassword, TypePassphrase, Uses, Form
  <1>4. CASE ToggleNotify
    BY <1>4 DEF ToggleNotify, Uses, Form
  <1>5. CASE NewPassphrase \/ SelectList
    BY <1>5 DEF NewPassphrase, SelectList, Uses
  <1> QED  BY <1>1, <1>2, <1>3, <1>4, <1>5, PageAssumption DEF Controls, Unlocked, Tab

(* What a chunk that comes, or does not, changes of the form. *)
LEMMA ChunkStep ==
  ASSUME PageInv, FetchEnds \/ WordsReady
  PROVE  /\ form' \in Form
         /\ UNCHANGED <<gates, session, revoked, known, check, tierRead, mode, clicked,
                        sending, mine, place>>
         /\ form'.expires = form.expires /\ form'.tab = form.tab /\ form'.notify = form.notify
  <1>1. CASE FetchEnds
    BY <1>1, PageTypes DEF FetchEnds, OnlyWords
  <1>2. CASE WordsReady
    BY <1>2, PageTypes DEF WordsReady, OnlyWords, Draw, Form
  <1> QED  BY <1>1, <1>2

LEMMA PageTypesStep == PageInv /\ [Next]_vars => PageTypeOK'
  <1> SUFFICES ASSUME PageInv, [Next]_vars  PROVE PageTypeOK'
    OBVIOUS
  <1> USE PageTypes
  <1>1. CASE SessionAnswers \/ MeAnswers
    BY <1>1 DEF SessionAnswers, MeAnswers, OnlyCheck, PageTypeOK
  <1>2. CASE Upgrade
    BY <1>2, FormTypes, PageAssumption DEF Upgrade, OnlyCheck, PageTypeOK
  <1>3. CASE Controls \/ FetchEnds \/ WordsReady
    BY <1>3, ControlsStep, ChunkStep DEF PageTypeOK
  <1>4. CASE Click
    BY <1>4, FormTypes DEF Click, PageTypeOK
  <1>5. CASE Encrypted
    BY <1>5 DEF Encrypted, Submits, PageTypeOK
  <1>6. CASE Refused \/ NetworkFails \/ Created
    BY <1>6 DEF Refused, NetworkFails, Created, PageTypeOK
  <1>7. CASE Another
    <2>1. sending = "no"
      BY <1>7 DEF Another, PageInv, SentAsClicked
    <2> QED  BY <1>7, <2>1, FormTypes DEF Another, PageTypeOK, Expiry
  <1>8. CASE SessionEnds \/ TierMoves
    BY <1>8 DEF SessionEnds, TierMoves, PageTypeOK
  <1>9. CASE Served \/ ServerFails \/ UNCHANGED vars
    BY <1>9 DEF Served, ServerFails, vars, page, PageTypeOK
  <1> QED  BY <1>1, <1>2, <1>3, <1>4, <1>5, <1>6, <1>7, <1>8, <1>9 DEF Next, Continues

LEMMA SentStep == PageInv /\ [Next]_vars => SentAsClicked'
  <1> SUFFICES ASSUME PageInv, [Next]_vars  PROVE SentAsClicked'
    OBVIOUS
  <1>1. GatesInv /\ [GatesNext]_gates /\ SentAsClicked /\ StoredAsAsked
    BY PageOrHandler DEF PageInv
  <1>2. ASSUME UNCHANGED <<sending, mine, clicked, place>>  PROVE SentAsClicked'
    <2>1. ASSUME NEW r, AskedAsClicked(r)  PROVE AskedAsClicked(r)'
      BY <1>1, <1>2, <2>1, GatesKeep DEF AskedAsClicked
    <2>2. ~ OnForm => (answer[place.request] = 201)'
      BY <1>1, <1>2, GatesKeep DEF SentAsClicked, AskedAsClicked, StoredAsAsked
    <2> QED  BY <1>1, <1>2, <2>1, <2>2 DEF SentAsClicked, OnForm
  <1>3. CASE SessionAnswers \/ MeAnswers \/ Upgrade \/ Controls \/ FetchEnds \/ WordsReady
    BY <1>2, <1>3, ControlsStep, ChunkStep DEF SessionAnswers, MeAnswers, Upgrade, OnlyCheck
  <1>4. CASE Click
    BY <1>1, <1>4 DEF Click, SentAsClicked, OnForm
  <1>5. CASE Encrypted
    <2>1. PICK r \in Request, by \in {Me, Anon} :
            /\ mine' = r
            /\ Arrive(r, [by   |-> by,
                          body |-> [expires |-> clicked.expires, kind |-> clicked.kind,
                                    password |-> clicked.password, notify |-> form.notify]])
      BY <1>5 DEF Encrypted, Submits
    <2>2. UNCHANGED <<clicked, place>> /\ sending = "encrypting" /\ sending' = "sending"
      BY <1>5 DEF Encrypted, Submits
    <2>3. AskedAsClicked(mine)'
      BY <1>1, <2>1, <2>2 DEF AskedAsClicked, Arrive, Enter, GatesInv, GatesTypeOK
    <2> QED  BY <1>1, <2>2, <2>3 DEF SentAsClicked, OnForm
  <1>6. CASE Refused \/ NetworkFails
    BY <1>1, <1>6 DEF Refused, NetworkFails, SentAsClicked, OnForm
  <1>7. CASE Created
    <2>1. /\ sending = "sending" /\ sending' = "no" /\ answer[mine] = 201
          /\ place'.request = mine /\ UNCHANGED <<gates, clicked>>
      BY <1>7 DEF Created
    <2>2. AskedAsClicked(mine)
      BY <1>1, <2>1 DEF SentAsClicked
    <2> QED  BY <2>1, <2>2 DEF SentAsClicked, AskedAsClicked, gates
  <1>8. CASE Another
    BY <1>1, <1>8 DEF Another, SentAsClicked, OnForm
  <1>9. CASE SessionEnds \/ TierMoves \/ Served \/ ServerFails \/ UNCHANGED vars
    BY <1>2, <1>9 DEF SessionEnds, TierMoves, Served, ServerFails, page, vars
  <1> QED  BY <1>3, <1>4, <1>5, <1>6, <1>7, <1>8, <1>9 DEF Next, Continues

LEMMA OfferedStep == PageInv /\ [Next]_vars => Offered'
  <1> SUFFICES ASSUME PageInv, [Next]_vars  PROVE Offered'
    OBVIOUS
  <1>1. Offered /\ PageTypeOK
    BY DEF PageInv
  <1>2. CASE Upgrade \/ Another
    <2>1. /\ form'.tab = "none" /\ ~ form'.notify
          /\ mode' = "anon" => form'.expires = "1h"
      BY <1>2 DEF Upgrade, Another, FreshForm
    <2> QED  BY <2>1 DEF Offered
  <1>3. CASE Controls \/ FetchEnds \/ WordsReady
    BY <1>1, <1>3, ControlsStep, ChunkStep DEF Offered
  <1>4. CASE ~ (Upgrade \/ Another \/ Controls \/ FetchEnds \/ WordsReady)
    <2>1. UNCHANGED <<mode, form>>
      BY <1>4 DEF Next, Continues, SessionAnswers, MeAnswers, Click, Encrypted, Submits, Refused, Created,
         NetworkFails, SessionEnds, TierMoves, Served, ServerFails, page, vars
    <2> QED  BY <1>1, <2>1 DEF Offered
  <1> QED  BY <1>2, <1>3, <1>4

(* What has ended stays so; until then the tier only rises. *)
LEMMA NothingEnds ==
  ASSUME PageInv, [Next]_vars, ~ revoked'
  PROVE  /\ ~ revoked
         /\ session' = session
         /\ \A u \in User : IsPro(u) => IsPro(u)'
  <1> USE PageTypes
  <1>1. CASE SessionEnds
    BY <1>1 DEF SessionEnds
  <1>2. CASE TierMoves
    <2>1. PICK t \in {"free", "pro", "gone"} :
            TierChanges(Me, t) /\ revoked' = (revoked \/ t # "pro")
      BY <1>2 DEF TierMoves
    <2>2. ~ revoked /\ t = "pro" /\ session' = session
      BY <1>2, <2>1 DEF TierMoves
    <2>3. tier' = [tier EXCEPT ![Me] = "pro"] /\ tier \in [User -> {"free", "pro", "gone"}]
      BY <2>1, <2>2 DEF TierChanges, GatesTypeOK
    <2> QED  BY <2>2, <2>3 DEF IsPro
  <1>3. CASE Encrypted
    BY <1>3 DEF Encrypted, Submits, Arrive, IsPro
  <1>4. CASE Controls \/ FetchEnds \/ WordsReady
    BY <1>4, ControlsStep, ChunkStep DEF gates, IsPro
  <1>5. CASE Served \/ ServerFails
    BY <1>5 DEF Served, ServerFails, Serve, Limit, ReadProtection, ReadNotify, Insert, Fail, page, IsPro
  <1>6. CASE SessionAnswers \/ MeAnswers \/ Upgrade
    <2>1. OnlyCheck /\ UNCHANGED gates
      BY <1>6 DEF SessionAnswers, MeAnswers, Upgrade
    <2> QED  BY <2>1 DEF OnlyCheck, gates, IsPro
  <1>7. CASE Click \/ Refused \/ Created \/ NetworkFails \/ Another \/ UNCHANGED vars
    BY <1>7 DEF Click, Refused, Created, NetworkFails, Another, gates, vars, page, IsPro
  <1> QED  BY <1>1, <1>2, <1>3, <1>4, <1>5, <1>6, <1>7 DEF Next, Continues

LEMMA ReadStep ==
  ASSUME PageInv, [Next]_vars, ~ revoked'
  PROVE  ReadRight'
  <1>1. ReadRight /\ session' = session /\ (IsPro(Me) => IsPro(Me)')
    BY NothingEnds, PageTypes DEF PageInv
  <1>2. CASE SessionAnswers
    <2>1. UNCHANGED <<tierRead, mode>> /\ (check' = "done" \/ (check' = "me" /\ session))
      BY <1>2 DEF SessionAnswers
    <2> QED  BY <1>1, <2>1 DEF ReadRight
  <1>7. CASE Another
    BY <1>1, <1>7 DEF Another, ReadRight
  <1>3. CASE MeAnswers
    <2>1. /\ check = "me" /\ UNCHANGED <<mode, session, tier>> /\ check' = "upgrade"
          /\ tierRead' = (session /\ IsPro(Me)) \/ tierRead' = FALSE
      BY <1>3 DEF MeAnswers, OnlyCheck, gates
    <2>2. session /\ (mode = "pro" => IsPro(Me))
      BY <1>1, <2>1 DEF ReadRight
    <2>3. tierRead' => IsPro(Me)
      BY <2>1
    <2> QED  BY <1>1, <2>1, <2>2, <2>3 DEF ReadRight
  <1>4. CASE Upgrade
    <2>1. check = "upgrade" /\ tierRead' = FALSE /\ (mode' = "pro" => tierRead)
      BY <1>4 DEF Upgrade
    <2>2. session /\ (mode' = "pro" => IsPro(Me))
      BY <1>1, <2>1 DEF ReadRight
    <2> QED  BY <1>1, <2>1, <2>2 DEF ReadRight
  <1>5. CASE Controls \/ FetchEnds \/ WordsReady
    BY <1>1, <1>5, ControlsStep, ChunkStep DEF ReadRight
  <1>6. CASE ~ (SessionAnswers \/ Another \/ MeAnswers \/ Upgrade \/ Controls \/ FetchEnds \/ WordsReady)
    <2>1. UNCHANGED <<mode, tierRead, check>>
      BY <1>6 DEF Next, Continues, Click, Encrypted, Submits, Refused, Created,
         NetworkFails, SessionEnds, TierMoves, Served, ServerFails, page, vars
    <2> QED  BY <1>1, <2>1 DEF ReadRight
  <1> QED  BY <1>2, <1>3, <1>4, <1>5, <1>6, <1>7

LEMMA ChosenStep ==
  ASSUME PageInv, [Next]_vars, ~ revoked'
  PROVE  ChosenFairly'
  <1>1. /\ ChosenFairly /\ ReadRight /\ Offered /\ mode \in {"anon", "free", "pro"}
        /\ session' = session /\ (IsPro(Me) => IsPro(Me)')
    BY NothingEnds, PageTypes DEF PageInv, PageTypeOK
  <1>2. CASE Click
    <2>1. clicked' = Choice(form) /\ UNCHANGED <<gates, session>>
      BY <1>2 DEF Click
    <2>2. /\ mode = "anon" => clicked'.expires = "1h" /\ clicked'.kind = "none"
          /\ mode = "free" => clicked'.kind # "password"
          /\ mode = "pro" => session /\ IsPro(Me)
          /\ mode # "anon" => session
      BY <1>1, <2>1 DEF Choice, Offered, ReadRight
    <2> QED  BY <1>1, <2>1, <2>2 DEF ChosenFairly
  <1>3. CASE Encrypted \/ Refused \/ Created \/ NetworkFails
    BY <1>3 DEF Encrypted, Submits, Refused, Created, NetworkFails, ChosenFairly
  <1>4. CASE Controls \/ FetchEnds \/ WordsReady
    BY <1>1, <1>4, ControlsStep, ChunkStep DEF ChosenFairly
  <1>5. CASE Another
    BY <1>5 DEF Another, PageInv, SentAsClicked, ChosenFairly
  <1>6. CASE ~ (Click \/ Encrypted \/ Refused \/ Created \/ NetworkFails \/ Controls \/ FetchEnds
                \/ WordsReady \/ Another)
    <2>1. UNCHANGED <<sending, clicked>>
      BY <1>6 DEF Next, Continues, SessionAnswers, MeAnswers, Upgrade, OnlyCheck, SessionEnds, TierMoves,
         Served, ServerFails, page, vars
    <2> QED  BY <1>1, <2>1 DEF ChosenFairly
  <1> QED  BY <1>2, <1>3, <1>4, <1>5, <1>6
(* The steps that send or answer no request. *)
LEMMA Quiet ==
  ASSUME PageInv, [Next]_vars, ~ (Encrypted \/ Served \/ ServerFails)
  PROVE  UNCHANGED <<phase, asked, answer>>
  <1>1. CASE SessionAnswers \/ MeAnswers \/ Upgrade
    BY <1>1 DEF SessionAnswers, MeAnswers, Upgrade, gates
  <1>2. CASE Controls \/ FetchEnds \/ WordsReady
    BY <1>2, ControlsStep, ChunkStep DEF gates
  <1>3. CASE Click \/ Refused \/ Created \/ NetworkFails \/ Another \/ SessionEnds \/ UNCHANGED vars
    BY <1>3 DEF Click, Refused, Created, NetworkFails, Another, SessionEnds, gates, vars
  <1>4. CASE TierMoves
    BY <1>4 DEF TierMoves, TierChanges
  <1> QED  BY <1>1, <1>2, <1>3, <1>4 DEF Next, Continues

(* A handler goes on from await to await, and asks nothing else. *)
LEMMA Onward ==
  ASSUME PageInv, Served \/ ServerFails, NEW q \in Request
  PROVE  /\ UNCHANGED <<asked, tier>>
         /\ phase'[q] \in {"limit", "protection", "notify"}
              => phase[q] \in {"limit", "protection", "notify"}
  <1>1. GatesTypeOK
    BY PageTypes
  <1>2. PICK r \in Request : Serve(r) \/ Fail(r)
    BY DEF Served, ServerFails
  <1>3. CASE q # r
    BY <1>1, <1>2, <1>3 DEF GatesTypeOK, Serve, Limit, Caps, AfterProtection, ReadProtection,
       ReadNotify, Insert, Fail, Enter, Answered
  <1>4. CASE q = r
    BY <1>1, <1>2, <1>4 DEF GatesTypeOK, Serve, Limit, Caps, AfterProtection, ReadProtection,
       ReadNotify, Insert, Fail, Enter, Answered
  <1> QED  BY <1>3, <1>4

(* A request on its way was chosen, or was on its way before. *)
LEMMA AskedStep ==
  ASSUME PageInv, [Next]_vars, ~ revoked', NEW q \in Request
  PROVE  AskedFairly(q)'
  <1>1. /\ AskedFairly(q) /\ ChosenFairly /\ ReadRight /\ Offered
        /\ session' = session /\ \A u \in User : IsPro(u) => IsPro(u)'
    BY NothingEnds DEF PageInv
  <1>2. GatesTypeOK /\ PageTypeOK /\ Me \in User /\ Anon \notin User
    BY PageTypes, GatesAssumption
  <1>3. (phase[q] # "unsent" => asked[q] \in Ask)
    BY DEF PageInv, GatesInv, Passed
  <1>4. ASSUME asked'[q] = asked[q],
               phase'[q] \in {"limit", "protection", "notify"}
                 => phase[q] \in {"limit", "protection", "notify"}
        PROVE  AskedFairly(q)'
    <2>1. SUFFICES ASSUME phase'[q] \in {"limit", "protection", "notify"}
                   PROVE  AskedFairly(q)'
      BY DEF AskedFairly
    <2>2. Member(q) => asked[q].by \in User
      BY <1>3, <1>4, <2>1 DEF Ask, Member
    <2> QED  BY <1>1, <1>4, <2>1, <2>2 DEF AskedFairly, Member
  <1>5. CASE ~ (Encrypted \/ Served \/ ServerFails)
    BY <1>4, <1>5, Quiet
  <1>6. CASE Served \/ ServerFails
    BY <1>4, <1>6, Onward
  <1>7. CASE Encrypted
    <2>1. PICK r \in Request, by \in {Me, Anon} :
            /\ by = Me => session
            /\ Arrive(r, [by   |-> by,
                          body |-> [expires |-> clicked.expires, kind |-> clicked.kind,
                                    password |-> clicked.password, notify |-> form.notify]])
            /\ revoked' = (revoked \/ (session /\ by = Anon))
      BY <1>7 DEF Encrypted, Submits
    <2>2. CASE q # r
      BY <1>2, <1>4, <2>1, <2>2 DEF Arrive, Enter, GatesTypeOK
    <2>3. CASE q = r
      <3>1. /\ asked'[q].by = by
            /\ asked'[q].body = [expires |-> clicked.expires, kind |-> clicked.kind,
                                 password |-> clicked.password, notify |-> form.notify]
            /\ UNCHANGED tier
        BY <1>2, <2>1, <2>3 DEF Arrive, GatesTypeOK
      <3>2. sending = "encrypting" /\ (by = Anon => ~ session) /\ (by # Anon => by = Me /\ session)
        BY <1>7, <2>1 DEF Encrypted, Submits
      <3>3. form.notify => IsPro(Me)
        BY <1>1, <1>2 DEF Offered, ReadRight
      <3>4. clicked.expires # "30d" =>
              /\ by = Anon => clicked.expires = "1h" /\ clicked.kind = "none"
              /\ clicked.kind = "password" => by # Anon /\ IsPro(Me)
        BY <1>1, <3>2 DEF ChosenFairly
      <3> QED  BY <3>1, <3>2, <3>3, <3>4 DEF AskedFairly, Member, IsPro
    <2> QED  BY <2>2, <2>3
  <1> QED  BY <1>5, <1>6, <1>7

(* What is refused was not offered. *)
LEMMA RefusedStep == PageInv /\ [Next]_vars => OfferedIsAccepted'
  <1> SUFFICES ASSUME PageInv, [Next]_vars, ~ revoked',
                      NEW q \in Request, answer'[q] \in {400, 403}
               PROVE  asked'[q].body.expires = "30d"
    BY DEF OfferedIsAccepted
  <1>1. /\ GatesTypeOK /\ ~ revoked /\ Passed(q) /\ AskedFairly(q)
        /\ answer[q] \in {400, 403} => asked[q].body.expires = "30d"
    BY NothingEnds DEF PageInv, GatesInv, OfferedIsAccepted
  <1>2. CASE ~ (Encrypted \/ Served \/ ServerFails)
    BY <1>1, <1>2, Quiet
  <1>3. CASE Encrypted
    <2>1. PICK r \in Request : \E a : Arrive(r, a)
      BY <1>3 DEF Encrypted, Submits
    <2>2. answer' = answer /\ phase[r] = "unsent" /\ \E a : asked' = [asked EXCEPT ![r] = a]
      BY <2>1 DEF Arrive, Enter
    <2>3. answer[q] # None /\ phase[r] = "unsent"
      BY <2>2, PageAssumption DEF Status
    <2>4. q # r
      BY <2>3 DEF PageInv, GatesInv, Passed
    <2> QED  BY <1>1, <2>2, <2>4 DEF GatesTypeOK
  <1>4. CASE Served \/ ServerFails
    <2>1. PICK r \in Request : Serve(r) \/ Fail(r)
      BY <1>4 DEF Served, ServerFails
    <2>2. asked' = asked
      BY <1>4, Onward
    <2>3. CASE q # r \/ Fail(r) \/ Insert(r)
      BY <1>1, <2>1, <2>2, <2>3 DEF GatesTypeOK, Serve, Limit, Caps, AfterProtection, ReadProtection,
         ReadNotify, Insert, Fail, Enter, Answered
    <2>4. CASE q = r /\ Limit(r)
      BY <1>1, <2>2, <2>4 DEF GatesTypeOK, Limit, Caps, AfterProtection, Enter, Answered, AskedFairly
    <2>5. CASE q = r /\ (ReadProtection(r) \/ ReadNotify(r))
      BY <1>1, <2>2, <2>5 DEF GatesTypeOK, ReadProtection, ReadNotify, AfterProtection, Enter,
         Answered, AskedFairly, Passed
    <2> QED  BY <2>1, <2>3, <2>4, <2>5 DEF Serve
  <1> QED  BY <1>2, <1>3, <1>4

LEMMA StepPage == PageInv /\ [Next]_vars => PageInv'
  <1> SUFFICES ASSUME PageInv, [Next]_vars  PROVE PageInv'
    OBVIOUS
  <1>1. GatesInv' /\ StoredAsAsked'
    BY PageOrHandler, InvNext, StoredStep DEF PageInv
  <1>2. PageTypeOK' /\ SentAsClicked' /\ Offered' /\ OfferedIsAccepted'
    BY PageTypesStep, SentStep, OfferedStep, RefusedStep
  <1>3. ~ revoked' => /\ ReadRight' /\ ChosenFairly'
                      /\ \A r \in Request : AskedFairly(r)'
    BY ReadStep, ChosenStep, AskedStep
  <1> QED  BY <1>1, <1>2, <1>3 DEF PageInv

LEMMA PageInvariant == Spec => []PageInv
  <1> QED  BY InitPage, StepPage, PTL DEF Spec

(* The page's variables keep their types: what its handlers read after an await
   is there. *)
THEOREM PageTypeCorrect == Spec => []PageTypeOK
  <1>1. PageInv => PageTypeOK
    BY DEF PageInv
  <1> QED  BY <1>1, PageInvariant, PTL

(* Behind the page, POST /api/secrets takes only the steps it takes for any
   requests: what is proved of it above holds of the two together. *)
THEOREM PageRefinesGates == Spec => GatesSpec
  <1>1. PageInit => GatesInit
    BY DEF PageInit
  <1> QED  BY <1>1, PageInvariant, PageOrHandler, PTL DEF Spec, GatesSpec

(* What is stored is what the controls said together at the click, however
   they were used or replaced while it was encrypted and sent. *)
THEOREM StoredIsChosen == Spec => []StoredAsChosen
  <1>1. PageInv => StoredAsChosen
    BY DEF PageInv, StoredAsChosen, SentAsClicked, StoredAsAsked, AskedAsClicked
  <1> QED  BY <1>1, PageInvariant, PTL

(* The server refuses, for its tier, nothing the page lets anybody choose but
   thirty days, unless the session, the account or Pro has ended since. *)
THEOREM AcceptedIsOffered == Spec => []OfferedIsAccepted
  <1>1. PageInv => OfferedIsAccepted
    BY DEF PageInv
  <1> QED  BY <1>1, PageInvariant, PTL
-----------------------------------------------------------------------------
(* The text that is sent (Sealing): rounding up, for any unit. *)

LEMMA Division ==
  ASSUME NEW a \in Nat, NEW n \in Nat \ {0}
  PROVE  /\ a \div n \in Nat /\ a % n \in 0 .. n - 1
         /\ a = n * (a \div n) + (a % n)
  OBVIOUS

LEMMA MultiplesApart ==
  ASSUME NEW p \in Nat, NEW q \in Nat, NEW n \in Nat \ {0}, n * p < n * q
  PROVE  n * p <= n * q - n
  <1>1. p < q
    <2>1. SUFFICES ASSUME p >= q  PROVE FALSE
      OBVIOUS
    <2>2. n * p = n * q + n * (p - q) /\ n * (p - q) >= 0
      BY <2>1
    <2>3. n * p \in Int /\ n * q \in Int /\ n * (p - q) \in Int
      OBVIOUS
    <2> QED  BY <2>2, <2>3
  <1>2. n * q = n * p + n + n * (q - p - 1) /\ n * (q - p - 1) >= 0
    BY <1>1
  <1>3. n * p \in Int /\ n * q \in Int /\ n * (q - p - 1) \in Int
    OBVIOUS
  <1> QED  BY <1>2, <1>3

LEMMA RoundedUp ==
  ASSUME NEW n \in Nat, NEW unit \in Nat \ {0}
  PROVE  /\ RoundUp(n, unit) \in n .. n + unit - 1
         /\ RoundUp(n, unit) % unit = 0
         /\ \A k \in n .. RoundUp(n, unit) - 1 : k % unit # 0
  <1> DEFINE top == n + unit - 1
             q == top \div unit
             r == top % unit
  <1>1. top \in Nat
    OBVIOUS
  <1>2. q \in Nat /\ r \in 0 .. unit - 1 /\ top = unit * q + r
    BY <1>1, Division
  <1>3. RoundUp(n, unit) = top - r
    BY DEF RoundUp
  <1>4. unit * q \in Int
    BY <1>2
  <1> HIDE DEF q, r
  <1>5. RoundUp(n, unit) = unit * q /\ unit * q \in n .. n + unit - 1
    BY <1>2, <1>3, <1>4
  <1>6. (unit * q) % unit = 0
    <2> DEFINE s == (unit * q) % unit
               p == (unit * q) \div unit
    <2>1. unit * q \in Nat
      BY <1>5
    <2>2. p \in Nat /\ s \in 0 .. unit - 1 /\ unit * q = unit * p + s
      BY <2>1, Division
    <2> HIDE DEF p, s
    <2>3. unit * p \in Int
      BY <2>2
    <2>4. ~ (unit * p < unit * q)
      BY <1>2, <1>4, <2>2, <2>3, MultiplesApart
    <2>5. s = 0
      BY <1>4, <2>2, <2>3, <2>4
    <2> QED  BY <2>5 DEF s
  <1>7. ASSUME NEW k \in n .. unit * q - 1, k % unit = 0  PROVE FALSE
    <2>1. k \in Nat /\ k < unit * q
      BY <1>4
    <2>2. k \div unit \in Nat /\ k = unit * (k \div unit)
      BY <1>7, <2>1, Division
    <2>3. k <= unit * q - unit
      BY <1>2, <2>1, <2>2, MultiplesApart
    <2> QED  BY <1>4, <1>5, <2>1, <2>3
  <1> QED  BY <1>5, <1>6, <1>7

-----------------------------------------------------------------------------
(* The tiers of padding.ts, for the lengths that a text can have. *)

LEMMA Powers ==
  /\ \A k : k = 0 => 2^k = 1
  /\ \A k : k = 1 => 2^k = 2
  /\ \A k : k = 2 => 2^k = 4
  /\ \A k : k = 3 => 2^k = 8
  /\ \A k : k = 4 => 2^k = 16
  /\ \A k : k = 5 => 2^k = 32
  /\ \A k : k = 6 => 2^k = 64
  /\ \A k : k = 7 => 2^k = 128
  /\ \A k : k = 8 => 2^k = 256
  /\ \A k : k = 9 => 2^k = 512
  /\ \A k : k = 10 => 2^k = 1024
  /\ \A k : k = 11 => 2^k = 2048
  /\ \A k : k = 12 => 2^k = 4096
  /\ \A k : k = 13 => 2^k = 8192
  /\ \A k : k = 14 => 2^k = 16384
  /\ \A k : k = 15 => 2^k = 32768
  /\ \A k : k = 16 => 2^k = 65536
  /\ \A k : k = 17 => 2^k = 131072
  /\ \A k : k = 18 => 2^k = 262144
  /\ \A k : k = 19 => 2^k = 524288
  /\ \A k : k = 20 => 2^k = 1048576
  /\ \A k : k = 21 => 2^k = 2097152
  <1>1. \A k : k = 0 => 2^k = 1
    OBVIOUS
  <1>2. \A k : k = 1 => 2^k = 2
    OBVIOUS
  <1>3. \A k : k = 2 => 2^k = 4
    OBVIOUS
  <1>4. \A k : k = 3 => 2^k = 8
    OBVIOUS
  <1>5. \A k : k = 4 => 2^k = 16
    OBVIOUS
  <1>6. \A k : k = 5 => 2^k = 32
    OBVIOUS
  <1>7. \A k : k = 6 => 2^k = 64
    OBVIOUS
  <1>8. \A k : k = 7 => 2^k = 128
    OBVIOUS
  <1>9. \A k : k = 8 => 2^k = 256
    OBVIOUS
  <1>10. \A k : k = 9 => 2^k = 512
    OBVIOUS
  <1>11. \A k : k = 10 => 2^k = 1024
    OBVIOUS
  <1>12. \A k : k = 11 => 2^k = 2048
    OBVIOUS
  <1>13. \A k : k = 12 => 2^k = 4096
    OBVIOUS
  <1>14. \A k : k = 13 => 2^k = 8192
    OBVIOUS
  <1>15. \A k : k = 14 => 2^k = 16384
    OBVIOUS
  <1>16. \A k : k = 15 => 2^k = 32768
    OBVIOUS
  <1>17. \A k : k = 16 => 2^k = 65536
    OBVIOUS
  <1>18. \A k : k = 17 => 2^k = 131072
    OBVIOUS
  <1>19. \A k : k = 18 => 2^k = 262144
    OBVIOUS
  <1>20. \A k : k = 19 => 2^k = 524288
    OBVIOUS
  <1>21. \A k : k = 20 => 2^k = 1048576
    OBVIOUS
  <1>22. \A k : k = 21 => 2^k = 2097152
    OBVIOUS
  <1> QED  BY <1>1, <1>2, <1>3, <1>4, <1>5, <1>6, <1>7, <1>8, <1>9, <1>10, <1>11,
              <1>12, <1>13, <1>14, <1>15, <1>16, <1>17, <1>18, <1>19, <1>20, <1>21, <1>22

LEMMA Log2Is ==
  ASSUME NEW n \in Nat, NEW e \in 0 .. 20, 2^e <= n, n < 2^(e + 1)
  PROVE  Log2(n) = e
  <1>1. \A d \in 0 .. 20 : 2^d \in Nat /\ 2^(d + 1) \in Nat
    BY Powers
  <1>2. \A c, d \in 0 .. 20 : c < d => 2^(c + 1) <= 2^d
    BY Powers
  <1>3. ASSUME NEW d \in 0 .. 20, 2^d <= n, n < 2^(d + 1)  PROVE d = e
    <2>1. d < e => 2^(d + 1) <= 2^e
      BY <1>2
    <2>2. e < d => 2^(e + 1) <= 2^d
      BY <1>2
    <2>3. 2^d \in Nat /\ 2^e \in Nat /\ 2^(d + 1) \in Nat /\ 2^(e + 1) \in Nat
      BY <1>1
    <2>4. ~ (d < e) /\ ~ (e < d)
      BY <1>3, <2>1, <2>2, <2>3
    <2> QED  BY <2>4
  <1> QED  BY <1>3 DEF Log2
-----------------------------------------------------------------------------
(* Between two powers of two the tiers are the multiples of one unit. *)
Unit(e) == 2^(e - 4)
Octave(e) == {k \in Nat : 2^e <= k /\ k < 2^(e + 1)}

LEMMA NextPowers ==
  ASSUME NEW e \in 8 .. 14
  PROVE  2^(e + 1) = 32 * Unit(e) /\ 2^(e + 2) = 64 * Unit(e)
  <1>1. /\ e = 8 => Unit(e) = 16 /\ 2^(e + 1) = 512 /\ 2^(e + 2) = 1024
        /\ e = 9 => Unit(e) = 32 /\ 2^(e + 1) = 1024 /\ 2^(e + 2) = 2048
        /\ e = 10 => Unit(e) = 64 /\ 2^(e + 1) = 2048 /\ 2^(e + 2) = 4096
        /\ e = 11 => Unit(e) = 128 /\ 2^(e + 1) = 4096 /\ 2^(e + 2) = 8192
        /\ e = 12 => Unit(e) = 256 /\ 2^(e + 1) = 8192 /\ 2^(e + 2) = 16384
        /\ e = 13 => Unit(e) = 512 /\ 2^(e + 1) = 16384 /\ 2^(e + 2) = 32768
        /\ e = 14 => Unit(e) = 1024 /\ 2^(e + 1) = 32768 /\ 2^(e + 2) = 65536
    BY Powers DEF Unit
  <1>2. \A k \in 8 .. 14 :
            k = 8 \/ k = 9 \/ k = 10 \/ k = 11 \/ k = 12 \/ k = 13 \/ k = 14
    OBVIOUS
  <1> QED  BY <1>1, <1>2

LEMMA Scale ==
  ASSUME NEW e \in 8 .. 14
  PROVE  /\ Unit(e) \in Nat /\ Unit(e) >= 16 /\ Unit(e) <= 1024
         /\ 2^(e + 1) = 32 * Unit(e) /\ 2^(e + 2) = 64 * Unit(e)
         /\ Unit(e + 1) = 2 * Unit(e)
         /\ (32 * Unit(e)) % Unit(e) = 0 /\ (32 * Unit(e)) % Unit(e + 1) = 0
  <1>1. /\ e = 8 => Unit(e) = 16 /\ Unit(e + 1) = 32
        /\ e = 9 => Unit(e) = 32 /\ Unit(e + 1) = 64
        /\ e = 10 => Unit(e) = 64 /\ Unit(e + 1) = 128
        /\ e = 11 => Unit(e) = 128 /\ Unit(e + 1) = 256
        /\ e = 12 => Unit(e) = 256 /\ Unit(e + 1) = 512
        /\ e = 13 => Unit(e) = 512 /\ Unit(e + 1) = 1024
        /\ e = 14 => Unit(e) = 1024 /\ Unit(e + 1) = 2048
    BY Powers DEF Unit
  <1>2. 2^(e + 1) = 32 * Unit(e) /\ 2^(e + 2) = 64 * Unit(e)
    BY NextPowers
  <1>3. CASE e = 8   BY <1>1, <1>2, <1>3
  <1>4. CASE e = 9   BY <1>1, <1>2, <1>4
  <1>5. CASE e = 10  BY <1>1, <1>2, <1>5
  <1>6. CASE e = 11  BY <1>1, <1>2, <1>6
  <1>7. CASE e = 12  BY <1>1, <1>2, <1>7
  <1>8. CASE e = 13  BY <1>1, <1>2, <1>8
  <1>9. CASE e = 14  BY <1>1, <1>2, <1>9
  <1> QED  BY <1>3, <1>4, <1>5, <1>6, <1>7, <1>8, <1>9

LEMMA OctaveIs ==
  ASSUME NEW e \in 8 .. 14
  PROVE  Octave(e) = {k \in Nat : 16 * Unit(e) <= k /\ k < 32 * Unit(e)}
  <1>1. /\ e = 8 => 2^e = 256 /\ 2^(e + 1) = 512 /\ Unit(e) = 16
        /\ e = 9 => 2^e = 512 /\ 2^(e + 1) = 1024 /\ Unit(e) = 32
        /\ e = 10 => 2^e = 1024 /\ 2^(e + 1) = 2048 /\ Unit(e) = 64
        /\ e = 11 => 2^e = 2048 /\ 2^(e + 1) = 4096 /\ Unit(e) = 128
        /\ e = 12 => 2^e = 4096 /\ 2^(e + 1) = 8192 /\ Unit(e) = 256
        /\ e = 13 => 2^e = 8192 /\ 2^(e + 1) = 16384 /\ Unit(e) = 512
        /\ e = 14 => 2^e = 16384 /\ 2^(e + 1) = 32768 /\ Unit(e) = 1024
    BY Powers DEF Unit
  <1>2. CASE e = 8
    BY <1>1, <1>2 DEF Octave
  <1>3. CASE e = 9
    BY <1>1, <1>3 DEF Octave
  <1>4. CASE e = 10
    BY <1>1, <1>4 DEF Octave
  <1>5. CASE e = 11
    BY <1>1, <1>5 DEF Octave
  <1>6. CASE e = 12
    BY <1>1, <1>6 DEF Octave
  <1>7. CASE e = 13
    BY <1>1, <1>7 DEF Octave
  <1>8. CASE e = 14
    BY <1>1, <1>8 DEF Octave
  <1> QED  BY <1>2, <1>3, <1>4, <1>5, <1>6, <1>7, <1>8

LEMMA Eights ==
  ASSUME NEW e \in 8 .. 15
  PROVE  Log2(e) = 3
  <1>1. \A d : d = 3 => 2^d = 8 /\ 2^(d + 1) = 16
    <2>1. \A d : d = 3 => 2^d = 8
      BY Powers
    <2>2. \A d : d = 3 => d + 1 = 4
      OBVIOUS
    <2>3. \A c : c = 4 => 2^c = 16
      BY Powers
    <2> QED  BY <2>1, <2>2, <2>3
  <1>2. \A d : d = 3 => d \in 0 .. 20 /\ 2^d <= e /\ e < 2^(d + 1)
    BY <1>1
  <1>3. \A d : d = 3 => Log2(e) = d
    BY <1>2, Log2Is
  <1> QED  BY <1>3

LEMMA TiersBetween ==
  ASSUME NEW e \in 8 .. 14, NEW k \in Octave(e)
  PROVE  /\ LastBits(k) = e - 4
         /\ IsTier(k) <=> (k % Unit(e) = 0)
  <1>1. Log2(k) = e
    <2>1. e \in 0 .. 20
      OBVIOUS
    <2>2. k \in Nat /\ 2^e <= k /\ k < 2^(e + 1)
      BY DEF Octave
    <2> QED  BY <2>1, <2>2, Log2Is
  <1>2. Log2(e) = 3
    BY Eights
  <1>3. e - (3 + 1) = e - 4
    OBVIOUS
  <1> QED  BY <1>1, <1>2, <1>3 DEF LastBits, IsTier, Unit

LEMMA NextPowerIsTier ==
  ASSUME NEW e \in 8 .. 14
  PROVE  IsTier(32 * Unit(e))
  <1>1. /\ Unit(e) \in Nat /\ Unit(e) >= 16
        /\ 2^(e + 1) = 32 * Unit(e) /\ 2^(e + 2) = 64 * Unit(e)
        /\ (32 * Unit(e)) % Unit(e + 1) = 0
    <2>1. Unit(e) \in Nat /\ Unit(e) >= 16
      BY Scale
    <2>2. 2^(e + 1) = 32 * Unit(e) /\ 2^(e + 2) = 64 * Unit(e)
      BY NextPowers
    <2>3. (32 * Unit(e)) % Unit(e + 1) = 0
      BY Scale
    <2> QED  BY <2>1, <2>2, <2>3
  <1>2. Log2(32 * Unit(e)) = e + 1
    <2>1. 32 * Unit(e) \in Nat /\ e + 1 \in 0 .. 20 /\ (e + 1) + 1 = e + 2
      BY <1>1
    <2>2. 2^(e + 1) <= 32 * Unit(e) /\ 32 * Unit(e) < 2^((e + 1) + 1)
      BY <1>1, <2>1
    <2> QED  BY <2>1, <2>2, Log2Is
  <1>3. Log2(e + 1) = 3
    <2>1. e + 1 \in 8 .. 15
      OBVIOUS
    <2> QED  BY <2>1, Eights
  <1>4. (e + 1) - (3 + 1) = (e + 1) - 4
    OBVIOUS
  <1> QED  BY <1>1, <1>2, <1>3, <1>4 DEF IsTier, Unit

LEMMA PaddedToTier ==
  ASSUME NEW n \in Nat, n <= 30004
  PROVE  LeastTier(n, PadmeLength(n)) /\ PadmeLength(n) \in Nat /\ n <= PadmeLength(n) /\ PadmeLength(n) <= n + 1280
  <1>1. CASE n <= 256
    BY <1>1 DEF LeastTier, PadmeLength, MinPaddedSize
  <1>2. CASE n > 256
    <2>1. PICK e \in 8 .. 14 : n \in Octave(e)
      <3>1. /\ \A d : d = 8 => 2^d = 256 /\ 2^(d + 1) = 512
            /\ \A d : d = 9 => 2^d = 512 /\ 2^(d + 1) = 1024
            /\ \A d : d = 10 => 2^d = 1024 /\ 2^(d + 1) = 2048
            /\ \A d : d = 11 => 2^d = 2048 /\ 2^(d + 1) = 4096
            /\ \A d : d = 12 => 2^d = 4096 /\ 2^(d + 1) = 8192
            /\ \A d : d = 13 => 2^d = 8192 /\ 2^(d + 1) = 16384
            /\ \A d : d = 14 => 2^d = 16384 /\ 2^(d + 1) = 32768
        BY Powers
      <3>2. CASE n < 512
        BY <1>2, <3>1, <3>2 DEF Octave
      <3>3. CASE 512 <= n /\ n < 1024
        BY <3>1, <3>3 DEF Octave
      <3>4. CASE 1024 <= n /\ n < 2048
        BY <3>1, <3>4 DEF Octave
      <3>5. CASE 2048 <= n /\ n < 4096
        BY <3>1, <3>5 DEF Octave
      <3>6. CASE 4096 <= n /\ n < 8192
        BY <3>1, <3>6 DEF Octave
      <3>7. CASE 8192 <= n /\ n < 16384
        BY <3>1, <3>7 DEF Octave
      <3>8. CASE 16384 <= n
        BY <3>1, <3>8 DEF Octave
      <3> QED  BY <3>2, <3>3, <3>4, <3>5, <3>6, <3>7, <3>8
    <2> DEFINE unit == Unit(e)
               padded == RoundUp(n, unit)
    <2>2. /\ unit \in Nat /\ unit >= 16 /\ unit <= 1024
          /\ (32 * unit) % unit = 0
      <3>1. unit \in Nat /\ unit >= 16 /\ unit <= 1024
        BY Scale
      <3>2. (32 * unit) % unit = 0
        BY Scale
      <3> QED  BY <3>1, <3>2
    <2>3. PadmeLength(n) = padded
      <3>1. LastBits(n) = e - 4
        BY <2>1, TiersBetween
      <3>2. ~ (n <= 256)
        BY <1>2
      <3> QED  BY <3>1, <3>2 DEF PadmeLength, MinPaddedSize, Unit
    <2>4. ASSUME NEW k \in Nat, n <= k, k < 32 * unit
          PROVE  IsTier(k) <=> (k % unit = 0)
      <3>1. 16 * unit <= n
        BY <2>1, OctaveIs
      <3>2. 16 * unit <= k
        BY <2>2, <2>4, <3>1
      <3>3. k \in Octave(e)
        BY <2>4, <3>2, OctaveIs
      <3> QED  BY <3>3, TiersBetween
    <2>5. IsTier(32 * unit)
      BY NextPowerIsTier
    <2> HIDE DEF unit
    <2>6. /\ padded \in n .. n + unit - 1 /\ padded % unit = 0
          /\ \A k \in n .. padded - 1 : k % unit # 0
      BY <2>2, RoundedUp
    <2> HIDE DEF padded
    <2>7. n < 32 * unit /\ 16 * unit <= n
      BY <2>1, OctaveIs DEF unit
    <2>8. padded <= 32 * unit
      <3>1. SUFFICES ASSUME 32 * unit \in n .. padded - 1  PROVE FALSE
        BY <2>2, <2>6, <2>7
      <3> QED  BY <2>2, <2>6, <3>1
    <2>9. IsTier(padded)
      <3>1. CASE padded = 32 * unit
        BY <2>5, <3>1
      <3>2. CASE padded < 32 * unit
        BY <2>4, <2>6, <3>2
      <3> QED  BY <2>2, <2>6, <2>8, <3>1, <3>2
    <2>10. \A k \in n .. padded - 1 : ~ IsTier(k)
      <3>1. SUFFICES ASSUME NEW k \in n .. padded - 1  PROVE ~ IsTier(k)
        OBVIOUS
      <3>2. k \in Nat /\ n <= k /\ k < 32 * unit /\ k % unit # 0
        BY <2>2, <2>6, <2>8
      <3> QED  BY <2>4, <3>2
    <2>11. padded >= n /\ 100 * (padded - n) <= 12 * n /\ padded <= n + 1280
      BY <2>2, <2>6, <2>7
    <2>12. ~ (n <= MinPaddedSize)
      BY <1>2 DEF MinPaddedSize
    <2>13. LeastTier(n, padded)
      BY <2>9, <2>10, <2>11, <2>12 DEF LeastTier
    <2>14. padded \in Nat
      BY <2>6
    <2> QED  BY <2>3, <2>11, <2>13, <2>14
  <1> QED  BY <1>1, <1>2

-----------------------------------------------------------------------------
SealInv ==
    /\ text \in Nat /\ text <= 30000
    /\ stage \in {"typed", "refused", "encrypted", "stored", "read", "failed"}
    /\ stage \in {"encrypted", "stored", "read", "failed"} =>
         /\ text > 0
         /\ sealed = [key |-> "own", data |-> Pad(text)]
         /\ size = Base64Size(IvLength + PadmeLength(PrefixSize + text) + TagLength)
    /\ stage = "failed" => reading.key \in {"other", "cut"}
    /\ stage = "read" => reading = [key |-> "own", length |-> text]

(* No limit stops what the page takes. *)
LEMMA WithinLimits ==
  ASSUME NEW t \in Nat, t > 0, t <= 30000
  PROVE  LET chars == Base64Size(IvLength + PadmeLength(PrefixSize + t) + TagLength)
         IN  /\ chars \in 1 .. MaxCiphertext
             /\ BytesOf(chars) >= IvLength + TagLength
             /\ PaddingIsValid(Pad(t))
  <1> DEFINE p == PadmeLength(PrefixSize + t)
  <1>1. PrefixSize + t \in Nat /\ PrefixSize + t <= 30004 /\ PrefixSize = 4
    BY DEF PrefixSize
  <1>2. p \in Int /\ 4 + t <= p /\ p <= 4 + t + 1280
    BY <1>1, PaddedToTier
  <1>3. PaddingIsValid(Pad(t))
    BY <1>1, <1>2 DEF PaddingIsValid, Pad, PrefixSize
  <1> HIDE DEF p
  <1> DEFINE chars == Base64Size(IvLength + p + TagLength)
  <1>4. /\ chars \in Int /\ 1 <= chars /\ chars <= 100000
        /\ BytesOf(chars) >= IvLength + TagLength
    BY <1>2 DEF Base64Size, BytesOf, IvLength, TagLength
  <1>5. MaxCiphertext \in Int /\ \A c \in Int : c <= 100000 => c <= MaxCiphertext
    BY DEF MaxCiphertext
  <1> HIDE DEF chars
  <1>6. chars \in 1 .. MaxCiphertext
    BY <1>4, <1>5
  <1> QED  BY <1>3, <1>4, <1>6 DEF chars, p

LEMMA SealInitially == SealingAssumption /\ SealingInit => SealInv
  <1> SUFFICES ASSUME SealingAssumption, SealingInit  PROVE SealInv
    OBVIOUS
  <1>1. MaxLength \in Nat /\ 3 * MaxLength <= 30000
    BY DEF MaxLength
  <1>2. text \in 0 .. 3 * MaxLength
    BY DEF SealingInit, SealingAssumption
  <1>3. text \in Nat /\ text <= 30000
    BY <1>1, <1>2
  <1> QED  BY <1>3 DEF SealingInit, SealInv

LEMMA SealSteps == SealInv /\ [SealNext]_sealVars => SealInv'
  <1> SUFFICES ASSUME SealInv, [SealNext]_sealVars  PROVE SealInv'
    OBVIOUS
  <1>1. CASE Refuse
    BY <1>1 DEF SealInv, Refuse
  <1>2. CASE Encrypt
    <2>1. text \in Nat /\ text > 0 /\ text <= 30000 /\ ~ (text > MaxInputSize)
      BY <1>2 DEF SealInv, Encrypt, MaxInputSize
    <2>2. /\ sealed' = [key |-> "own", data |-> Pad(text)]
          /\ size' = Base64Size(IvLength + PadmeLength(PrefixSize + text) + TagLength)
          /\ stage' = "encrypted" /\ text' = text
      BY <1>2, <2>1 DEF Encrypt, Pad
    <2> QED  BY <2>1, <2>2 DEF SealInv
  <1>3. CASE Store
    <2>1. /\ text \in Nat /\ text > 0 /\ text <= 30000
          /\ size = Base64Size(IvLength + PadmeLength(PrefixSize + text) + TagLength)
      BY <1>3 DEF SealInv, Store
    <2>2. stage' = "stored" /\ UNCHANGED <<text, sealed, size, reading>>
      BY <1>3, <2>1, WithinLimits DEF Store
    <2> QED  BY <1>3, <2>2 DEF SealInv, Store
  <1>4. CASE Decrypt
    <2>1. /\ text \in Nat /\ text > 0 /\ text <= 30000 /\ sealed = [key |-> "own", data |-> Pad(text)]
          /\ size = Base64Size(IvLength + PadmeLength(PrefixSize + text) + TagLength)
          /\ UNCHANGED <<text, sealed, size>>
      BY <1>4 DEF SealInv, Decrypt
    <2>2. BytesOf(size) >= IvLength + TagLength /\ PaddingIsValid(sealed.data) /\ sealed.data.length = text
      BY <2>1, WithinLimits DEF Pad
    <2>3. PICK key \in {"own", "other", "cut"} :
            /\ reading' = [key |-> key, length |-> IF key = sealed.key THEN sealed.data.length ELSE -1]
            /\ stage' = IF key = sealed.key THEN "read" ELSE "failed"
      BY <1>4, <2>2 DEF Decrypt
    <2> QED  BY <2>1, <2>2, <2>3 DEF SealInv
  <1>5. CASE UNCHANGED sealVars
    BY <1>5 DEF SealInv, sealVars
  <1> QED  BY <1>1, <1>2, <1>3, <1>4, <1>5 DEF SealNext

(* Every text the page takes, of any length up to the text area's limit and any
   mixture of characters, passes every limit, is read as it was written with
   its key and with no other, and shows the server only its tier. *)
THEOREM TextArrives == SealingAssumption => (SealSpec => []TextArrivesHidden)
  <1> SUFFICES ASSUME SealingAssumption  PROVE SealSpec => []TextArrivesHidden
    OBVIOUS
  <1>1. ASSUME SealInv  PROVE TextArrivesHidden
    <2>1. CASE stage \in {"encrypted", "stored"}
      <3>1. PrefixSize + text \in Nat /\ PrefixSize + text <= 30004 /\ sealed.data.size = PadmeLength(PrefixSize + text)
        BY <1>1, <2>1 DEF SealInv, PrefixSize, Pad
      <3> QED  BY <2>1, <3>1, PaddedToTier DEF TextArrivesHidden
    <2>2. CASE stage \notin {"encrypted", "stored"}
      BY <1>1, <2>2 DEF SealInv, TextArrivesHidden
    <2> QED  BY <2>1, <2>2
  <1> QED  BY <1>1, SealInitially, SealSteps, PTL DEF SealSpec

==============================================================================
