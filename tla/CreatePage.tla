------------------------------ MODULE CreatePage ------------------------------
(***************************************************************************)
(* The create page (client/src/pages/create.ts) against POST /api/secrets. *)
(* The form works from the first moment with a visitor's controls; when    *)
(* the session check answers, they are replaced by those of the tier, even *)
(* while a secret is being encrypted or sent.  Encryption, requests and    *)
(* the passphrase chunk are awaited; the controls can be used meanwhile.   *)
(***************************************************************************)
EXTENDS CreateGates, Sequences

CONSTANTS
    Me,         \* the account of this browser
    Tried,      \* the tabs that are tried
    Lifetimes,  \* the expiries that are tried
    MaxWaiting  \* how many uses of the passphrase chunk may await it at once

Tab == {"none", "generate", "custom", "passphrase"}

ASSUME PageAssumption ==
    /\ Me \in User /\ Tried \subseteq Tab /\ Lifetimes \subseteq Expiry
    /\ MaxWaiting \in Nat
    /\ None \notin Status

VARIABLES
    session,  \* whether the cookie is that of a session
    revoked,  \* the session, the account or Pro has ended, or the server failed
              \* to see the session (no such thing in the code)
    known,    \* isAuthenticated
    count,    \* anonymousSecretCount
    check,    \* the await at which the session check is suspended
    tierRead, \* isPro
    mode,     \* whom the controls were made for
    form,     \* what the controls say
    words,    \* the passphrase chunk: fetched, and those waiting for it
    hung,     \* a loop that never ends
    clicked,  \* what the controls said at the last click
    sending,  \* the await at which the submit handler is suspended
    mine,     \* the request it sent
    place     \* the form, or the confirmation page with what it shows

page == <<session, revoked, known, count, check, tierRead, mode, form, words,
          hung, clicked, sending, mine, place>>
vars == <<gates, page>>

Form == [expires   : Expiry,
         tab       : Tab,
         confirmed : BOOLEAN,                   \* a generated password is confirmed
         custom    : BOOLEAN,                   \* the custom password is not blank
         phrase    : BOOLEAN,                   \* there is a current passphrase
         list      : BOOLEAN,                   \* activeWordList is not empty
         notify    : BOOLEAN]

FreshForm(expires) ==
    [expires |-> expires, tab |-> "none", confirmed |-> FALSE, custom |-> FALSE,
     phrase |-> FALSE, list |-> FALSE, notify |-> FALSE]

Confirmation == [passphrase : BOOLEAN, prompt : BOOLEAN, request : Request]

OnForm == place = None

PageInit ==
    /\ GatesInit
    /\ session \in BOOLEAN
    /\ revoked = FALSE
    /\ known = FALSE
    /\ count = 0
    /\ check = "session"
    /\ tierRead = FALSE
    /\ mode = "anon"
    /\ form = FreshForm("1h")
    /\ words = [ready |-> FALSE, waiting |-> <<>>]
    /\ hung = FALSE
    /\ clicked = None
    /\ sending = "no"
    /\ mine = None
    /\ place = None

-----------------------------------------------------------------------------
(* The session check. *)

OnlyCheck == UNCHANGED <<session, revoked, words, hung, clicked, sending, mine, place, count>>

(* getSession; a visitor and an error leave the page as it is. *)
SessionAnswers ==
    /\ check = "session"
    /\ \/ session /\ known' = TRUE /\ check' = "me"
       \/ check' = "done" /\ UNCHANGED known
    /\ UNCHANGED <<gates, tierRead, mode, form>>
    /\ OnlyCheck

(* getMe reads the tier; an error counts as free. *)
MeAnswers ==
    /\ check = "me"
    /\ check' = "upgrade"
    /\ tierRead' \in {session /\ IsPro(Me), FALSE}
    /\ UNCHANGED <<gates, known, mode, form>>
    /\ OnlyCheck

(* New expiration select, protection panel and notify toggle: what they said
   before is lost, save an expiry the page was opened with. *)
Upgrade ==
    /\ check = "upgrade"
    /\ check' = "done"
    /\ mode' = IF tierRead THEN "pro" ELSE "free"
    /\ tierRead' = FALSE
    /\ form' \in {FreshForm(x) : x \in Lifetimes}
    /\ UNCHANGED <<gates, known>>
    /\ OnlyCheck

-----------------------------------------------------------------------------
(* The controls. *)

(* The instance has a request left; without one the controls decide nothing. *)
RequestLeft == \E r \in Request : phase[r] = "unsent"

Uses(f) ==
    /\ OnForm /\ ~ hung
    /\ RequestLeft \/ sending # "no"
    /\ form' = f
    /\ UNCHANGED <<gates, session, revoked, known, count, check, tierRead, mode,
                   hung, clicked, sending, mine, place>>

SelectExpiry ==
    \E x \in Lifetimes :
        /\ mode # "anon"
        /\ x = "30d" => mode = "pro"
        /\ Uses([form EXCEPT !.expires = x])
        /\ UNCHANGED words

(* Faulty: every tab opens once there is an account. *)
OpenToMembers(tab) == tab = "none" \/ mode # "anon"

Unlocked(tab) ==
    CASE tab = "none" -> TRUE
      [] tab = "passphrase" -> mode # "anon"
      [] OTHER -> mode = "pro"

Awaits(what) ==
    /\ Len(words.waiting) < MaxWaiting
    /\ words' = [words EXCEPT !.waiting = Append(@, what)]

(* activateTab: leaving a tab drops what was made there. *)
OpenTab(tab) ==
    LET f == [form EXCEPT
                !.tab = tab,
                !.confirmed = FALSE,
                !.phrase = IF form.tab = "passphrase" /\ tab # "passphrase" THEN FALSE ELSE @]
    IN
    /\ Unlocked(tab)
    /\ Uses(f)
    /\ IF tab = "passphrase" /\ ~ f.phrase THEN Awaits("panel") ELSE UNCHANGED words

(* "Use this password", and what takes it back: a new one, another strength. *)
ConfirmGenerated ==
    /\ form.tab = "generate"
    /\ Uses([form EXCEPT !.confirmed = TRUE])
    /\ UNCHANGED words

DropGenerated ==
    /\ form.tab = "generate"
    /\ Uses([form EXCEPT !.confirmed = FALSE])
    /\ UNCHANGED words

TypePassword ==
    /\ form.tab = "custom"
    /\ \E blank \in BOOLEAN : Uses([form EXCEPT !.custom = ~ blank])
    /\ UNCHANGED words

ToggleNotify ==
    /\ mode = "pro"
    /\ Uses([form EXCEPT !.notify = ~ @])
    /\ UNCHANGED words

TypePassphrase ==
    /\ form.tab = "passphrase" /\ form.list
    /\ \E blank \in BOOLEAN : Uses([form EXCEPT !.phrase = ~ blank])
    /\ UNCHANGED words

NewPassphrase ==
    /\ form.tab = "passphrase"
    /\ Uses(form)
    /\ Awaits("new")

SelectList ==
    /\ form.tab = "passphrase"
    /\ Uses(form)
    /\ Awaits("list")

-----------------------------------------------------------------------------
(* The passphrase chunk. *)

OnlyWords ==
    UNCHANGED <<gates, session, revoked, known, count, check, tierRead, mode,
                clicked, sending, mine, place>>

FetchEnds ==
    /\ ~ words.ready /\ words.waiting # <<>>
    /\ words' \in {[words EXCEPT !.ready = TRUE], [words EXCEPT !.waiting = <<>>]}
    /\ UNCHANGED <<form, hung>>
    /\ OnlyWords

(* The rejection loop of getUnbiasedRandomIndex ends unless the list is empty. *)
Draw(f) ==
    IF f.list THEN form' = [f EXCEPT !.phrase = TRUE] /\ UNCHANGED hung
              ELSE hung' = TRUE /\ UNCHANGED form

(* The continuations of initPassphrasePanel, the list's change and the button. *)
WordsReady ==
    /\ words.ready /\ words.waiting # <<>> /\ ~ hung
    /\ words' = [words EXCEPT !.waiting = Tail(@)]
    /\ IF Head(words.waiting) = "new" THEN Draw(form) ELSE Draw([form EXCEPT !.list = TRUE])
    /\ OnlyWords

-----------------------------------------------------------------------------
(* The submit handler. *)

Choice(f) ==
    [expires  |-> f.expires,
     kind     |-> IF f.tab \in {"generate", "custom"} THEN "password" ELSE f.tab,
     password |-> (f.tab = "generate" /\ f.confirmed) \/ (f.tab = "custom" /\ f.custom)]

Click ==
    /\ OnForm /\ ~ hung
    /\ sending = "no"
    /\ RequestLeft
    /\ sending' = "encrypting"
    /\ clicked' = Choice(form)
    /\ UNCHANGED <<gates, session, revoked, known, count, check, tierRead, mode, form,
                   words, hung, mine, place>>

Submits(choice) ==
    /\ sending = "encrypting" /\ ~ hung
    /\ sending' = "sending"
    /\ \E r \in Request, by \in {Me, Anon} :
        /\ by = Me => session
        /\ Arrive(r, [by   |-> by,
                      body |-> [expires |-> choice.expires, kind |-> choice.kind,
                                password |-> choice.password, notify |-> form.notify]])
        /\ mine' = r
        /\ revoked' = (revoked \/ (session /\ by = Anon))
    /\ UNCHANGED <<session, known, count, check, tierRead, mode, form, words,
                   hung, clicked, place>>

(* Faulty: the kind of protection is read only when the request is sent. *)
EncryptedReadLate == Submits([clicked EXCEPT !.kind = Choice(form).kind])

(* What was read at the click is sent; the notify toggle is read now.  Where
   the session lookup of optionalAuth fails, a visitor asks. *)
Encrypted == Submits(clicked)

(* Faulty: an error leaves the button as it was. *)
RefusedForGood ==
    /\ sending = "sending" /\ ~ hung
    /\ phase[mine] = "done" /\ answer[mine] # 201
    /\ sending' = "stuck"
    /\ UNCHANGED <<gates, session, revoked, known, count, check, tierRead, mode, form,
                   words, hung, clicked, mine, place>>

(* The form is restored, to be sent again. *)
Refused ==
    /\ sending = "sending" /\ ~ hung
    /\ phase[mine] = "done" /\ answer[mine] # 201
    /\ sending' = "no" /\ clicked' = None /\ mine' = None
    /\ UNCHANGED <<gates, session, revoked, known, count, check, tierRead, mode, form,
                   words, hung, place>>

(* The answer, or the request, is lost; or encryption fails. *)
NetworkFails ==
    /\ sending # "no" /\ ~ hung
    /\ sending' = "no" /\ clicked' = None /\ mine' = None
    /\ UNCHANGED <<gates, session, revoked, known, count, check, tierRead, mode, form,
                   words, hung, place>>

(* Prompts come with the first and the third secret of a visitor; the
   passphrase shown is the panel's of this moment. *)
Created ==
    /\ sending = "sending" /\ ~ hung
    /\ answer[mine] = 201
    /\ sending' = "no"
    /\ count' = IF known THEN count ELSE count + 1
    /\ place' = [passphrase |-> form.tab = "passphrase" /\ form.phrase,
                 prompt     |-> ~ known /\ count' \in {1, 3},
                 request    |-> mine]
    /\ UNCHANGED <<gates, session, revoked, known, check, tierRead, mode, form, words,
                   hung, clicked, mine>>

(* "Create Another Secret": a new page, once the old one's check is over.
   Its chunk and its counters are the module's and stay. *)
Another ==
    /\ ~ OnForm /\ RequestLeft
    /\ check = "done" /\ words.waiting = <<>>
    /\ place' = None
    /\ check' = "session"
    /\ mode' = "anon"
    /\ form' = FreshForm("1h")
    /\ clicked' = None /\ mine' = None
    /\ UNCHANGED <<gates, session, revoked, known, count, tierRead, words, hung, sending>>

-----------------------------------------------------------------------------
(* Elsewhere: the session ends, the tier changes, the account goes. *)

SessionEnds ==
    /\ session
    /\ session' = FALSE
    /\ revoked' = TRUE
    /\ UNCHANGED <<gates, known, count, check, tierRead, mode, form, words, hung,
                   clicked, sending, mine, place>>

TierMoves ==
    /\ \E t \in {"free", "pro", "gone"} :
        /\ TierChanges(Me, t)
        /\ revoked' = (revoked \/ t # "pro")
    /\ UNCHANGED <<session, known, count, check, tierRead, mode, form, words, hung,
                   clicked, sending, mine, place>>

Served == (\E r \in Request : Serve(r)) /\ UNCHANGED page

ServerFails == (\E r \in Request : Fail(r)) /\ UNCHANGED page

Continues == Encrypted \/ Refused \/ Created

Controls ==
    \/ SelectExpiry
    \/ \E tab \in Tried : OpenTab(tab)
    \/ ConfirmGenerated
    \/ DropGenerated
    \/ TypePassword
    \/ ToggleNotify
    \/ TypePassphrase
    \/ NewPassphrase
    \/ SelectList

Next ==
    \/ SessionAnswers \/ MeAnswers \/ Upgrade
    \/ Controls
    \/ FetchEnds \/ WordsReady
    \/ Click \/ Continues \/ NetworkFails \/ Another
    \/ SessionEnds \/ TierMoves
    \/ Served \/ ServerFails

Spec == PageInit /\ [][Next]_vars

(* The browser goes on with what it awaits, and the server with what it has. *)
Fairness == WF_vars(Continues) /\ WF_vars(Served)

FairSpec == Spec /\ Fairness

-----------------------------------------------------------------------------
(* Properties. *)

(* What is stored is what the controls said together at the click, however
   they were used or replaced while it was encrypted and sent. *)
StoredAsChosen ==
    ~ OnForm =>
        LET row == stored[place.request] IN
        /\ row.expires = clicked.expires
        /\ row.password = clicked.password
        /\ asked[place.request].body.kind = clicked.kind

(* The tier caps refuse nothing the page lets anybody choose, unless what the
   page was drawn for has ended since, and thirty days, which they refuse to
   everybody. *)
OfferedIsAccepted ==
    \A r \in Request : answer[r] \in {400, 403} => revoked \/ asked[r].body.expires = "30d"

(* Every click is answered with a confirmation or with a form that can be
   sent again, or else the page hangs. *)
SubmitAnswered == sending # "no" ~> sending = "no" \/ hung

==============================================================================
