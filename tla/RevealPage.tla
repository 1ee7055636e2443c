------------------------------ MODULE RevealPage ------------------------------
(***************************************************************************)
(* The reveal page (client/src/pages/reveal.ts) under the client's router  *)
(* (client/src/router.ts), opened with the link of one secret.  The router *)
(* empties the page and renders a route when its chunk has come, whatever  *)
(* was opened meanwhile; the reveal page awaits the server's answers and   *)
(* then replaces what the page shows.  Elsewhere others read the same      *)
(* secret, guess its password, and it expires.                             *)
(***************************************************************************)
EXTENDS Integers, FiniteSets, FiniteSetsExt

CONSTANTS
    MaxAttempts, \* MAX_PASSWORD_ATTEMPTS
    MaxNav,      \* how many times a route is opened
    None

ASSUME RevealAssumption == MaxAttempts \in Nat \ {0} /\ MaxNav \in Nat \ {0}

Nav == 1 .. MaxNav

Page == {"secret", "other"}

VARIABLES
    link,    \* the link and the secret behind it
    row,     \* what the server has of the secret
    left,    \* how many wrong passwords it still takes
    at,      \* the route of the address bar
    keyed,   \* the history entry of the link has the key
    ready,   \* the pages whose chunk is there
    pending, \* routes opened that wait for their chunk
    navs,    \* how many routes were opened
    content, \* what the page shows, and for which opening
    flow,    \* each opening's renderRevealPage
    timers   \* openings whose burn timer runs

server == <<row, left>>
router == <<at, keyed, ready, pending, navs>>
vars == <<link, row, left, at, keyed, ready, pending, navs, content, flow, timers>>

Link == [burn : BOOLEAN, owned : BOOLEAN, protected : BOOLEAN, rightKey : BOOLEAN]

Reply == [status : {200, 403, 404, 0}, left : 0 .. MaxAttempts, whole : BOOLEAN]

Kind == {"spinner", "ask", "password", "secret", "hidden", "other", "load_error",
         "no_key", "not_available", "already_viewed", "destroyed", "decrypt_failed"}

Item(kind, n) == {[kind |-> kind, nav |-> n]}

Shows(kind, n) == [kind |-> kind, nav |-> n] \in content

Flow == [pc    : {"none", "meta", "ask", "get", "password", "verify", "over"},
         reply : Reply \cup {None},
         guess : BOOLEAN,                 \* the password typed is the right one
         shown : 0 .. MaxAttempts]        \* the attempts the form tells of

RevealInit ==
    /\ link \in Link
    /\ row \in {"live", "viewed", "gone"}
    /\ row = "viewed" => link.owned
    /\ left \in IF link.protected THEN 1 .. MaxAttempts ELSE {MaxAttempts}
    /\ at = "secret" /\ keyed = TRUE
    /\ ready = {}
    /\ pending = {[nav |-> 1, page |-> "secret"]}
    /\ navs = 1
    /\ content = {}
    /\ flow = [n \in Nav |-> [pc |-> "none", reply |-> None, guess |-> FALSE, shown |-> 0]]
    /\ timers = {}

-----------------------------------------------------------------------------
(* The router. *)

(* Faulty: the key stays in the address bar. *)
RenderedUnstripped(p, N, before, here, key) ==
    IF p = "secret" /\ here = "secret" /\ key
    THEN /\ flow' = [flow EXCEPT ![Min(N)].pc = "meta"]
         /\ keyed' = key
         /\ content' = Item("spinner", Min(N))
    ELSE /\ content' = IF p = "other" THEN before \cup UNION {Item("other", n) : n \in N}
                                      ELSE Item("no_key", Max(N))
         /\ keyed' = key
         /\ UNCHANGED flow

(* The openings N of page p are rendered one after the other.  The reveal page
   takes the key from the address bar, wherever that is by now, and clears the
   page; the others append to it. *)
Rendered(p, N, before, here, key) ==
    LET first == Min(N)  last == Max(N) IN
    IF p = "other"
    THEN /\ content' = before \cup UNION {Item("other", n) : n \in N}
         /\ keyed' = key
         /\ UNCHANGED flow
    ELSE IF here = "secret" /\ key
    THEN /\ flow' = [flow EXCEPT ![first].pc = "meta"]
         /\ keyed' = FALSE
         /\ content' = IF first = last THEN Item("spinner", first) ELSE Item("no_key", last)
    ELSE /\ content' = Item("no_key", last)
         /\ keyed' = key
         /\ UNCHANGED flow

(* navigate, popstate: handleRoute empties the page. *)
HandleRoute(p, key) ==
    /\ navs < MaxNav
    /\ navs' = navs + 1
    /\ at' = p
    /\ IF p \in ready
       THEN Rendered(p, {navs'}, {}, p, key) /\ UNCHANGED pending
       ELSE /\ pending' = pending \cup {[nav |-> navs', page |-> p]}
            /\ content' = {}
            /\ keyed' = key
            /\ UNCHANGED flow
    /\ UNCHANGED <<link, server, ready, timers>>

(* A link of the site, or Back from the page of the link to another. *)
Leave == at = "secret" /\ HandleRoute("other", keyed)

(* Back to the entry of the link. *)
Return == at = "other" /\ HandleRoute("secret", keyed)

(* The link once more in the same tab: only its fragment differs. *)
OpenAgain == at = "secret" /\ HandleRoute("secret", TRUE)

Waiting(p) == {w.nav : w \in {v \in pending : v.page = p}}

ChunkArrives(p) ==
    /\ Waiting(p) # {}
    /\ Rendered(p, Waiting(p), content, at, keyed)
    /\ ready' = ready \cup {p}
    /\ pending' = {w \in pending : w.page # p}
    /\ UNCHANGED <<link, server, at, navs, timers>>

(* showLoadError *)
ChunkFails(p) ==
    /\ Waiting(p) # {}
    /\ content' = Item("load_error", Max(Waiting(p)))
    /\ pending' = {w \in pending : w.page # p}
    /\ UNCHANGED <<link, server, at, keyed, ready, navs, flow, timers>>

-----------------------------------------------------------------------------
(* The visitor. *)

ClickReveal(n) ==
    /\ Shows("ask", n)
    /\ flow' = [flow EXCEPT ![n].pc = "get"]
    /\ content' = Item("spinner", n)
    /\ UNCHANGED <<link, server, router, timers>>

SubmitPassword(n) ==
    /\ Shows("password", n)
    /\ flow[n].pc = "password"
    /\ \E right \in BOOLEAN : flow' = [flow EXCEPT ![n].pc = "verify", ![n].guess = right]
    /\ UNCHANGED <<link, server, router, content, timers>>

-----------------------------------------------------------------------------
(* The server, as the module Secrets has it. *)

Replies(n, r) == flow' = [flow EXCEPT ![n].reply = r]

Answer(status, k, whole) == [status |-> status, left |-> k, whole |-> whole]

NotFound == Answer(404, 0, FALSE)

Kept == row \in {"live", "viewed"}

(* Faulty: an account's row keeps its status. *)
TakenUnmarked == IF link.owned THEN row ELSE "gone"

Taken == IF link.owned THEN "viewed" ELSE "gone"

(* 200 also for a row that was viewed: its status is not looked at. *)
ServeMeta(n) ==
    /\ Replies(n, IF Kept THEN Answer(200, left, FALSE) ELSE NotFound)
    /\ UNCHANGED server

ServeGet(n) ==
    /\ Replies(n, IF Kept THEN Answer(200, 0, row = "live") ELSE NotFound)
    /\ row' = IF Kept THEN Taken ELSE row
    /\ UNCHANGED left

WrongPassword ==
    /\ left' = left - 1
    /\ row' = IF left' = 0 THEN "destroyed" ELSE row

(* The answer to the last attempt is that of a secret that is not there. *)
ServeVerify(n) ==
    IF Kept /\ ~ flow[n].guess
    THEN WrongPassword /\ Replies(n, IF left' = 0 THEN NotFound ELSE Answer(403, left', FALSE))
    ELSE ServeGet(n)

Asks(n) == flow[n].pc \in {"meta", "get", "verify"}

Serve(n) ==
    /\ Asks(n) /\ flow[n].reply = None
    /\ CASE flow[n].pc = "meta" -> ServeMeta(n)
         [] flow[n].pc = "get" -> ServeGet(n)
         [] flow[n].pc = "verify" -> ServeVerify(n)
    /\ UNCHANGED <<link, router, content, timers>>

(* The request or its answer is lost, or a limit refuses it (429). *)
Lose(n) ==
    /\ Asks(n)
    /\ Replies(n, Answer(0, 0, FALSE))
    /\ UNCHANGED <<link, server, router, content, timers>>

OthersTake ==
    /\ row = "live"
    /\ row' = Taken
    /\ UNCHANGED <<link, left, router, content, flow, timers>>

OthersGuess ==
    /\ Kept /\ link.protected
    /\ WrongPassword
    /\ UNCHANGED <<link, router, content, flow, timers>>

Expires ==
    /\ Kept
    /\ row' = "gone"
    /\ UNCHANGED <<link, left, router, content, flow, timers>>

-----------------------------------------------------------------------------
(* The page goes on with the answer.  It replaces whatever the page shows. *)

Ends(n, kind) ==
    /\ content' = Item(kind, n)
    /\ flow' = [flow EXCEPT ![n].pc = "over", ![n].reply = None]
    /\ UNCHANGED timers

MetaError(status) == IF status = 410 THEN "already_viewed" ELSE "not_available"

Interstitial(n) ==
    /\ content' = Item("ask", n)
    /\ flow' = [flow EXCEPT ![n].pc = "ask", ![n].reply = None]
    /\ UNCHANGED timers

PasswordEntry(n, attempts) ==
    /\ content' = Item("password", n)
    /\ flow' = [flow EXCEPT ![n] = [@ EXCEPT !.pc = "password", !.reply = None,
                                            !.shown = attempts]]
    /\ UNCHANGED timers

GotMeta(n, r) ==
    CASE r.status # 200 -> Ends(n, MetaError(r.status))
      [] r.status = 200 /\ link.protected -> PasswordEntry(n, r.left)
      [] r.status = 200 /\ ~ link.protected -> Interstitial(n)

(* renderRevealedSecret: the burn parameter is the address bar's of now. *)
Revealed(n) ==
    /\ content' = Item("secret", n)
    /\ flow' = [flow EXCEPT ![n].pc = "over", ![n].reply = None]
    /\ timers' = IF at = "secret" /\ link.burn THEN timers \cup {n} ELSE timers

GotCiphertext(n, r) ==
    CASE r.status = 200 /\ r.whole /\ link.rightKey -> Revealed(n)
      [] r.status = 200 /\ ~ (r.whole /\ link.rightKey) -> Ends(n, "decrypt_failed")
      [] OTHER -> Ends(n, "not_available")

(* The form counts down, though it may be off the page. *)
GotVerdict(n, r) ==
    IF r.status # 403 THEN GotCiphertext(n, r)
    ELSE IF r.left = 0 THEN Ends(n, "destroyed")
    ELSE /\ flow' = [flow EXCEPT ![n] = [@ EXCEPT !.pc = "password", !.reply = None,
                                                  !.shown = r.left]]
         /\ UNCHANGED <<content, timers>>

Got(n, r) ==
    /\ CASE flow[n].pc = "meta" -> GotMeta(n, r)
         [] flow[n].pc = "get" -> GotCiphertext(n, r)
         [] flow[n].pc = "verify" -> GotVerdict(n, r)
    /\ UNCHANGED <<link, server, router>>

(* Faulty: only an answer is handled, not its absence. *)
ContinueIfAnswered(n) ==
    flow[n].reply # None /\ flow[n].reply.status # 0 /\ Got(n, flow[n].reply)

Continue(n) == flow[n].reply # None /\ Got(n, flow[n].reply)

(* Faulty: the countdown ends and the text stays. *)
BurnOut(n) ==
    /\ n \in timers
    /\ timers' = timers \ {n}
    /\ UNCHANGED <<link, server, router, content, flow>>

(* The last tick of attachBurnTimer, or the first that finds the page left. *)
BurnEnds(n) ==
    /\ n \in timers
    /\ timers' = timers \ {n}
    /\ content' = IF Shows("secret", n)
                  THEN (content \ Item("secret", n)) \cup Item("hidden", n)
                  ELSE content
    /\ UNCHANGED <<link, server, router, flow>>

-----------------------------------------------------------------------------
Opens == Leave \/ Return \/ OpenAgain

Next ==
    \/ Opens
    \/ \E p \in Page : ChunkArrives(p) \/ ChunkFails(p)
    \/ \E n \in Nav : ClickReveal(n) \/ SubmitPassword(n)
    \/ \E n \in Nav : Serve(n) \/ Lose(n)
    \/ \E n \in Nav : Continue(n) \/ BurnEnds(n)
    \/ OthersTake \/ OthersGuess \/ Expires

Spec == RevealInit /\ [][Next]_vars

(* A request is answered or fails; the browser runs what is due. *)
Fairness ==
    /\ WF_vars(\E n \in Nav : Serve(n))
    /\ WF_vars(\E n \in Nav : Continue(n))
    /\ WF_vars(\E n \in Nav : BurnEnds(n))

FairSpec == Spec /\ Fairness

-----------------------------------------------------------------------------
(* Properties. *)

(* "This secret has been permanently deleted from our servers" (reveal.ts:444)
   is true whenever it is shown, and the password form never tells of fewer
   attempts than are left, whatever others do to the secret meanwhile. *)
ShownIsTrue ==
    \A n \in Nav :
        /\ Shows("secret", n) \/ Shows("hidden", n) => row # "live"
        /\ Shows("password", n) /\ Kept => left <= flow[n].shown

(* reveal.ts:6: the key is out of the address bar while anything of the reveal
   page that has it is shown, through leaving, coming back and opening again. *)
KeyStripped ==
    at = "secret" /\ keyed =>
        \A c \in content : c.kind \notin {"spinner", "ask", "password", "secret", "hidden"}

(* Every spinner ends, be the server's answer lost or late. *)
RevealEnds == \A n \in Nav : Shows("spinner", n) ~> ~ Shows("spinner", n)

(* A secret shown at its own link is hidden in the end if the link asks so. *)
BurnHides ==
    \A n \in Nav : Shows("secret", n) /\ at = "secret" /\ link.burn ~> ~ Shows("secret", n)

==============================================================================
