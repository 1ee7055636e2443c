------------------------------ MODULE PageProofs ------------------------------
(***************************************************************************)
(* What two pages show is true.  The reveal page: of the secret, whose key *)
(* is out of the address bar while anything of it is shown, for any number *)
(* of openings of the link and of password attempts.  The dashboard: its   *)
(* rows are one list, in order and without gaps, for any number of secrets *)
(* that change and of fetches that fail, of any size of page.              *)
(***************************************************************************)
EXTENDS RevealPage, Dashboard, FiniteSetTheorems, FunctionTheorems,
        WellFoundedInduction, TLAPS

RevealTypeOK ==
    /\ link \in Link
    /\ row \in {"live", "viewed", "gone", "destroyed"}
    /\ left \in 0 .. MaxAttempts
    /\ at \in Page /\ keyed \in BOOLEAN
    /\ ready \subseteq Page
    /\ pending \subseteq [nav : Nav, page : Page]
    /\ navs \in Nav
    /\ content \subseteq [kind : Kind, nav : Nav]
    /\ flow \in [Nav -> Flow]
    /\ timers \subseteq Nav

(* The kinds of content that an opening shows which has the key. *)
Keyed == {"spinner", "ask", "password", "secret", "hidden"}

(* The key is in the address bar only while no opening has it, and at the link
   only while its chunk is missing. *)
KeyInBar ==
    /\ keyed \/ "secret" \notin ready => \A n \in Nav : flow[n].pc = "none"
    /\ at = "secret" /\ keyed => "secret" \notin ready

(* An opening that was never rendered has not begun, and one that asks nothing
   has no answer. *)
FlowInOrder ==
    \A n \in Nav :
        /\ n > navs => flow[n].pc = "none"
        /\ ~ Asks(n) => flow[n].reply = None

(* How far the opening is whose content is shown. *)
ContentOf(c) ==
    /\ c.kind \in Keyed => flow[c.nav].pc # "none"
    /\ c.kind = "ask" => flow[c.nav].pc = "ask"
    /\ c.kind = "password" => flow[c.nav].pc \in {"password", "verify"}
    /\ c.kind \in {"secret", "hidden"} => row # "live"

(* An answer with the ciphertext has taken the secret; attempts only get fewer. *)
AnswerStands(f) ==
    /\ f.reply # None =>
        /\ f.reply.whole => row # "live"
        /\ f.pc = "meta" /\ f.reply.status = 200 => left <= f.reply.left
        /\ f.reply.status = 403 => left <= f.reply.left
    /\ f.pc \in {"password", "verify"} => left <= f.shown

RevealInv ==
    /\ RevealTypeOK
    /\ Kept => left > 0
    /\ KeyInBar
    /\ \A w \in pending : w.nav <= navs
    /\ FlowInOrder
    /\ \A c \in content : ContentOf(c)
    /\ \A n \in Nav : AnswerStands(flow[n])

-----------------------------------------------------------------------------
(* Numbers. *)

LEMMA LeastNumber ==
  ASSUME NEW T, T \subseteq Nat, T # {}
  PROVE  \E n \in T : \A m \in T : n <= m
  <1>1. PICK R : /\ IsWellFoundedOn(R, Nat)
                 /\ \A m, n \in Nat : m < n => <<m, n>> \in R
    BY NatLessThanWellFounded DEF OpToRel
  <1>2. IsWellFoundedOn(R, Nat)
    BY <1>1
  <1>3. PICK n \in T : \A m \in T : ~ (<<m, n>> \in R)
    BY <1>2, WFMin, Zenon
  <1>4. ASSUME NEW m \in T  PROVE n <= m
    <2>1. n \in Nat /\ m \in Nat /\ ~ (<<m, n>> \in R)
      BY <1>3
    <2>2. ~ (m < n)
      BY <1>1, <2>1
    <2> QED  BY <2>1, <2>2
  <1> QED  BY <1>4

(* Some openings have a first and a last. *)
LEMMA FirstAndLast ==
  ASSUME NEW N, N \subseteq Nav, N # {}
  PROVE  Min(N) \in N /\ Max(N) \in N
  <1>1. N \subseteq Nat /\ MaxNav \in Nat /\ \A n \in N : n <= MaxNav
    BY RevealAssumption DEF Nav
  <1>2. \E n \in N : \A m \in N : n <= m
    BY <1>1, LeastNumber
  <1>3. \E n \in N : \A m \in N : n >= m
    <2> DEFINE T == {MaxNav - n : n \in N}
    <2>1. ASSUME NEW t \in T  PROVE t \in Nat
      <3>1. PICK n \in N : t = MaxNav - n
        OBVIOUS
      <3>2. n \in Nat /\ n <= MaxNav
        BY <1>1
      <3> QED  BY <3>1, <3>2, <1>1
    <2>2. T \subseteq Nat /\ T # {}
      BY <2>1
    <2> HIDE DEF T
    <2>3. PICK t \in T : \A u \in T : t <= u
      BY <2>2, LeastNumber
    <2>4. PICK n \in N : t = MaxNav - n
      BY <2>3 DEF T
    <2>5. ASSUME NEW m \in N  PROVE n >= m
      <3>1. MaxNav - m \in T
        BY DEF T
      <3>2. m \in Nat /\ n \in Nat /\ t <= MaxNav - m
        BY <3>1, <2>3, <1>1
      <3> QED  BY <3>2, <2>4, <1>1
    <2> QED  BY <2>5
  <1> QED  BY <1>2, <1>3 DEF Min, Max

-----------------------------------------------------------------------------
LEMMA InitReveal == RevealInit => RevealInv
  BY RevealAssumption DEF RevealInit, RevealInv, RevealTypeOK, Link, Page, Nav, Flow, Kept,
     KeyInBar, FlowInOrder, AnswerStands, Asks

LEMMA Typing ==
  ASSUME RevealInv
  PROVE  /\ left \in Int /\ navs \in Nat /\ MaxNav \in Nat
         /\ flow \in [Nav -> Flow]
         /\ pending \subseteq [nav : Nav, page : Page]
  <1>1. RevealTypeOK
    BY DEF RevealInv
  <1>2. MaxAttempts \in Nat /\ MaxNav \in Nat
    BY RevealAssumption
  <1>3. left \in 0 .. MaxAttempts
    BY <1>1 DEF RevealTypeOK
  <1>4. left \in Int
    BY <1>2, <1>3
  <1>5. /\ navs \in Nav /\ flow \in [Nav -> Flow]
        /\ pending \subseteq [nav : Nav, page : Page]
    BY <1>1, Zenon DEF RevealTypeOK
  <1> QED  BY <1>2, <1>4, <1>5 DEF Nav

(* With no flow moved, what is shown and what was answered stays true: a secret
   does not come back, and attempts only get fewer. *)
LEMMA FlowsRest ==
  ASSUME RevealInv, UNCHANGED flow, navs' \in Nat, navs <= navs',
         row' # "live" \/ row = "live", left' \in Int, left' <= left
  PROVE  /\ FlowInOrder'
         /\ \A c \in content : ContentOf(c)'
         /\ \A n \in Nav : AnswerStands(flow[n])'
  <1>1. flow' = flow /\ flow \in [Nav -> Flow] /\ left \in Int /\ navs \in Nat
    BY Typing
  <1>2. FlowInOrder'
    BY <1>1 DEF RevealInv, FlowInOrder, Asks, Nav
  <1>3. \A c \in content : ContentOf(c)'
    BY <1>1 DEF RevealInv, ContentOf
  <1>4. ASSUME NEW n \in Nav  PROVE AnswerStands(flow[n])'
    <2>1. AnswerStands(flow[n]) /\ flow[n] \in Flow
      BY <1>1 DEF RevealInv
    <2>2. flow[n].reply # None => flow[n].reply.left \in Int
      BY <2>1 DEF Flow, Reply
    <2>3. flow[n].shown \in Int
      BY <2>1 DEF Flow
    <2> QED  BY <1>1, <2>1, <2>2, <2>3 DEF AnswerStands
  <1> QED  BY <1>2, <1>3, <1>4

(* What a rendering leaves true of the contents and the flows. *)
LEMMA RenderedKeeps ==
  ASSUME RevealInv, NEW p \in Page, NEW N, N \subseteq Nav, N # {},
         NEW before, before \subseteq content, NEW here, NEW key \in BOOLEAN,
         Rendered(p, N, before, here, key), UNCHANGED <<row, left>>,
         \A n \in N : n <= navs',
         navs' \in Nat /\ navs <= navs',
         p = "secret" /\ here = "secret" /\ key => \A n \in N : flow[n].pc = "none"
  PROVE  /\ content' \subseteq [kind : Kind, nav : Nav] /\ flow' \in [Nav -> Flow]
         /\ FlowInOrder'
         /\ \A c \in content' : ContentOf(c)'
         /\ \A n \in Nav : AnswerStands(flow[n])'
  <1> DEFINE first == Min(N)
             last == Max(N)
  <1>0. left \in Int /\ left' = left /\ row' = row /\ flow \in [Nav -> Flow]
    BY Typing
  <1>1. first \in N /\ last \in N
    BY FirstAndLast
  <1> HIDE DEF first, last
  <1>2. CASE p = "other"
    <2>1. /\ content' = before \cup UNION {Item("other", n) : n \in N}
          /\ UNCHANGED flow
      BY <1>2 DEF Rendered
    <2>2. ASSUME NEW c \in content'
          PROVE  c \in content \/ \E n \in N : c = [kind |-> "other", nav |-> n]
      BY <2>1 DEF Item
    <2>3. content' \subseteq [kind : Kind, nav : Nav]
      BY <2>2 DEF RevealInv, RevealTypeOK, Kind
    <2>4. \A c \in content' : ContentOf(c)'
      BY <2>1, <2>2, FlowsRest, <1>0 DEF ContentOf, Keyed
    <2> QED  BY <2>1, <2>3, <2>4, FlowsRest, <1>0
  <1>3. CASE p = "secret" /\ here = "secret" /\ key
    <2>1. /\ flow' = [flow EXCEPT ![first].pc = "meta"]
          /\ \/ content' = Item("spinner", first)
             \/ content' = Item("no_key", last)
      BY <1>3 DEF Rendered, first, last
    <2>2. /\ flow \in [Nav -> Flow] /\ first \in Nav
          /\ flow[first].pc = "none" /\ flow[first].reply = None
      BY <1>1, <1>3 DEF RevealInv, RevealTypeOK, FlowInOrder, Asks
    <2>3. /\ flow' \in [Nav -> Flow]
          /\ flow'[first].pc = "meta" /\ flow'[first].reply = None
          /\ \A n \in Nav \ {first} : flow'[n] = flow[n]
      BY <2>1, <2>2 DEF Flow
    <2>4. FlowInOrder'
      BY <1>1, <2>2, <2>3 DEF RevealInv, RevealTypeOK, FlowInOrder, Asks, Nav
    <2>5. \A c \in content' : ContentOf(c)'
      BY <2>1, <2>2, <2>3 DEF Item, ContentOf, Keyed
    <2>6. \A n \in Nav : AnswerStands(flow[n])'
      BY <2>3 DEF RevealInv, AnswerStands
    <2>7. content' \subseteq [kind : Kind, nav : Nav]
      BY <2>1, <2>2, <1>1 DEF Item, Kind
    <2> QED  BY <2>3, <2>4, <2>5, <2>6, <2>7
  <1>4. CASE p = "secret" /\ ~ (here = "secret" /\ key)
    <2>1. content' = Item("no_key", last) /\ UNCHANGED flow
      BY <1>4 DEF Rendered, last
    <2>2. /\ content' \subseteq [kind : Kind, nav : Nav]
          /\ \A c \in content' : ContentOf(c)'
      BY <2>1, <1>1 DEF Item, Kind, ContentOf, Keyed
    <2> QED  BY <2>1, <2>2, FlowsRest, <1>0
  <1> QED  BY <1>2, <1>3, <1>4 DEF Page

-----------------------------------------------------------------------------
(* The router. *)

LEMMA OpenStep ==
  ASSUME RevealInv, NEW p \in Page, NEW key \in BOOLEAN, HandleRoute(p, key),
         p = "secret" \/ key = keyed
  PROVE  RevealInv'
  <1>1. /\ navs \in Nat /\ navs < MaxNav /\ navs' = navs + 1 /\ at' = p
        /\ UNCHANGED <<link, row, left, ready, timers>>
        /\ navs' \in Nav /\ MaxNav \in Nat /\ left \in Int
    BY Typing DEF HandleRoute, server, Nav
  <1>2. flow[navs'].pc = "none"
    BY <1>1 DEF RevealInv, FlowInOrder, Nav
  <1>3. CASE p \in ready
    <2>1. Rendered(p, {navs'}, {}, p, key) /\ UNCHANGED pending
      BY <1>3 DEF HandleRoute
    <2>2. /\ content' \subseteq [kind : Kind, nav : Nav] /\ flow' \in [Nav -> Flow]
          /\ FlowInOrder'
          /\ \A c \in content' : ContentOf(c)'
          /\ \A n \in Nav : AnswerStands(flow[n])'
      <3>1. {navs'} \subseteq Nav /\ {navs'} # {} /\ \A n \in {navs'} : n <= navs' /\ flow[n].pc = "none"
        BY <1>1, <1>2
      <3>2. UNCHANGED <<row, left>> /\ navs' \in Nat /\ navs <= navs' /\ {} \subseteq content
        BY <1>1
      <3> HIDE DEF Rendered
      <3> QED  BY <2>1, <3>1, <3>2, RenderedKeeps
    <2>3. keyed' \in BOOLEAN /\ (p = "secret" => keyed' = FALSE)
      BY <2>1 DEF Rendered, Page
    <2>4. keyed' => \A n \in Nav : flow'[n].pc = "none"
      BY <2>1, <2>3 DEF Rendered, Page, RevealInv, KeyInBar
    <2>5. KeyInBar'
      <3>1. "secret" \notin ready' => \A n \in Nav : flow'[n].pc = "none"
        BY <1>1, <1>3, <2>1 DEF Rendered, Page, RevealInv, KeyInBar
      <3> QED  BY <1>1, <2>3, <2>4, <3>1 DEF KeyInBar
    <2>6. RevealTypeOK' /\ (Kept => left > 0)'
      BY <1>1, <2>1, <2>2, <2>3 DEF RevealInv, RevealTypeOK, Kept
    <2>7. \A w \in pending' : (w.nav <= navs)'
      BY <1>1, <2>1, Typing DEF RevealInv, Nav
    <2> QED  BY <2>2, <2>5, <2>6, <2>7 DEF RevealInv
  <1>4. CASE p \notin ready
    <2>1. /\ pending' = pending \cup {[nav |-> navs', page |-> p]}
          /\ content' = {} /\ keyed' = key /\ UNCHANGED flow
      BY <1>4 DEF HandleRoute
    <2>2. KeyInBar'
      BY <1>1, <1>4, <2>1 DEF RevealInv, KeyInBar, Page
    <2>3. RevealTypeOK' /\ (Kept => left > 0)'
      BY <1>1, <2>1 DEF RevealInv, RevealTypeOK, Kept
    <2>4. FlowInOrder' /\ \A n \in Nav : AnswerStands(flow[n])'
      BY <1>1, <2>1, FlowsRest
    <2>5. \A w \in pending' : (w.nav <= navs)'
      BY <1>1, <2>1, Typing DEF RevealInv, Nav
    <2> QED  BY <2>1, <2>2, <2>3, <2>4, <2>5 DEF RevealInv
  <1> QED  BY <1>3, <1>4

LEMMA ChunkStep ==
  ASSUME RevealInv, NEW p \in Page, ChunkArrives(p) \/ ChunkFails(p)
  PROVE  RevealInv'
  <1>1. /\ Waiting(p) \subseteq Nav /\ Waiting(p) # {}
        /\ left \in Int /\ navs \in Nat
        /\ UNCHANGED <<link, row, left, at, navs, timers>>
        /\ pending' = {w \in pending : w.page # p}
        /\ \A w \in pending' : (w.nav <= navs)'
    BY Typing DEF ChunkArrives, ChunkFails, Waiting, server, RevealInv
  <1>2. CASE ChunkFails(p)
    <2>1. content' = Item("load_error", Max(Waiting(p))) /\ UNCHANGED <<keyed, ready, flow>>
      BY <1>2 DEF ChunkFails
    <2>2. Max(Waiting(p)) \in Nav
      BY <1>1, FirstAndLast
    <2>3. RevealTypeOK' /\ (Kept => left > 0)' /\ KeyInBar'
      BY <1>1, <2>1, <2>2 DEF RevealInv, RevealTypeOK, Kept, KeyInBar, Item, Kind
    <2>4. FlowInOrder' /\ \A n \in Nav : AnswerStands(flow[n])'
      BY <1>1, <2>1, FlowsRest
    <2>5. \A c \in content' : ContentOf(c)'
      BY <2>1 DEF Item, ContentOf, Keyed
    <2> QED  BY <1>1, <2>3, <2>4, <2>5 DEF RevealInv
  <1>3. CASE ChunkArrives(p)
    <2>1. Rendered(p, Waiting(p), content, at, keyed) /\ ready' = ready \cup {p}
      BY <1>3 DEF ChunkArrives
    <2>2. p = "secret" /\ at = "secret" /\ keyed => \A n \in Waiting(p) : flow[n].pc = "none"
      BY <1>1 DEF RevealInv, KeyInBar
    <2>3. /\ content' \subseteq [kind : Kind, nav : Nav] /\ flow' \in [Nav -> Flow]
          /\ FlowInOrder'
          /\ \A c \in content' : ContentOf(c)'
          /\ \A n \in Nav : AnswerStands(flow[n])'
      <3>1. \A n \in Waiting(p) : n <= navs'
        BY <1>1 DEF Waiting, RevealInv
      <3>2. UNCHANGED <<row, left>> /\ navs' \in Nat /\ navs <= navs' /\ keyed \in BOOLEAN
        BY <1>1 DEF RevealInv, RevealTypeOK
      <3> QED  BY <1>1, <2>1, <2>2, <3>1, <3>2, RenderedKeeps
    <2>4. KeyInBar' /\ keyed' \in BOOLEAN
      BY <1>1, <2>1 DEF Rendered, Page, RevealInv, RevealTypeOK, KeyInBar
    <2>5. RevealTypeOK' /\ (Kept => left > 0)'
      BY <1>1, <2>1, <2>3, <2>4 DEF RevealInv, RevealTypeOK, Kept
    <2> QED  BY <1>1, <2>3, <2>4, <2>5 DEF RevealInv
  <1> QED  BY <1>2, <1>3

-----------------------------------------------------------------------------
(* The visitor, the server, and the page with its answers. *)

(* One opening moves on that has begun; the others, and the bar, stay. *)
LEMMA FlowMoves ==
  ASSUME RevealInv, NEW n \in Nav, flow[n].pc # "none",
         flow' \in [Nav -> Flow], \A m \in Nav \ {n} : flow'[m] = flow[m],
         flow'[n].pc # "none", ~ Asks(n)' => flow'[n].reply = None, AnswerStands(flow[n])',
         UNCHANGED <<link, router>>, content' \subseteq [kind : Kind, nav : Nav], timers' \subseteq Nav,
         row' \in {"live", "viewed", "gone", "destroyed"}, row' = "live" => row = "live",
         left' \in 0 .. MaxAttempts, left' <= left, Kept' => left' > 0,
         \A c \in content' : ContentOf(c)'
  PROVE  RevealInv'
  <1>1. UNCHANGED <<link, at, keyed, ready, pending, navs>>
    BY DEF router
  <1>2. RevealTypeOK'
    BY <1>1 DEF RevealInv, RevealTypeOK
  <1>3. KeyInBar'
    BY <1>1 DEF RevealInv, KeyInBar
  <1>4. FlowInOrder'
    BY <1>1, Typing DEF RevealInv, FlowInOrder, Asks
  <1>5. \A w \in pending' : (w.nav <= navs)'
    BY <1>1 DEF RevealInv
  <1>6. ASSUME NEW m \in Nav  PROVE AnswerStands(flow[m])'
    <2>1. CASE m # n
      <3>1. AnswerStands(flow[m]) /\ flow[m] \in Flow /\ flow'[m] = flow[m]
        BY <2>1, Typing DEF RevealInv
      <3>2. flow[m].reply # None => flow[m].reply.left \in Int
        BY <3>1 DEF Flow, Reply
      <3>3. flow[m].shown \in Int
        BY <3>1 DEF Flow
      <3>4. left \in Int /\ left' \in Int
        BY Typing, RevealAssumption
      <3> QED  BY <3>1, <3>2, <3>3, <3>4 DEF AnswerStands
    <2> QED  BY <2>1
  <1> QED  BY <1>2, <1>3, <1>4, <1>5, <1>6 DEF RevealInv

(* What stays on the page while opening n goes on unseen, or at its form. *)
LEMMA ContentStays ==
  ASSUME RevealInv, NEW n \in Nav, \A m \in Nav \ {n} : flow'[m] = flow[m],
         \/ flow'[n].pc = flow[n].pc
         \/ {flow[n].pc, flow'[n].pc} \subseteq {"password", "verify"},
         row' = "live" => row = "live"
  PROVE  \A c \in content : ContentOf(c)'
  <1> SUFFICES ASSUME NEW c \in content  PROVE ContentOf(c)'
    OBVIOUS
  <1>1. ContentOf(c) /\ c.nav \in Nav
    BY DEF RevealInv, RevealTypeOK
  <1> QED  BY <1>1 DEF ContentOf

LEMMA Types ==
  ASSUME RevealInv
  PROVE  /\ content \subseteq [kind : Kind, nav : Nav] /\ timers \subseteq Nav
         /\ row \in {"live", "viewed", "gone", "destroyed"}
         /\ left \in 0 .. MaxAttempts /\ left <= left
         /\ Kept => left > 0
         /\ \A n \in Nav : /\ flow[n] \in Flow /\ AnswerStands(flow[n])
                           /\ ~ Asks(n) => flow[n].reply = None
         /\ \A c \in content : ContentOf(c)
  BY Typing DEF RevealInv, RevealTypeOK, FlowInOrder

LEMMA ClickStep ==
  ASSUME RevealInv, NEW n \in Nav, ClickReveal(n)
  PROVE  RevealInv'
  <1>1. /\ [kind |-> "ask", nav |-> n] \in content
        /\ flow' = [flow EXCEPT ![n].pc = "get"] /\ content' = Item("spinner", n)
        /\ UNCHANGED <<link, row, left, router, timers>>
    BY DEF ClickReveal, Shows, server
  <1>2. flow[n].pc = "ask" /\ flow[n].reply = None
    BY <1>1, Types DEF ContentOf, Asks
  <1>3. /\ flow' \in [Nav -> Flow] /\ \A m \in Nav \ {n} : flow'[m] = flow[m]
        /\ flow'[n].pc = "get" /\ flow'[n].reply = None
    BY <1>1, <1>2, Typing DEF Flow
  <1>4. AnswerStands(flow[n])'
    BY <1>3 DEF AnswerStands
  <1>5. content' \subseteq [kind : Kind, nav : Nav] /\ \A c \in content' : ContentOf(c)'
    BY <1>1, <1>3 DEF Item, Kind, ContentOf, Keyed
  <1>6. row' = row /\ left' = left /\ timers' = timers /\ (Kept' => left' > 0)
    BY <1>1, Types DEF Kept
  <1> QED  BY <1>1, <1>2, <1>3, <1>4, <1>5, <1>6, Types, FlowMoves

LEMMA SubmitStep ==
  ASSUME RevealInv, NEW n \in Nav, SubmitPassword(n)
  PROVE  RevealInv'
  <1>1. PICK right \in BOOLEAN :
          flow' = [flow EXCEPT ![n].pc = "verify", ![n].guess = right]
    BY DEF SubmitPassword
  <1>2. /\ flow[n].pc = "password" /\ flow[n].reply = None
        /\ UNCHANGED <<link, row, left, router, timers, content>>
    BY Types DEF SubmitPassword, server, Asks
  <1>3. /\ flow' \in [Nav -> Flow] /\ \A m \in Nav \ {n} : flow'[m] = flow[m]
        /\ flow'[n].pc = "verify" /\ flow'[n].reply = None /\ flow'[n].shown = flow[n].shown
    BY <1>1, <1>2, Typing DEF Flow
  <1>4. AnswerStands(flow[n])'
    BY <1>2, <1>3, Types DEF AnswerStands
  <1>5. content' \subseteq [kind : Kind, nav : Nav] /\ \A c \in content' : ContentOf(c)'
    BY <1>2, <1>3, Types, ContentStays
  <1>6. row' = row /\ left' = left /\ timers' = timers /\ (Kept' => left' > 0)
    BY <1>2, Types DEF Kept
  <1> QED  BY <1>2, <1>3, <1>4, <1>5, <1>6, Types, FlowMoves

(* The server answers an opening, or nobody does. *)
LEMMA AnswerStep ==
  ASSUME RevealInv, NEW n \in Nav, Asks(n), UNCHANGED <<link, router, content, timers>>,
         row' \in {"live", "viewed", "gone", "destroyed"}, row' = "live" => row = "live",
         left' \in 0 .. MaxAttempts, left' <= left, Kept' => left' > 0,
         \E r \in Reply : /\ Replies(n, r)
                          /\ r.whole => row' # "live"
                          /\ flow[n].pc = "meta" /\ r.status = 200 => left' <= r.left
                          /\ r.status = 403 => left' <= r.left
  PROVE  RevealInv'
  <1>1. PICK r \in Reply : /\ flow' = [flow EXCEPT ![n].reply = r]
                           /\ r.whole => row' # "live"
                           /\ flow[n].pc = "meta" /\ r.status = 200 => left' <= r.left
                           /\ r.status = 403 => left' <= r.left
    BY DEF Replies
  <1>2. /\ flow' \in [Nav -> Flow] /\ \A m \in Nav \ {n} : flow'[m] = flow[m]
        /\ flow'[n].reply = r /\ flow'[n].pc = flow[n].pc
        /\ flow[n].pc \in {"meta", "get", "verify"} /\ flow'[n].shown = flow[n].shown
    <2>1. flow \in [Nav -> Flow] /\ flow[n] \in Flow
      BY Typing
    <2>2. [flow[n] EXCEPT !.reply = r] \in Flow
      BY <1>1, <2>1 DEF Flow
    <2>3. flow' = [flow EXCEPT ![n] = [flow[n] EXCEPT !.reply = r]]
      BY <1>1, Zenon
    <2>4. flow' \in [Nav -> Flow] /\ \A m \in Nav \ {n} : flow'[m] = flow[m]
      BY <2>1, <2>2, <2>3
    <2>5. flow'[n] = [flow[n] EXCEPT !.reply = r]
      BY <2>1, <2>3
    <2> QED  BY <2>1, <2>4, <2>5 DEF Flow, Asks
  <1>3. AnswerStands(flow[n])'
    <2>1. flow[n].shown \in Int /\ left \in Int /\ left' \in Int
      BY Types, Typing, RevealAssumption DEF Flow
    <2>2. flow[n].pc \in {"password", "verify"} => left <= flow[n].shown
      BY Types DEF AnswerStands
    <2>3. flow[n].pc \in {"password", "verify"} => left' <= flow'[n].shown
      BY <1>2, <2>1, <2>2
    <2> QED  BY <1>1, <1>2, <2>3 DEF AnswerStands
  <1>4. content' \subseteq [kind : Kind, nav : Nav] /\ \A c \in content' : ContentOf(c)'
    BY <1>2, Types, ContentStays
  <1>5. Asks(n)' /\ timers' \subseteq Nav
    BY <1>2, Types DEF Asks
  <1> QED  BY <1>2, <1>3, <1>4, <1>5, FlowMoves

(* A wrong password, whoever types it. *)
LEMMA WrongCounts ==
  ASSUME RevealInv, Kept, WrongPassword
  PROVE  /\ left' \in 0 .. MaxAttempts /\ left' <= left
         /\ row' \in {"live", "viewed", "gone", "destroyed"}
         /\ row' = "live" => row = "live"
         /\ Kept' => left' > 0
  <1>1. left > 0 /\ left \in 0 .. MaxAttempts /\ MaxAttempts \in Nat
    BY Types, RevealAssumption
  <1>2. left' = left - 1 /\ left' \in 0 .. MaxAttempts /\ left' <= left
    BY <1>1 DEF WrongPassword
  <1> QED  BY <1>2, Types DEF WrongPassword, Kept

LEMMA NotFoundReply ==
  NotFound \in Reply /\ ~ NotFound.whole /\ NotFound.status = 404
  BY RevealAssumption DEF NotFound, Answer, Reply

LEMMA ServeGetStep ==
  ASSUME RevealInv, NEW n \in Nav, Asks(n), flow[n].pc # "meta", ServeGet(n),
         UNCHANGED <<link, router, content, timers>>
  PROVE  RevealInv'
  <1>1. row' \in {"live", "viewed", "gone", "destroyed"} /\ (row' = "live" => row = "live")
    BY Types DEF ServeGet, Taken
  <1>2. left' = left /\ (Kept' => left' > 0)
    BY Types DEF ServeGet, Taken, Kept
  <1>3. CASE Kept
    <2> DEFINE r == Answer(200, 0, row = "live")
    <2>1. r \in Reply /\ r.status = 200
      BY RevealAssumption DEF Answer, Reply
    <2>2. Replies(n, r) /\ row' # "live"
      BY <1>3 DEF ServeGet, Taken
    <2> HIDE DEF r
    <2> QED  BY <1>1, <1>2, <2>1, <2>2, Types, AnswerStep
  <1>4. CASE ~ Kept
    <2>1. Replies(n, NotFound)
      BY <1>4 DEF ServeGet
    <2> QED  BY <1>1, <1>2, <2>1, Types, NotFoundReply, AnswerStep
  <1> QED  BY <1>3, <1>4

LEMMA ServeStep ==
  ASSUME RevealInv, NEW n \in Nav, Serve(n)
  PROVE  RevealInv'
  <1>1. Asks(n) /\ UNCHANGED <<link, router, content, timers>>
    BY DEF Serve
  <1>2. CASE flow[n].pc = "meta"
    <2>1. ServeMeta(n)
      BY <1>2 DEF Serve
    <2>2. row' = row /\ left' = left /\ (Kept' => left' > 0)
      BY <2>1, Types DEF ServeMeta, server, Kept
    <2>3. PICK r \in Reply : /\ Replies(n, r) /\ ~ r.whole /\ r.status # 403
                             /\ r.status = 200 => left <= r.left
      <3>1. CASE Kept
        <4> DEFINE r == Answer(200, left, FALSE)
        <4>1. r \in Reply /\ ~ r.whole /\ r.status = 200 /\ r.left = left
          BY Types DEF Answer, Reply
        <4>2. Replies(n, r)
          BY <2>1, <3>1 DEF ServeMeta
        <4> HIDE DEF r
        <4> QED  BY <4>1, <4>2, Types
      <3>2. CASE ~ Kept
        BY <2>1, <3>2, NotFoundReply DEF ServeMeta
      <3> QED  BY <3>1, <3>2
    <2> QED  BY <1>1, <2>2, <2>3, Types, AnswerStep
  <1>3. CASE flow[n].pc = "get"
    BY <1>1, <1>3, ServeGetStep DEF Serve
  <1>4. CASE flow[n].pc = "verify"
    <2>1. ServeVerify(n)
      BY <1>4 DEF Serve
    <2>2. CASE Kept /\ ~ flow[n].guess
      <3>1. WrongPassword /\ Replies(n, IF left' = 0 THEN NotFound ELSE Answer(403, left', FALSE))
        BY <2>1, <2>2 DEF ServeVerify
      <3>2. /\ left' \in 0 .. MaxAttempts /\ left' <= left
            /\ row' \in {"live", "viewed", "gone", "destroyed"}
            /\ row' = "live" => row = "live"
            /\ Kept' => left' > 0
        BY <2>2, <3>1, WrongCounts
      <3>3. PICK r \in Reply : /\ Replies(n, r) /\ ~ r.whole /\ r.status # 200
                               /\ r.status = 403 => left' <= r.left
        <4>1. CASE left' = 0
          BY <3>1, <4>1, NotFoundReply
        <4>2. CASE left' # 0
          <5>1. left' <= left'
            BY <3>2, RevealAssumption
          <5> DEFINE r == Answer(403, left', FALSE)
          <5>2. r \in Reply /\ ~ r.whole /\ r.status = 403 /\ r.left = left'
            BY <3>2 DEF Answer, Reply
          <5>3. Replies(n, r)
            BY <3>1, <4>2
          <5> HIDE DEF r
          <5> QED  BY <5>1, <5>2, <5>3
        <4> QED  BY <4>1, <4>2
      <3> QED  BY <1>1, <3>2, <3>3, AnswerStep
    <2>3. CASE ~ (Kept /\ ~ flow[n].guess)
      BY <1>1, <1>4, <2>1, <2>3, ServeGetStep DEF ServeVerify
    <2> QED  BY <2>2, <2>3
  <1> QED  BY <1>1, <1>2, <1>3, <1>4 DEF Asks

LEMMA LoseStep ==
  ASSUME RevealInv, NEW n \in Nav, Lose(n)
  PROVE  RevealInv'
  <1>1. Asks(n) /\ UNCHANGED <<link, row, left, router, content, timers>>
    BY DEF Lose, server
  <1>2. PICK r \in Reply : Replies(n, r) /\ ~ r.whole /\ r.status = 0
    <2>1. Answer(0, 0, FALSE) \in Reply /\ ~ Answer(0, 0, FALSE).whole /\ Answer(0, 0, FALSE).status = 0
      BY RevealAssumption DEF Answer, Reply
    <2> QED  BY <2>1 DEF Lose
  <1>3. row' = row /\ left' = left /\ (Kept' => left' > 0)
    BY <1>1, Types DEF Kept
  <1> QED  BY <1>1, <1>2, <1>3, Types, AnswerStep

(* Elsewhere. *)
LEMMA ElsewhereStep ==
  ASSUME RevealInv, OthersTake \/ OthersGuess \/ Expires
  PROVE  RevealInv'
  <1>1. UNCHANGED <<link, at, keyed, ready, pending, navs, content, flow, timers>>
    BY DEF OthersTake, OthersGuess, Expires, router
  <1>2. /\ left' \in 0 .. MaxAttempts /\ left' <= left
        /\ row' \in {"live", "viewed", "gone", "destroyed"}
        /\ row' = "live" => row = "live"
        /\ Kept' => left' > 0
    <2>1. CASE OthersGuess
      BY <2>1, WrongCounts DEF OthersGuess
    <2>2. CASE OthersTake \/ Expires
      BY <2>2, Types DEF OthersTake, Expires, Taken, Kept
    <2> QED  BY <2>1, <2>2
  <1>3. /\ FlowInOrder' /\ \A c \in content : ContentOf(c)'
        /\ \A n \in Nav : AnswerStands(flow[n])'
    <2>1. left' \in Int /\ navs' \in Nat /\ navs <= navs'
      BY <1>1, <1>2, Typing, RevealAssumption
    <2> QED  BY <1>1, <1>2, <2>1, FlowsRest
  <1>4. RevealTypeOK' /\ KeyInBar' /\ \A w \in pending' : (w.nav <= navs)'
    BY <1>1, <1>2 DEF RevealInv, RevealTypeOK, KeyInBar
  <1> QED  BY <1>1, <1>2, <1>3, <1>4 DEF RevealInv

-----------------------------------------------------------------------------
(* The page goes on with an answer. *)

LEMMA EndsStep ==
  ASSUME RevealInv, NEW n \in Nav, flow[n].pc # "none",
         NEW kind \in Kind \ {"ask", "password"}, kind \in {"secret", "hidden"} => row # "live",
         content' = Item(kind, n),
         flow' = [flow EXCEPT ![n].pc = "over", ![n].reply = None],
         timers' \subseteq Nav, UNCHANGED <<link, server, router>>
  PROVE  RevealInv'
  <1>1. /\ flow' \in [Nav -> Flow] /\ \A m \in Nav \ {n} : flow'[m] = flow[m]
        /\ flow'[n].pc = "over" /\ flow'[n].reply = None
    BY Typing DEF Flow
  <1>2. AnswerStands(flow[n])'
    BY <1>1 DEF AnswerStands
  <1>3. row' = row /\ left' = left /\ (Kept' => left' > 0)
    BY Types DEF server, Kept
  <1>4. content' \subseteq [kind : Kind, nav : Nav] /\ \A c \in content' : ContentOf(c)'
    BY <1>1, <1>3 DEF Item, ContentOf
  <1> QED  BY <1>1, <1>2, <1>3, <1>4, Types, FlowMoves

(* An opening whose form is shown, or whose form counts down. *)
LEMMA FormStep ==
  ASSUME RevealInv, NEW n \in Nav, flow[n].pc # "none",
         NEW attempts \in 0 .. MaxAttempts, left <= attempts,
         flow' = [flow EXCEPT ![n] = [@ EXCEPT !.pc = "password", !.reply = None,
                                               !.shown = attempts]],
         content' = Item("password", n) \/ (content' = content /\ flow[n].pc = "verify"),
         UNCHANGED <<link, server, router, timers>>
  PROVE  RevealInv'
  <1>1. /\ flow' \in [Nav -> Flow] /\ \A m \in Nav \ {n} : flow'[m] = flow[m]
        /\ flow'[n].pc = "password" /\ flow'[n].reply = None /\ flow'[n].shown = attempts
    BY Typing DEF Flow
  <1>2. row' = row /\ left' = left /\ timers' = timers /\ (Kept' => left' > 0)
    BY Types DEF server, Kept
  <1>3. AnswerStands(flow[n])'
    BY <1>1, <1>2 DEF AnswerStands
  <1>4. content' \subseteq [kind : Kind, nav : Nav] /\ \A c \in content' : ContentOf(c)'
    <2>1. CASE content' = Item("password", n)
      BY <1>1, <2>1 DEF Item, Kind, ContentOf
    <2>2. CASE content' = content /\ flow[n].pc = "verify"
      BY <1>1, <1>2, <2>2, Types, ContentStays
    <2> QED  BY <2>1, <2>2
  <1> QED  BY <1>1, <1>2, <1>3, <1>4, Types, FlowMoves

LEMMA AskStep ==
  ASSUME RevealInv, NEW n \in Nav, flow[n].pc # "none", Interstitial(n),
         UNCHANGED <<link, server, router>>
  PROVE  RevealInv'
  <1>1. /\ flow' \in [Nav -> Flow] /\ \A m \in Nav \ {n} : flow'[m] = flow[m]
        /\ flow'[n].pc = "ask" /\ flow'[n].reply = None
    BY Typing DEF Flow, Interstitial
  <1>2. AnswerStands(flow[n])'
    BY <1>1 DEF AnswerStands
  <1>3. row' = row /\ left' = left /\ timers' = timers /\ (Kept' => left' > 0)
    BY Types DEF server, Kept, Interstitial
  <1>4. content' \subseteq [kind : Kind, nav : Nav] /\ \A c \in content' : ContentOf(c)'
    BY <1>1 DEF Item, Kind, ContentOf, Interstitial
  <1> QED  BY <1>1, <1>2, <1>3, <1>4, Types, FlowMoves

LEMMA CiphertextStep ==
  ASSUME RevealInv, NEW n \in Nav, flow[n].pc # "none", flow[n].reply # None,
         GotCiphertext(n, flow[n].reply), UNCHANGED <<link, server, router>>
  PROVE  RevealInv'
  <1> DEFINE r == flow[n].reply
             opens == r.status = 200 /\ r.whole /\ link.rightKey
  <1>1. opens => row # "live"
    BY Types DEF AnswerStands
  <1>2. timers \subseteq Nav
    BY Types
  <1>3. CASE opens
    <2>1. Revealed(n)
      BY <1>3 DEF GotCiphertext
    <2>2. timers' \subseteq Nav
      BY <1>2, <2>1 DEF Revealed
    <2>3. /\ content' = Item("secret", n)
          /\ flow' = [flow EXCEPT ![n].pc = "over", ![n].reply = None]
      BY <2>1 DEF Revealed
    <2>4. "secret" \in Kind \ {"ask", "password"}
      BY DEF Kind
    <2>5. row # "live"
      BY <1>1, <1>3
    <2> HIDE DEF r, opens
    <2> QED  BY <2>2, <2>3, <2>4, <2>5, EndsStep
  <1>4. CASE ~ opens
    <2>1. Ends(n, "decrypt_failed") \/ Ends(n, "not_available")
      BY <1>4 DEF GotCiphertext
    <2>2. {"decrypt_failed", "not_available"} \subseteq Kind \ {"ask", "password", "secret", "hidden"}
      BY DEF Kind
    <2>3. PICK kind \in {"decrypt_failed", "not_available"} : Ends(n, kind)
      BY <2>1
    <2> QED  BY <1>2, <2>2, <2>3, EndsStep DEF Ends
  <1> QED  BY <1>3, <1>4

LEMMA ContinueStep ==
  ASSUME RevealInv, NEW n \in Nav, Continue(n)
  PROVE  RevealInv'
  <1> DEFINE r == flow[n].reply
  <1>1. /\ r # None /\ flow[n].pc \in {"meta", "get", "verify"}
        /\ r \in Reply /\ AnswerStands(flow[n])
    BY Types DEF Continue, Asks, Flow
  <1>2. UNCHANGED <<link, server, router>> /\ timers \subseteq Nav
    BY Types DEF Continue, Got
  <1>3. CASE flow[n].pc = "meta"
    <2>1. GotMeta(n, r)
      BY <1>3 DEF Continue, Got
    <2>2. CASE r.status # 200
      <3>1. PICK kind \in {"already_viewed", "not_available"} : Ends(n, kind)
        BY <2>1, <2>2 DEF GotMeta, MetaError
      <3>2. kind \in Kind \ {"ask", "password", "secret", "hidden"}
        BY DEF Kind
      <3> QED  BY <1>1, <1>2, <3>1, <3>2, EndsStep DEF Ends
    <2>3. CASE r.status = 200 /\ link.protected
      <3>1. PasswordEntry(n, r.left)
        BY <2>1, <2>3 DEF GotMeta
      <3>2. r.left \in 0 .. MaxAttempts /\ left <= r.left
        BY <1>1, <1>3, <2>3 DEF Reply, AnswerStands
      <3> QED  BY <1>1, <1>2, <3>1, <3>2, FormStep DEF PasswordEntry
    <2>4. CASE r.status = 200 /\ ~ link.protected
      <3>1. Interstitial(n)
        BY <2>1, <2>4 DEF GotMeta
      <3> QED  BY <1>1, <1>2, <3>1, AskStep
    <2> QED  BY <2>2, <2>3, <2>4
  <1>4. CASE flow[n].pc = "get"
    <2>1. GotCiphertext(n, r)
      BY <1>4 DEF Continue, Got
    <2> QED  BY <1>1, <1>2, <2>1, CiphertextStep
  <1>5. CASE flow[n].pc = "verify"
    <2>1. GotVerdict(n, r)
      BY <1>5 DEF Continue, Got
    <2>2. CASE r.status # 403
      BY <1>1, <1>2, <2>1, <2>2, CiphertextStep DEF GotVerdict
    <2>3. CASE r.status = 403 /\ r.left = 0
      <3>1. Ends(n, "destroyed") /\ "destroyed" \in Kind \ {"ask", "password"}
        BY <2>1, <2>3 DEF GotVerdict, Kind
      <3> QED  BY <1>1, <1>2, <3>1, EndsStep DEF Ends
    <2>4. CASE r.status = 403 /\ r.left # 0
      <3>1. r.left \in 0 .. MaxAttempts /\ left <= r.left
        BY <1>1, <2>4 DEF Reply, AnswerStands
      <3>2. /\ flow' = [flow EXCEPT ![n] = [@ EXCEPT !.pc = "password", !.reply = None,
                                                      !.shown = r.left]]
            /\ UNCHANGED <<content, timers>>
        BY <2>1, <2>4 DEF GotVerdict
      <3> HIDE DEF r
      <3> QED  BY <1>2, <1>5, <3>1, <3>2, FormStep
    <2> QED  BY <2>2, <2>3, <2>4
  <1> QED  BY <1>1, <1>3, <1>4, <1>5

LEMMA BurnStep ==
  ASSUME RevealInv, NEW n \in Nav, BurnEnds(n)
  PROVE  RevealInv'
  <1>1. /\ UNCHANGED <<link, row, left, at, keyed, ready, pending, navs, flow>>
        /\ timers' \subseteq Nav
    BY Types DEF BurnEnds, server, router
  <1>2. ASSUME NEW c \in content', c \notin content
        PROVE  /\ c = [kind |-> "hidden", nav |-> n]
               /\ [kind |-> "secret", nav |-> n] \in content
    BY <1>2 DEF BurnEnds, Item, Shows
  <1>3. FlowInOrder' /\ (\A c \in content : ContentOf(c)') /\ \A m \in Nav : AnswerStands(flow[m])'
    BY <1>1, Typing, FlowsRest
  <1>4. content' \subseteq [kind : Kind, nav : Nav]
    BY <1>2, Types DEF Kind
  <1>5. \A c \in content' : ContentOf(c)'
    BY <1>1, <1>2, <1>3 DEF ContentOf, Keyed
  <1>6. RevealTypeOK' /\ KeyInBar' /\ (Kept => left > 0)' /\ \A w \in pending' : (w.nav <= navs)'
    BY <1>1, <1>4 DEF RevealInv, RevealTypeOK, KeyInBar, Kept
  <1> QED  BY <1>3, <1>5, <1>6 DEF RevealInv

-----------------------------------------------------------------------------
(* RevealInv is inductive. *)
LEMMA StepReveal == RevealInv /\ [Next]_vars => RevealInv'
  <1> SUFFICES ASSUME RevealInv, [Next]_vars  PROVE RevealInv'
    OBVIOUS
  <1>1. CASE Opens
    <2>1. keyed \in BOOLEAN
      BY DEF RevealInv, RevealTypeOK
    <2> QED  BY <1>1, <2>1, OpenStep DEF Opens, Leave, Return, OpenAgain, Page
  <1>2. ASSUME NEW p \in Page, ChunkArrives(p) \/ ChunkFails(p)  PROVE RevealInv'
    BY <1>2, ChunkStep
  <1>3. ASSUME NEW n \in Nav, ClickReveal(n) \/ SubmitPassword(n) \/ Serve(n) \/ Lose(n)
        PROVE  RevealInv'
    BY <1>3, ClickStep, SubmitStep, ServeStep, LoseStep
  <1>4. ASSUME NEW n \in Nav, Continue(n) \/ BurnEnds(n)  PROVE RevealInv'
    BY <1>4, ContinueStep, BurnStep
  <1>5. CASE OthersTake \/ OthersGuess \/ Expires
    BY <1>5, ElsewhereStep
  <1>6. CASE UNCHANGED vars
    BY <1>6 DEF vars, RevealInv, RevealTypeOK, Kept, KeyInBar, FlowInOrder, Asks, ContentOf, AnswerStands
  <1> QED  BY <1>1, <1>2, <1>3, <1>4, <1>5, <1>6 DEF Next

LEMMA RevealInvariant == Spec => []RevealInv
  BY InitReveal, StepReveal, PTL DEF Spec

(* A secret that the page shows as deleted cannot be had any more, and its
   password form never tells of fewer attempts than are left (reveal.ts:444). *)
THEOREM WhatIsShownIsTrue == Spec => []ShownIsTrue
  <1>1. RevealInv => ShownIsTrue
    <2> SUFFICES ASSUME RevealInv, NEW n \in Nav
                 PROVE  /\ Shows("secret", n) \/ Shows("hidden", n) => row # "live"
                        /\ Shows("password", n) /\ Kept => left <= flow[n].shown
      BY DEF ShownIsTrue
    <2>1. Shows("secret", n) \/ Shows("hidden", n) => row # "live"
      BY DEF RevealInv, ContentOf, Shows
    <2>2. Shows("password", n) => flow[n].pc \in {"password", "verify"}
      BY DEF RevealInv, ContentOf, Shows
    <2> QED  BY <2>1, <2>2, Types DEF AnswerStands
  <1> QED  BY <1>1, RevealInvariant, PTL

(* While anything is shown of an opening that has the key, the address bar does
   not have it, through leaving, coming back and opening again (reveal.ts:6). *)
THEOREM KeyIsStripped == Spec => []KeyStripped
  <1>1. RevealInv => KeyStripped
    BY DEF RevealInv, RevealTypeOK, KeyInBar, ContentOf, KeyStripped, Keyed
  <1> QED  BY <1>1, RevealInvariant, PTL
-----------------------------------------------------------------------------
(* The dashboard. *)

InOrder(items) == \A i, j \in 1 .. Len(items) : i < j => Newer(items[i], items[j])
Ids(items) == {items[i].id : i \in 1 .. Len(items)}

(* A cursor goes on where these rows end. *)
EndsAt(items, cursor) ==
    cursor # Null => items # <<>> /\ cursor = CursorOf(items[Len(items)])

(* The page after this cursor would have the row of id. *)
After(id, cursor) ==
    cursor # Null /\ (cursor.at > rows[id].at \/ (cursor.at = rows[id].at /\ cursor.id > id))

Fetch == [n : Nat, tab : Tab, cursor : Cursor \cup {Null}, first : BOOLEAN, own : BOOLEAN,
          reply : ListResponse \cup {Null}]

TableTypeOK ==
    /\ rows \in [Id -> Row \cup {Null, Gone}]
    /\ now \in Time
    /\ currentStatus \in Tab
    /\ currentCursor \in Cursor \cup {Null}
    /\ pageRows \in Seq(SecretItem)
    /\ fetched \in Nat
    /\ fetches \subseteq Fetch
    /\ tidy \in BOOLEAN

(* What was answered is a page of its tab, beyond its cursor. *)
RepliesRight ==
    \A f \in fetches : f.reply # Null =>
        /\ InOrder(f.reply.secrets)
        /\ EndsAt(f.reply.secrets, f.reply.next)
        /\ \A i \in 1 .. Len(f.reply.secrets) :
               Matches(f.reply.secrets[i], f.tab) /\ Beyond(f.reply.secrets[i], f.cursor)

(* The steady rows are there, as they were. *)
SteadyStays ==
    steady \subseteq {id \in Existing : Matches(rows[id], currentStatus) /\ Discerned(id)}

(* The tab awaits one call of its own at most until its first page comes, and
   while it is tidy: that page, and then the one after its last row. *)
OneFetch ==
    \A f \in fetches : f.own =>
        /\ f.tab = currentStatus
        /\ f.first => f.cursor = Null
        /\ f.first \/ tidy => \A g \in fetches : g.own => g = f
        /\ tidy => ~ f.first /\ f.cursor = currentCursor /\ currentCursor # Null /\ isLoadingMore

(* Its cursor is where its rows end... *)
TableEnds == tidy => EndsAt(pageRows, currentCursor)

(* ...and what is steady is shown, or further on. *)
NothingSkipped ==
    tidy => \A id \in steady : id \in Ids(pageRows) \/ After(id, currentCursor)

(* What was answered to a call of its own skipped nothing. *)
RepliesWhole ==
    \A f \in fetches : f.own /\ f.reply # Null =>
        \A id \in steady :
            \/ f.cursor # Null /\ ~ After(id, f.cursor)
            \/ id \in Ids(f.reply.secrets)
            \/ After(id, f.reply.next)

TableInv ==
    /\ TableTypeOK
    /\ RepliesRight
    /\ SteadyStays
    /\ OneFetch
    /\ TableEnds
    /\ NothingSkipped
    /\ RepliesWhole
    /\ ShownInOrder

-----------------------------------------------------------------------------
(* Rows can be sorted: of the sets that could not, take one with the fewest
   rows; without its oldest row it is sorted. *)

Stamped(X) ==
    \A a \in X : /\ a.id \in Nat /\ a.at \in Nat
                 /\ \A b \in X : a.id = b.id => a = b

Sorts(s, X) ==
    /\ s \in [1 .. Cardinality(X) -> X]
    /\ \A i, j \in 1 .. Cardinality(X) : i < j => Newer(s[i], s[j])

LEMMA Oldest ==
  ASSUME NEW X, Stamped(X), X # {}
  PROVE  \E o \in X : \A a \in X \ {o} : Newer(a, o)
  <1> DEFINE T == {a.at : a \in X}
  <1>1. T \subseteq Nat /\ T # {}
    BY DEF Stamped
  <1>2. PICK t \in T : \A u \in T : t <= u
    <2> HIDE DEF T
    <2> QED  BY <1>1, LeastNumber
  <1> DEFINE U == {a.id : a \in {b \in X : b.at = t}}
  <1>3. U \subseteq Nat /\ U # {}
    BY DEF Stamped
  <1>4. PICK u \in U : \A v \in U : u <= v
    <2> HIDE DEF U
    <2> QED  BY <1>3, LeastNumber
  <1>5. PICK o \in X : o.at = t /\ o.id = u
    BY <1>4
  <1>6. ASSUME NEW a \in X \ {o}  PROVE Newer(a, o)
    <2>1. a.id \in Nat /\ a.at \in Nat /\ o.id \in Nat /\ o.at \in Nat /\ a.id # o.id
      BY DEF Stamped
    <2>2. o.at <= a.at
      BY <1>2, <1>5
    <2>3. a.at = o.at => o.id <= a.id
      BY <1>4, <1>5
    <2> QED  BY <2>1, <2>2, <2>3 DEF Newer
  <1> QED  BY <1>6

LEMMA CanBeSorted ==
  ASSUME NEW D, IsFiniteSet(D), Stamped(D)
  PROVE  \E s : Sorts(s, D)
  <1> DEFINE Bad == {X \in SUBSET D : ~ \E s : Sorts(s, X)}
             T == {Cardinality(X) : X \in Bad}
  <1> SUFFICES ASSUME Bad # {}  PROVE FALSE
    <2>1. Bad = {} => D \notin Bad
      OBVIOUS
    <2> QED  BY <2>1
  <1>1. \A X \in SUBSET D : IsFiniteSet(X) /\ Cardinality(X) \in Nat
    BY FS_Subset, FS_CardinalityType
  <1>2. T \subseteq Nat /\ T # {}
    BY <1>1
  <1>3. PICK n \in T : \A m \in T : n <= m
    <2> HIDE DEF T
    <2> QED  BY <1>2, LeastNumber
  <1>4. PICK X \in Bad : n = Cardinality(X)
    BY <1>3
  <1>5. X # {}
    <2>1. SUFFICES ASSUME X = {}  PROVE FALSE
      OBVIOUS
    <2>2. Cardinality(X) = 0
      BY <2>1, FS_EmptySet
    <2>3. 1 .. Cardinality(X) = {}
      BY <2>2
    <2>4. Sorts([i \in 1 .. Cardinality(X) |-> i], X)
      BY <2>3 DEF Sorts
    <2> QED  BY <1>4, <2>4
  <1>6. PICK o \in X : \A a \in X \ {o} : Newer(a, o)
    <2>1. Stamped(X)
      BY <1>4 DEF Stamped
    <2> QED  BY <1>5, <2>1, Oldest
  <1> DEFINE Y == X \ {o}
  <1>7. IsFiniteSet(X) /\ n \in Nat /\ Cardinality(Y) = n - 1 /\ n - 1 \in Nat
    <2>1. IsFiniteSet(X) /\ Cardinality(X) = n /\ n \in Nat
      BY <1>1, <1>4
    <2>2. Cardinality(Y) = n - 1
      BY <1>6, <2>1, FS_RemoveElement
    <2>3. Cardinality(Y) \in Nat
      BY <1>1, <1>4
    <2> QED  BY <2>1, <2>2, <2>3
  <1>8. PICK s : Sorts(s, Y)
    <2>1. Y \in SUBSET D
      BY <1>4
    <2>2. Y \in Bad => n - 1 \in T
      BY <1>7
    <2>3. ~ (n - 1 \in T)
      BY <1>3, <1>7
    <2> QED  BY <2>1, <2>2, <2>3
  <1> DEFINE r == [i \in 1 .. n |-> IF i = n THEN o ELSE s[i]]
  <1>9. s \in [1 .. n - 1 -> Y] /\ \A i, j \in 1 .. n - 1 : i < j => Newer(s[i], s[j])
    BY <1>7, <1>8 DEF Sorts
  <1> HIDE DEF Y
  <1>10. \A i \in 1 .. n : i # n => i \in 1 .. n - 1 /\ r[i] = s[i] /\ s[i] \in Y
    BY <1>7, <1>9
  <1>11. r \in [1 .. n -> X]
    <2>1. \A i \in 1 .. n : r[i] \in X
      BY <1>9, <1>10 DEF Y
    <2> QED  BY <2>1
  <1>12. ASSUME NEW i \in 1 .. n, NEW j \in 1 .. n, i < j  PROVE Newer(r[i], r[j])
    <2>1. i # n
      BY <1>7, <1>12
    <2>2. CASE j = n
      <3>1. r[j] = o
        BY <2>2
      <3>2. r[i] \in X \ {o}
        BY <1>10, <2>1 DEF Y
      <3> QED  BY <1>6, <3>1, <3>2
    <2>3. CASE j # n
      <3>1. i \in 1 .. n - 1 /\ j \in 1 .. n - 1 /\ r[i] = s[i] /\ r[j] = s[j]
        BY <1>10, <2>1, <2>3
      <3> QED  BY <1>9, <1>12, <3>1
    <2> QED  BY <2>2, <2>3
  <1>13. Sorts(r, X)
    <2> HIDE DEF r
    <2> QED  BY <1>4, <1>11, <1>12 DEF Sorts
  <1> QED  BY <1>4, <1>13

(* NewestFirst has every row once, in order. *)
LEMMA Sorted ==
  ASSUME NEW D, IsFiniteSet(D), Stamped(D)
  PROVE  /\ NewestFirst(D) \in Seq(D) /\ Len(NewestFirst(D)) = Cardinality(D)
         /\ InOrder(NewestFirst(D))
         /\ \A a \in D : \E i \in 1 .. Len(NewestFirst(D)) : NewestFirst(D)[i] = a
  <1> DEFINE s == NewestFirst(D)
  <1>1. Cardinality(D) \in Nat
    BY FS_CardinalityType
  <1>2. Sorts(s, D)
    BY CanBeSorted DEF NewestFirst, Sorts
  <1> HIDE DEF s
  <1>3. s \in [1 .. Cardinality(D) -> D]
    BY <1>2 DEF Sorts
  <1>4. s \in Seq(D) /\ Len(s) = Cardinality(D)
    BY <1>1, <1>3
  <1>5. InOrder(s)
    BY <1>2, <1>4 DEF Sorts, InOrder
  <1>6. s \in Injection(1 .. Cardinality(D), D)
    <2>1. ASSUME NEW i \in 1 .. Cardinality(D), NEW j \in 1 .. Cardinality(D), i < j
          PROVE  s[i] # s[j]
      <3>1. Newer(s[i], s[j])
        BY <1>2, <2>1 DEF Sorts
      <3>2. s[i] \in D
        BY <1>3
      <3>3. ~ Newer(s[i], s[i])
        BY <3>2 DEF Stamped, Newer
      <3> QED  BY <3>1, <3>3
    <2>2. \A i, j \in 1 .. Cardinality(D) : s[i] = s[j] => i = j
      <3>1. SUFFICES ASSUME NEW i \in 1 .. Cardinality(D), NEW j \in 1 .. Cardinality(D), s[i] = s[j]
                     PROVE  i = j
        OBVIOUS
      <3>2. ~ (i < j) /\ ~ (j < i)
        BY <2>1, <3>1
      <3> QED  BY <1>1, <3>2
    <2> QED  BY <1>3, <2>2, Fun_IsInj
  <1>7. Cardinality(1 .. Cardinality(D)) = Cardinality(D)
    BY <1>1, FS_Interval
  <1>8. s \in Surjection(1 .. Cardinality(D), D)
    BY <1>6, <1>7, FS_Injection
  <1>9. \A a \in D : \E i \in 1 .. Cardinality(D) : s[i] = a
    BY <1>8 DEF Surjection
  <1> QED  BY <1>4, <1>5, <1>9 DEF s

-----------------------------------------------------------------------------
(* One page of the list. *)

LEMMA Floor ==
  ASSUME NEW t \in Nat, NEW p \in Nat \ {0}
  PROVE  /\ t \div p \in Nat /\ (t \div p) * p \in Nat
         /\ (t \div p) * p <= t /\ t < (t \div p) * p + p
         /\ t % p = 0 => (t \div p) * p = t
  <1>1. /\ t \div p \in Nat /\ t % p \in 0 .. p - 1
        /\ t = p * (t \div p) + (t % p)
    OBVIOUS
  <1>2. (t \div p) * p \in Nat /\ (t \div p) * p = p * (t \div p)
    BY <1>1
  <1> QED  BY <1>1, <1>2

LEMMA FloorsApart ==
  ASSUME NEW x \in Nat, NEW y \in Nat, NEW p \in Nat, x < y
  PROVE  x * p + p <= y * p
  <1>1. PICK z \in Nat : y = x + 1 + z
    <2>1. y - x - 1 \in Nat /\ y = x + 1 + (y - x - 1)
      OBVIOUS
    <2> QED  BY <2>1
  <1>2. y * p = x * p + p + z * p /\ z * p >= 0
    BY <1>1
  <1>3. z * p \in Int /\ x * p \in Int
    BY <1>1
  <1> QED  BY <1>2, <1>3

LEMMA Stamps ==
  ASSUME ListingAssumption
  PROVE  \A a \in SecretItem : a.id \in Nat /\ a.at \in Nat
  <1>1. Id \subseteq Nat /\ Time \subseteq Nat
    BY DEF ListingAssumption, Time
  <1>2. \A a \in SecretItem : a.id \in Id /\ a.at \in Time
    BY DEF SecretItem
  <1> QED  BY <1>1, <1>2

LEMMA CursorIs ==
  ASSUME ListingAssumption, NEW a \in SecretItem
  PROVE  /\ CursorOf(a) \in Cursor /\ CursorOf(a).id = a.id
         /\ CursorOf(a).at = (a.at \div PerMs) * PerMs /\ CursorOf(a).at <= a.at
  <1>1. a.at \in Nat /\ a.at <= LastTime /\ a.id \in Id /\ PerMs \in Nat \ {0} /\ LastTime \in Nat
    BY DEF ListingAssumption, SecretItem, Time
  <1>2. (a.at \div PerMs) * PerMs \in Nat /\ (a.at \div PerMs) * PerMs <= a.at
    BY <1>1, Floor
  <1> DEFINE t == (a.at \div PerMs) * PerMs
  <1>3. CursorOf(a) = [id |-> a.id, at |-> t]
    BY DEF CursorOf
  <1> HIDE DEF t
  <1>4. t \in Nat /\ t <= a.at
    BY <1>2 DEF t
  <1>5. t \in Time
    BY <1>1, <1>4 DEF Time
  <1>6. CursorOf(a) \in Cursor /\ CursorOf(a).id = a.id /\ CursorOf(a).at = t
    BY <1>1, <1>3, <1>5 DEF Cursor
  <1> QED  BY <1>4, <1>6 DEF t

(* What is beyond a row's cursor is older than the row... *)
LEMMA BeyondIsOlder ==
  ASSUME ListingAssumption, NEW a \in SecretItem, NEW b \in SecretItem, Newer(CursorOf(a), b)
  PROVE  Newer(a, b)
  <1>1. a.at \in Nat /\ a.id \in Nat /\ b.at \in Nat /\ b.id \in Nat
    BY Stamps
  <1>2. CursorOf(a).at \in Nat
    BY CursorIs DEF Cursor, Time
  <1>3. CursorOf(a).id = a.id /\ CursorOf(a).at <= a.at
    BY CursorIs
  <1> QED  BY <1>1, <1>2, <1>3 DEF Newer

(* ...and an older row is beyond it, if cursors can tell them apart. *)
LEMMA OlderIsBeyond ==
  ASSUME ListingAssumption, NEW a \in SecretItem, NEW b \in SecretItem, Newer(a, b),
         a.at \div PerMs = b.at \div PerMs => a.at = b.at /\ b.at % PerMs = 0
  PROVE  Newer(CursorOf(a), b)
  <1>1. a.at \in Nat /\ a.id \in Nat /\ b.at \in Nat /\ b.id \in Nat /\ PerMs \in Nat \ {0}
    BY Stamps DEF ListingAssumption
  <1> DEFINE x == a.at \div PerMs
             y == b.at \div PerMs
  <1>2. /\ x \in Nat /\ x * PerMs \in Nat /\ a.at < x * PerMs + PerMs
        /\ y \in Nat /\ y * PerMs \in Nat /\ y * PerMs <= b.at /\ b.at < y * PerMs + PerMs
    BY <1>1, Floor
  <1>3. b.at % PerMs = 0 => y * PerMs = b.at
    BY <1>1, Floor
  <1>4. CursorOf(a).id = a.id /\ CursorOf(a).at = x * PerMs
    BY CursorIs
  <1>5. CASE x = y
    <2>1. a.at = b.at /\ CursorOf(a).at = b.at
      BY <1>3, <1>4, <1>5
    <2> QED  BY <1>1, <1>4, <2>1 DEF Newer
  <1>6. CASE x # y
    <2> HIDE DEF x, y
    <2>1. ~ (x < y)
      <3>1. x < y => x * PerMs + PerMs <= y * PerMs
        BY <1>1, <1>2, FloorsApart
      <3>2. a.at >= b.at
        BY <1>1 DEF Newer
      <3> QED  BY <1>1, <1>2, <3>1, <3>2
    <2>2. y * PerMs + PerMs <= x * PerMs
      BY <1>1, <1>2, <1>6, <2>1, FloorsApart
    <2>3. x * PerMs > b.at
      BY <1>1, <1>2, <2>2
    <2> QED  BY <1>4, <2>3 DEF Newer
  <1> QED  BY <1>5, <1>6

LEMMA Entries ==
  ASSUME ListingAssumption, rows \in [Id -> Row \cup {Null, Gone}], NEW tab \in Tab
  PROVE  /\ \A id \in Existing : rows[id] \in Row
         /\ Items(tab) \subseteq SecretItem
         /\ \A i \in Items(tab) : i.id \in Existing /\ i.at = rows[i.id].at /\ Matches(i, tab)
         /\ \A id \in Existing : Matches(rows[id], tab) =>
                [id |-> id, at |-> rows[id].at, status |-> rows[id].status] \in Items(tab)
         /\ IsFiniteSet(Items(tab)) /\ Stamped(Items(tab))
  <1>1. \A id \in Existing : id \in Id /\ rows[id] \in Row
    BY DEF Existing
  <1>2. Items(tab) \subseteq SecretItem
    BY <1>1 DEF Items, SecretItem, Row
  <1>3. \A i \in Items(tab) : /\ i.id \in Existing /\ Matches(rows[i.id], tab)
                              /\ i = [id |-> i.id, at |-> rows[i.id].at, status |-> rows[i.id].status]
    BY DEF Items
  <1>4. \A i \in Items(tab) : i.at = rows[i.id].at /\ Matches(i, tab)
    BY <1>3 DEF Matches
  <1>5. \A id \in Existing : Matches(rows[id], tab) =>
                [id |-> id, at |-> rows[id].at, status |-> rows[id].status] \in Items(tab)
    BY DEF Items
  <1>6. \A i, j \in Items(tab) : i.id = j.id => i = j
    BY <1>3
  <1>7. Stamped(Items(tab))
    BY <1>2, <1>6, Stamps DEF Stamped
  <1>8. IsFiniteSet(Items(tab))
    <2> DEFINE f == [i \in Items(tab) |-> i.id]
    <2>1. f \in [Items(tab) -> Id] /\ \A i, j \in Items(tab) : f[i] = f[j] => i = j
      BY <1>1, <1>3, <1>6
    <2> HIDE DEF f
    <2>2. f \in Injection(Items(tab), Id)
      BY <2>1, Fun_IsInj
    <2> QED  BY <2>2, FS_Injection DEF ListingAssumption
  <1> QED  BY <1>1, <1>2, <1>3, <1>4, <1>5, <1>7, <1>8

(* GetUserSecrets answers with a part of the list in order, and leaves for the
   next page what a cursor discerns of the rest. *)
LEMMA OnePage ==
  ASSUME ListingAssumption, rows \in [Id -> Row \cup {Null, Gone}],
         NEW tab \in Tab, NEW cursor \in Cursor \cup {Null}
  PROVE  LET page == GetUserSecrets(tab, cursor)
         IN  /\ page \in ListResponse
             /\ InOrder(page.secrets)
             /\ EndsAt(page.secrets, page.next)
             /\ \A i \in 1 .. Len(page.secrets) :
                    Matches(page.secrets[i], tab) /\ Beyond(page.secrets[i], cursor)
             /\ \A id \in Existing : Matches(rows[id], tab) /\ Discerned(id) =>
                    \/ cursor # Null /\ ~ After(id, cursor)
                    \/ id \in Ids(page.secrets)
                    \/ After(id, page.next)
  <1> DEFINE D == {i \in Items(tab) : Beyond(i, cursor)}
             found == NewestFirst(D)
             page == GetUserSecrets(tab, cursor)
  <1>1. /\ D \subseteq SecretItem /\ IsFiniteSet(D) /\ Stamped(D)
        /\ \A i \in D : i.id \in Existing /\ i.at = rows[i.id].at /\ Matches(i, tab) /\ Beyond(i, cursor)
    <2>1. D \in SUBSET Items(tab)
      OBVIOUS
    <2>2. IsFiniteSet(D)
      BY <2>1, Entries, FS_Subset
    <2>3. Stamped(D)
      BY <2>1, Entries DEF Stamped
    <2> QED  BY <2>1, <2>2, <2>3, Entries
  <1>2. page = IF Len(found) > PageSize
               THEN [secrets |-> SubSeq(found, 1, PageSize), next |-> CursorOf(found[PageSize])]
               ELSE [secrets |-> found, next |-> Null]
    BY DEF GetUserSecrets
  <1> HIDE DEF D
  <1>3. found \in Seq(D) /\ InOrder(found) /\ \A a \in D : \E i \in 1 .. Len(found) : found[i] = a
    BY <1>1, Sorted
  <1> HIDE DEF found, page
  <1>4. PageSize \in Nat \ {0} /\ Len(found) \in Nat /\ \A i \in 1 .. Len(found) : found[i] \in D
    BY <1>3 DEF ListingAssumption
  <1>5. ASSUME NEW id \in Existing, Matches(rows[id], tab), Discerned(id), cursor # Null => After(id, cursor)
        PROVE  \E i \in 1 .. Len(found) : found[i].id = id /\ found[i].at = rows[id].at
    <2> DEFINE a == [id |-> id, at |-> rows[id].at, status |-> rows[id].status]
    <2>1. a \in Items(tab)
      BY <1>5, Entries
    <2>2. Beyond(a, cursor)
      BY <1>5 DEF Beyond, After, Newer
    <2>3. a \in D
      BY <2>1, <2>2 DEF D
    <2>4. a.id = id /\ a.at = rows[id].at
      OBVIOUS
    <2> HIDE DEF a
    <2> QED  BY <1>3, <2>3, <2>4
  <1>6. CASE Len(found) > PageSize
    <2>1. page = [secrets |-> SubSeq(found, 1, PageSize), next |-> CursorOf(found[PageSize])]
      BY <1>2, <1>6
    <2> DEFINE s == SubSeq(found, 1, PageSize)
               last == found[PageSize]
    <2>2. s \in Seq(D) /\ Len(s) = PageSize /\ \A i \in 1 .. PageSize : s[i] = found[i]
      BY <1>3, <1>4, <1>6
    <2>3. page.secrets = s /\ page.next = CursorOf(last)
      BY <2>1
    <2>4. PageSize \in 1 .. Len(found) /\ \A i \in 1 .. PageSize : i \in 1 .. Len(found)
      BY <1>4, <1>6
    <2>5. last \in D /\ last \in SecretItem
      BY <1>1, <1>4, <2>4
    <2> HIDE DEF s, last
    <2>6. page \in ListResponse
      <3>1. s \in Seq(SecretItem)
        BY <1>1, <2>2
      <3>2. CursorOf(last) \in Cursor
        BY <2>5, CursorIs
      <3> QED  BY <2>1, <3>1, <3>2 DEF ListResponse, s, last
    <2>7. InOrder(s)
      BY <1>3, <2>2, <2>4 DEF InOrder
    <2>8. EndsAt(s, CursorOf(last))
      <3>1. s # <<>> /\ s[Len(s)] = last
        BY <1>4, <2>2, <2>4 DEF last
      <3> QED  BY <3>1 DEF EndsAt
    <2>9. \A i \in 1 .. Len(s) : Matches(s[i], tab) /\ Beyond(s[i], cursor)
      BY <1>1, <1>4, <2>2, <2>4
    <2>10. ASSUME NEW id \in Existing, Matches(rows[id], tab), Discerned(id),
                  cursor # Null => After(id, cursor), id \notin Ids(s)
           PROVE  After(id, CursorOf(last))
      <3>1. PICK k \in 1 .. Len(found) : found[k].id = id /\ found[k].at = rows[id].at
        BY <1>5, <2>10
      <3>2. ~ (k <= PageSize)
        BY <2>2, <2>10, <3>1 DEF Ids
      <3>3. Newer(last, found[k])
        BY <1>3, <1>4, <2>4, <3>2 DEF InOrder, last
      <3>4. found[k] \in SecretItem /\ last.id \in Existing /\ last.at = rows[last.id].at
        BY <1>1, <1>4, <2>5
      <3>5. last.id # id
        <4>1. last.at \in Nat /\ last.id \in Nat /\ found[k].at \in Nat
          BY <2>5, <3>4, Stamps
        <4>2. last.id = id => last.at = found[k].at
          BY <3>1, <3>4
        <4> QED  BY <3>1, <3>3, <4>1, <4>2 DEF Newer
      <3>6. last.at \div PerMs = found[k].at \div PerMs =>
                last.at = found[k].at /\ found[k].at % PerMs = 0
        BY <2>10, <3>1, <3>4, <3>5 DEF Discerned
      <3>7. Newer(CursorOf(last), found[k])
        BY <2>5, <3>3, <3>4, <3>6, OlderIsBeyond
      <3>8. CursorOf(last) # Null
        BY <2>5, CursorIs DEF ListingAssumption
      <3> QED  BY <3>1, <3>7, <3>8 DEF After, Newer
    <2> QED  BY <2>3, <2>6, <2>7, <2>8, <2>9, <2>10 DEF page
  <1>7. CASE ~ (Len(found) > PageSize)
    <2>1. page = [secrets |-> found, next |-> Null]
      BY <1>2, <1>7
    <2>2. page.secrets = found /\ page.next = Null
      BY <2>1
    <2>3. page \in ListResponse
      <3>1. found \in Seq(SecretItem)
        BY <1>1, <1>3
      <3> QED  BY <2>1, <3>1 DEF ListResponse
    <2>4. EndsAt(found, Null)
      BY DEF EndsAt
    <2>5. \A i \in 1 .. Len(found) : Matches(found[i], tab) /\ Beyond(found[i], cursor)
      BY <1>1, <1>4
    <2>6. \A id \in Existing : Matches(rows[id], tab) /\ Discerned(id) =>
              \/ cursor # Null /\ ~ After(id, cursor)
              \/ id \in Ids(found)
      BY <1>5 DEF Ids
    <2> QED  BY <1>3, <2>2, <2>3, <2>4, <2>5, <2>6 DEF page
  <1> QED  BY <1>6, <1>7

-----------------------------------------------------------------------------
(* The invariant, where the rows of the database stay as they are. *)

LEMMA NewerThrough ==
  ASSUME ListingAssumption, NEW a \in SecretItem, NEW b \in SecretItem, NEW c \in SecretItem,
         Newer(a, b), Newer(b, c)
  PROVE  Newer(a, c)
  <1>1. a.id \in Nat /\ a.at \in Nat /\ b.id \in Nat /\ b.at \in Nat /\ c.id \in Nat /\ c.at \in Nat
    BY Stamps
  <1> QED  BY <1>1 DEF Newer

LEMMA SameRows ==
  ASSUME UNCHANGED rows
  PROVE  /\ Existing' = Existing
         /\ \A id, cursor : After(id, cursor)' <=> After(id, cursor)
         /\ \A id : Discerned(id)' <=> Discerned(id)
  <1>1. Existing' = Existing
    BY DEF Existing
  <1>2. \A id, cursor : After(id, cursor)' <=> After(id, cursor)
    BY DEF After
  <1>3. \A id : Discerned(id)' <=> Discerned(id)
    BY <1>1 DEF Discerned
  <1> QED  BY <1>1, <1>2, <1>3

LEMMA TableInitially ==
  ASSUME ListingAssumption, DashboardInit
  PROVE  TableInv
  <1>1. /\ now \in Time /\ rows \in [Id -> [at : 0 .. now, status : {"active"}] \cup {Null}]
        /\ currentStatus = "all" /\ pageRows = GetUserSecrets("all", Null).secrets
        /\ currentCursor = GetUserSecrets("all", Null).next
        /\ fetches = {} /\ fetched = 0 /\ steady = {id \in Existing : Discerned(id)}
        /\ tidy \in BOOLEAN
    BY DEF DashboardInit, ListingInit
  <1>2. rows \in [Id -> Row \cup {Null, Gone}]
    <2>1. 0 .. now \subseteq Time
      BY <1>1 DEF Time, ListingAssumption
    <2>2. [at : 0 .. now, status : {"active"}] \subseteq Row
      BY <2>1 DEF Row, Status
    <2> QED  BY <1>1, <2>2
  <1>3. "all" \in Tab /\ Null \in Cursor \cup {Null}
    BY DEF Tab
  <1> DEFINE page == GetUserSecrets("all", Null)
  <1>4. /\ page \in ListResponse /\ InOrder(page.secrets) /\ EndsAt(page.secrets, page.next)
        /\ \A id \in Existing : Discerned(id) => id \in Ids(page.secrets) \/ After(id, page.next)
    <2>1. \A id \in Existing : Matches(rows[id], "all")
      BY DEF Matches
    <2> QED  BY <1>2, <1>3, <2>1, OnePage
  <1> HIDE DEF page
  <1>5. pageRows = page.secrets /\ currentCursor = page.next
    BY <1>1 DEF page
  <1>6. page.secrets \in Seq(SecretItem) /\ page.next \in Cursor \cup {Null}
    BY <1>4 DEF ListResponse
  <1>7. TableTypeOK
    BY <1>1, <1>2, <1>3, <1>5, <1>6 DEF TableTypeOK
  <1>8. RepliesRight /\ OneFetch /\ RepliesWhole
    BY <1>1 DEF RepliesRight, OneFetch, RepliesWhole
  <1>9. SteadyStays
    BY <1>1 DEF SteadyStays, Matches
  <1>10. TableEnds
    BY <1>4, <1>5 DEF TableEnds
  <1>11. NothingSkipped
    BY <1>1, <1>4, <1>5 DEF NothingSkipped
  <1>12. ShownInOrder
    BY <1>1, <1>4, <1>5 DEF ShownInOrder, InOrder, Matches
  <1> QED  BY <1>7, <1>8, <1>9, <1>10, <1>11, <1>12 DEF TableInv

LEMMA StepLoadMore ==
  ASSUME TableInv, LoadMore
  PROVE  TableInv'
  <1> USE DEF listing
  <1> DEFINE f0 == [n |-> fetched + 1, tab |-> currentStatus, cursor |-> currentCursor,
                    first |-> FALSE, own |-> tidy, reply |-> Null]
  <1>1. /\ ~ isLoadingMore /\ currentCursor # Null /\ isLoadingMore' = TRUE
        /\ fetched' = fetched + 1 /\ fetches' = fetches \cup {f0}
        /\ UNCHANGED <<rows, now, currentStatus, currentCursor, pageRows, steady, tidy>>
    BY DEF LoadMore, Fetches
  <1>2. /\ f0.reply = Null /\ f0.tab = currentStatus /\ f0.cursor = currentCursor
        /\ f0.first = FALSE /\ f0.own = tidy
    OBVIOUS
  <1>3. TableTypeOK'
    <2>1. f0 \in Fetch /\ fetched + 1 \in Nat
      BY DEF TableInv, TableTypeOK, Fetch
    <2> HIDE DEF f0
    <2> QED  BY <1>1, <2>1 DEF TableInv, TableTypeOK
  <1> HIDE DEF f0
  <1>4. RepliesRight'
    BY <1>1, <1>2 DEF TableInv, RepliesRight
  <1>5. SteadyStays'
    BY <1>1, SameRows DEF TableInv, SteadyStays
  <1>6. \A f \in fetches : tidy => ~ f.own
    BY <1>1 DEF TableInv, OneFetch
  <1>7. OneFetch'
    <2>1. CASE tidy
      BY <1>1, <1>2, <1>6, <2>1 DEF OneFetch
    <2>2. CASE ~ tidy
      BY <1>1, <1>2, <2>2 DEF TableInv, OneFetch
    <2> QED  BY <2>1, <2>2
  <1>8. TableEnds' /\ ShownInOrder'
    BY <1>1 DEF TableInv, TableEnds, ShownInOrder
  <1>9. NothingSkipped' /\ RepliesWhole'
    BY <1>1, <1>2, SameRows DEF TableInv, NothingSkipped, RepliesWhole
  <1> QED  BY <1>3, <1>4, <1>5, <1>7, <1>8, <1>9 DEF TableInv

LEMMA StepClickTab ==
  ASSUME DashboardAssumption, TableInv, NEW tab \in Tabs, ClickTab(tab)
  PROVE  TableInv'
  <1> USE DEF listing
  <1> DEFINE f0 == [n |-> fetched + 1, tab |-> tab, cursor |-> Null, first |-> TRUE,
                    own |-> TRUE, reply |-> Null]
             former == {[f EXCEPT !.own = FALSE] : f \in fetches}
  <1>1. /\ currentStatus' = tab /\ currentCursor' = Null /\ pageRows' = <<>>
        /\ fetched' = fetched + 1 /\ fetches' = former \cup {f0} /\ tidy' = FALSE
        /\ steady' = {id \in Existing : Matches(rows[id], tab) /\ Discerned(id)}
        /\ UNCHANGED <<rows, now>>
    BY DEF ClickTab, Fetches
  <1>2. /\ f0.reply = Null /\ f0.tab = tab /\ f0.cursor = Null /\ f0.first = TRUE
        /\ f0.own = TRUE
    OBVIOUS
  <1>3. \A f \in former :
          /\ f \in Fetch /\ f.own = FALSE
          /\ \E g \in fetches : f.tab = g.tab /\ f.cursor = g.cursor /\ f.reply = g.reply
    <2>1. ASSUME NEW g \in fetches
          PROVE  LET f == [g EXCEPT !.own = FALSE]
                 IN /\ f \in Fetch /\ f.own = FALSE
                    /\ f.tab = g.tab /\ f.cursor = g.cursor /\ f.reply = g.reply
      <3>1. g \in Fetch
        BY DEF TableInv, TableTypeOK
      <3> QED  BY <3>1 DEF Fetch
    <2> QED  BY <2>1
  <1>4. TableTypeOK'
    <2>1. tab \in Tab
      BY DEF DashboardAssumption
    <2>2. f0 \in Fetch /\ fetched + 1 \in Nat
      BY <2>1 DEF TableInv, TableTypeOK, Fetch
    <2>3. <<>> \in Seq(SecretItem)
      OBVIOUS
    <2> HIDE DEF f0, former
    <2> QED  BY <1>1, <1>3, <2>1, <2>2, <2>3 DEF TableInv, TableTypeOK
  <1> HIDE DEF f0, former
  <1>5. RepliesRight'
    <2>1. SUFFICES ASSUME NEW f \in former, f.reply # Null
                   PROVE  /\ InOrder(f.reply.secrets)
                          /\ EndsAt(f.reply.secrets, f.reply.next)
                          /\ \A i \in 1 .. Len(f.reply.secrets) :
                                 Matches(f.reply.secrets[i], f.tab) /\ Beyond(f.reply.secrets[i], f.cursor)
      BY <1>1, <1>2 DEF RepliesRight
    <2>2. PICK g \in fetches : f.tab = g.tab /\ f.cursor = g.cursor /\ f.reply = g.reply
      BY <1>3
    <2> QED  BY <2>1, <2>2 DEF TableInv, RepliesRight
  <1>6. SteadyStays'
    BY <1>1, SameRows DEF SteadyStays
  <1>7. \A f \in fetches' : f.own => f = f0
    BY <1>1, <1>3
  <1>8. OneFetch'
    BY <1>1, <1>2, <1>7 DEF OneFetch
  <1>9. TableEnds' /\ ShownInOrder' /\ NothingSkipped'
    BY <1>1 DEF TableEnds, ShownInOrder, NothingSkipped
  <1>10. RepliesWhole'
    BY <1>2, <1>7 DEF RepliesWhole
  <1> QED  BY <1>4, <1>5, <1>6, <1>8, <1>9, <1>10 DEF TableInv

LEMMA StepServePage ==
  ASSUME ListingAssumption, TableInv, NEW f \in fetches, ServePage(f)
  PROVE  TableInv'
  <1> USE DEF listing, table
  <1> DEFINE page == GetUserSecrets(f.tab, f.cursor)
             g == [f EXCEPT !.reply = page]
  <1>1. /\ f.reply = Null /\ fetches' = (fetches \ {f}) \cup {g}
        /\ UNCHANGED <<rows, now, currentStatus, currentCursor, isLoadingMore, pageRows,
                       fetched, steady, tidy>>
    BY DEF ServePage
  <1>2. /\ f.tab \in Tab /\ f.cursor \in Cursor \cup {Null}
        /\ rows \in [Id -> Row \cup {Null, Gone}]
        /\ f \in Fetch
    BY DEF TableInv, TableTypeOK, Fetch
  <1>3. /\ page \in ListResponse /\ InOrder(page.secrets) /\ EndsAt(page.secrets, page.next)
        /\ \A i \in 1 .. Len(page.secrets) :
               Matches(page.secrets[i], f.tab) /\ Beyond(page.secrets[i], f.cursor)
        /\ \A id \in Existing : Matches(rows[id], f.tab) /\ Discerned(id) =>
               \/ f.cursor # Null /\ ~ After(id, f.cursor)
               \/ id \in Ids(page.secrets)
               \/ After(id, page.next)
    BY <1>2, OnePage
  <1> HIDE DEF page
  <1>4. /\ g.tab = f.tab /\ g.cursor = f.cursor /\ g.first = f.first /\ g.own = f.own
        /\ g.reply = page /\ g \in Fetch
    BY <1>2, <1>3 DEF Fetch
  <1> HIDE DEF g
  <1>5. TableTypeOK'
    BY <1>1, <1>4 DEF TableInv, TableTypeOK
  <1>6. RepliesRight'
    BY <1>1, <1>3, <1>4 DEF TableInv, RepliesRight
  <1>7. SteadyStays'
    BY <1>1, SameRows DEF TableInv, SteadyStays
  <1>8. OneFetch'
    BY <1>1, <1>4 DEF TableInv, OneFetch
  <1>9. TableEnds' /\ ShownInOrder' /\ NothingSkipped'
    BY <1>1, SameRows DEF TableInv, TableEnds, ShownInOrder, NothingSkipped
  <1>10. RepliesWhole'
    <2>1. ASSUME f.own, NEW id \in steady
          PROVE  \/ g.cursor # Null /\ ~ After(id, g.cursor)
                 \/ id \in Ids(g.reply.secrets)
                 \/ After(id, g.reply.next)
      <3>1. f.tab = currentStatus
        BY <2>1 DEF TableInv, OneFetch
      <3>2. id \in Existing /\ Matches(rows[id], f.tab) /\ Discerned(id)
        BY <3>1 DEF TableInv, SteadyStays
      <3> QED  BY <1>3, <1>4, <3>2
    <2> QED  BY <1>1, <1>4, <2>1, SameRows DEF TableInv, RepliesWhole
  <1> QED  BY <1>5, <1>6, <1>7, <1>8, <1>9, <1>10 DEF TableInv

(* What is appended goes on where the rows ended. *)
LEMMA StepAnswered ==
  ASSUME ListingAssumption, TableInv, NEW f \in fetches, Answered(f)
  PROVE  TableInv'
  <1> USE DEF listing
  <1> DEFINE more == f.reply.secrets
  <1>1. /\ f.reply # Null /\ fetches' = fetches \ {f}
        /\ pageRows' = IF f.first \/ pageRows = <<>> THEN more ELSE pageRows \o more
        /\ currentCursor' = f.reply.next
        /\ tidy' = (f.own /\ (tidy \/ f.first))
        /\ UNCHANGED <<rows, now, currentStatus, fetched, steady>>
    BY DEF Answered
  <1>2. /\ f.first \in BOOLEAN /\ f.reply \in ListResponse
        /\ pageRows \in Seq(SecretItem) /\ currentCursor \in Cursor \cup {Null}
    BY <1>1 DEF TableInv, TableTypeOK, Fetch
  <1>3. more \in Seq(SecretItem) /\ f.reply.next \in Cursor \cup {Null}
    BY <1>2 DEF ListResponse
  <1>4. /\ InOrder(more) /\ EndsAt(more, f.reply.next)
        /\ \A i \in 1 .. Len(more) : Matches(more[i], f.tab) /\ Beyond(more[i], f.cursor)
    BY <1>1 DEF TableInv, RepliesRight
  <1>5. f.own => \A id \in steady :
            \/ f.cursor # Null /\ ~ After(id, f.cursor)
            \/ id \in Ids(more)
            \/ After(id, f.reply.next)
    BY <1>1 DEF TableInv, RepliesWhole
  <1> HIDE DEF more
  <1>6. /\ pageRows \o more \in Seq(SecretItem) /\ Len(pageRows \o more) = Len(pageRows) + Len(more)
        /\ Len(pageRows) \in Nat /\ Len(more) \in Nat
        /\ \A i \in 1 .. Len(pageRows) : (pageRows \o more)[i] = pageRows[i]
        /\ \A i \in 1 .. Len(more) : (pageRows \o more)[Len(pageRows) + i] = more[i]
        /\ \A i \in 1 .. Len(pageRows) : pageRows[i] \in SecretItem
        /\ \A i \in 1 .. Len(more) : more[i] \in SecretItem
    BY <1>2, <1>3
  <1>7. TableTypeOK'
    BY <1>1, <1>3, <1>6 DEF TableInv, TableTypeOK
  <1>8. RepliesRight'
    BY <1>1 DEF TableInv, RepliesRight
  <1>9. SteadyStays'
    BY <1>1, SameRows DEF TableInv, SteadyStays
  <1>10. RepliesWhole'
    BY <1>1, SameRows DEF TableInv, RepliesWhole
  <1>11. OneFetch'
    BY <1>1 DEF TableInv, OneFetch
  <1>12. CASE ~ tidy'
    BY <1>7, <1>8, <1>9, <1>10, <1>11, <1>12 DEF TableInv, TableEnds, NothingSkipped, ShownInOrder
  <1>13. CASE f.own /\ f.first
    <2>1. pageRows' = more /\ f.cursor = Null /\ f.tab = currentStatus
      BY <1>1, <1>13 DEF TableInv, OneFetch
    <2>2. TableEnds'
      BY <1>1, <1>4, <2>1 DEF TableEnds
    <2>3. NothingSkipped'
      BY <1>1, <1>5, <1>13, <2>1, SameRows DEF NothingSkipped
    <2>4. ShownInOrder'
      BY <1>1, <1>4, <2>1 DEF ShownInOrder, InOrder
    <2> QED  BY <1>7, <1>8, <1>9, <1>10, <1>11, <2>2, <2>3, <2>4 DEF TableInv
  <1>14. CASE f.own /\ tidy /\ ~ f.first
    <2>1. currentCursor # Null /\ f.tab = currentStatus /\ f.cursor = currentCursor
      BY <1>14 DEF TableInv, OneFetch
    <2>2. pageRows # <<>> /\ currentCursor = CursorOf(pageRows[Len(pageRows)])
      BY <1>14, <2>1 DEF TableInv, TableEnds, EndsAt
    <2>3. pageRows' = pageRows \o more
      BY <1>1, <1>14, <2>2
    <2>4. Len(pageRows) \in 1 .. Len(pageRows)
      BY <1>2, <2>2
    <2> DEFINE both == pageRows \o more
               last == pageRows[Len(pageRows)]
    <2> HIDE DEF both
    <2>5. both = pageRows'
      BY <2>3 DEF both
    <2>6. TableEnds'
      <3>1. SUFFICES ASSUME f.reply.next # Null
                     PROVE  both # <<>> /\ f.reply.next = CursorOf(both[Len(both)])
        BY <1>1, <2>5 DEF TableEnds, EndsAt
      <3>2. more # <<>> /\ f.reply.next = CursorOf(more[Len(more)])
        BY <1>4, <3>1 DEF EndsAt
      <3>3. Len(more) \in 1 .. Len(more)
        BY <1>3, <3>2
      <3>4. Len(both) = Len(pageRows) + Len(more) /\ both[Len(both)] = more[Len(more)]
        BY <1>6, <3>3 DEF both
      <3>5. both # <<>>
        BY <1>6, <3>3, <3>4
      <3> QED  BY <3>2, <3>4, <3>5
    <2>7. NothingSkipped'
      <3>1. SUFFICES ASSUME NEW id \in steady
                     PROVE  id \in Ids(both) \/ After(id, f.reply.next)
        BY <1>1, <1>14, <2>5, SameRows DEF NothingSkipped
      <3>2. id \in Ids(pageRows) \/ After(id, currentCursor)
        BY <1>14, <3>1 DEF TableInv, NothingSkipped
      <3>3. id \in Ids(pageRows) \/ id \in Ids(more) \/ After(id, f.reply.next)
        BY <1>5, <1>14, <2>1, <3>2
      <3>4. Ids(pageRows) \subseteq Ids(both)
        <4>1. ASSUME NEW i \in 1 .. Len(pageRows)  PROVE pageRows[i].id \in Ids(both)
          <5>1. i \in 1 .. Len(both) /\ both[i] = pageRows[i]
            BY <1>6 DEF both
          <5> QED  BY <5>1 DEF Ids
        <4> QED  BY <4>1 DEF Ids
      <3>5. Ids(more) \subseteq Ids(both)
        <4>1. ASSUME NEW i \in 1 .. Len(more)  PROVE more[i].id \in Ids(both)
          <5>1. Len(pageRows) + i \in 1 .. Len(both) /\ both[Len(pageRows) + i] = more[i]
            BY <1>6 DEF both
          <5> QED  BY <5>1 DEF Ids
        <4> QED  BY <4>1 DEF Ids
      <3> QED  BY <3>3, <3>4, <3>5
    <2>8. ShownInOrder'
      <3>1. \A i \in 1 .. Len(more) : Newer(last, more[i])
        <4> SUFFICES ASSUME NEW i \in 1 .. Len(more)  PROVE Newer(last, more[i])
          OBVIOUS
        <4>1. Newer(CursorOf(last), more[i])
          BY <1>4, <2>1, <2>2 DEF Beyond
        <4>2. last \in SecretItem /\ more[i] \in SecretItem
          BY <1>6, <2>4
        <4> HIDE DEF last
        <4> QED  BY <4>1, <4>2, BeyondIsOlder
      <3>2. \A i \in 1 .. Len(pageRows), j \in 1 .. Len(more) : Newer(pageRows[i], more[j])
        <4> SUFFICES ASSUME NEW i \in 1 .. Len(pageRows), NEW j \in 1 .. Len(more)
                     PROVE  Newer(pageRows[i], more[j])
          OBVIOUS
        <4>1. CASE i = Len(pageRows)
          BY <3>1, <4>1
        <4>2. CASE i # Len(pageRows)
          <5>1. i < Len(pageRows)
            BY <1>6, <4>2
          <5>2. Newer(pageRows[i], last)
            BY <1>14, <2>4, <5>1 DEF TableInv, ShownInOrder
          <5>3. pageRows[i] \in SecretItem /\ last \in SecretItem /\ more[j] \in SecretItem /\ Newer(last, more[j])
            BY <1>6, <2>4, <3>1
          <5> HIDE DEF last
          <5> QED  BY <5>2, <5>3, NewerThrough
        <4> QED  BY <4>1, <4>2
      <3>3. ASSUME NEW k \in 1 .. Len(both)
            PROVE  \/ k \in 1 .. Len(pageRows) /\ both[k] = pageRows[k]
                   \/ \E j \in 1 .. Len(more) : k = Len(pageRows) + j /\ both[k] = more[j]
        <4>1. CASE k <= Len(pageRows)
          BY <1>6, <4>1 DEF both
        <4>2. CASE ~ (k <= Len(pageRows))
          <5>1. k - Len(pageRows) \in 1 .. Len(more) /\ k = Len(pageRows) + (k - Len(pageRows))
            BY <1>6, <4>2 DEF both
          <5> QED  BY <1>6, <5>1 DEF both
        <4> QED  BY <4>1, <4>2
      <3>4. ASSUME NEW i \in 1 .. Len(both), NEW j \in 1 .. Len(both), i < j
            PROVE  Newer(both[i], both[j])
        <4>1. CASE i \in 1 .. Len(pageRows) /\ both[i] = pageRows[i]
          <5>1. CASE j \in 1 .. Len(pageRows) /\ both[j] = pageRows[j]
            BY <1>14, <3>4, <4>1, <5>1 DEF TableInv, ShownInOrder
          <5>2. CASE \E m \in 1 .. Len(more) : j = Len(pageRows) + m /\ both[j] = more[m]
            BY <3>2, <4>1, <5>2
          <5> QED  BY <3>3, <5>1, <5>2
        <4>2. CASE \E m \in 1 .. Len(more) : i = Len(pageRows) + m /\ both[i] = more[m]
          <5>1. PICK m \in 1 .. Len(more) : i = Len(pageRows) + m /\ both[i] = more[m]
            BY <4>2
          <5>2. ~ (j \in 1 .. Len(pageRows))
            BY <1>6, <3>4, <5>1
          <5>3. PICK o \in 1 .. Len(more) : j = Len(pageRows) + o /\ both[j] = more[o]
            BY <3>3, <5>2
          <5>4. m < o
            BY <1>6, <3>4, <5>1, <5>3
          <5> QED  BY <1>4, <5>1, <5>3, <5>4 DEF InOrder
        <4> QED  BY <3>3, <4>1, <4>2
      <3>5. ASSUME NEW k \in 1 .. Len(both)
            PROVE  Matches(both[k], currentStatus) \/ both[k].status = "deleted"
        BY <1>4, <1>14, <2>1, <3>3 DEF TableInv, ShownInOrder
      <3> QED  BY <1>1, <2>5, <3>4, <3>5 DEF ShownInOrder
    <2> QED  BY <1>7, <1>8, <1>9, <1>10, <1>11, <2>6, <2>7, <2>8 DEF TableInv
  <1> QED  BY <1>1, <1>2, <1>12, <1>13, <1>14

LEMMA StepFetchFails ==
  ASSUME TableInv, NEW f \in fetches, FetchFails(f)
  PROVE  TableInv'
  <1>1. /\ fetches' = fetches \ {f} /\ tidy' = (tidy /\ (f.own \/ ~ isLoadingMore))
        /\ UNCHANGED <<rows, now, currentStatus, currentCursor, pageRows, fetched, steady>>
    BY DEF FetchFails, listing
  <1>2. tidy' => tidy
    BY <1>1
  <1>3. TableTypeOK' /\ RepliesRight'
    BY <1>1 DEF TableInv, TableTypeOK, RepliesRight
  <1>4. SteadyStays'
    BY <1>1, SameRows DEF TableInv, SteadyStays
  <1>5. tidy' => \A g \in fetches' : ~ g.own
    BY <1>1 DEF TableInv, OneFetch
  <1>6. OneFetch'
    BY <1>1, <1>2, <1>5 DEF TableInv, OneFetch
  <1>7. TableEnds' /\ ShownInOrder'
    BY <1>1, <1>2 DEF TableInv, TableEnds, ShownInOrder
  <1>8. NothingSkipped' /\ RepliesWhole'
    BY <1>1, <1>2, SameRows DEF TableInv, NothingSkipped, RepliesWhole
  <1> QED  BY <1>3, <1>4, <1>6, <1>7, <1>8 DEF TableInv

(* Nothing that the invariant is about changes. *)
LEMMA StepAside ==
  ASSUME TableInv, UNCHANGED <<listing, table, fetches, fetched, steady, tidy>>
  PROVE  TableInv'
  <1>1. UNCHANGED <<rows, now, currentStatus, currentCursor, isLoadingMore, pageRows, fetches,
                    fetched, steady, tidy>>
    BY DEF listing, table
  <1>2. TableTypeOK' /\ RepliesRight' /\ OneFetch' /\ TableEnds' /\ ShownInOrder'
    BY <1>1 DEF TableInv, TableTypeOK, RepliesRight, OneFetch, TableEnds, ShownInOrder
  <1>3. SteadyStays' /\ NothingSkipped' /\ RepliesWhole'
    BY <1>1, SameRows DEF TableInv, SteadyStays, NothingSkipped, RepliesWhole
  <1> QED  BY <1>2, <1>3 DEF TableInv

(* A row that is marked keeps its place. *)
LEMMA StepDeleteAnswered ==
  ASSUME TableInv, NEW d \in deleting, DeleteAnswered(d)
  PROVE  TableInv'
  <1> DEFINE marked == Marked(pageRows, d.id)
  <1>1. /\ pageRows' = marked
        /\ UNCHANGED <<rows, now, currentStatus, currentCursor, isLoadingMore, fetches,
                       fetched, steady, tidy>>
    BY DEF DeleteAnswered, listing
  <1>2. pageRows \in Seq(SecretItem) /\ Len(pageRows) \in Nat
        /\ \A i \in 1 .. Len(pageRows) : pageRows[i] \in SecretItem
    BY DEF TableInv, TableTypeOK
  <1>3. \A e \in SecretItem : /\ [e EXCEPT !.status = "deleted"] \in SecretItem
                         /\ [e EXCEPT !.status = "deleted"].id = e.id
                         /\ [e EXCEPT !.status = "deleted"].at = e.at
                         /\ [e EXCEPT !.status = "deleted"].status = "deleted"
    BY DEF SecretItem, Status
  <1>4. /\ marked \in [1 .. Len(pageRows) -> SecretItem]
        /\ \A i \in 1 .. Len(pageRows) :
               /\ marked[i].id = pageRows[i].id /\ marked[i].at = pageRows[i].at
               /\ marked[i] = pageRows[i] \/ marked[i].status = "deleted"
    BY <1>2, <1>3 DEF Marked
  <1> HIDE DEF marked
  <1>5. marked \in Seq(SecretItem) /\ Len(marked) = Len(pageRows)
    BY <1>2, <1>4
  <1>6. TableTypeOK' /\ RepliesRight'
    BY <1>1, <1>5 DEF TableInv, TableTypeOK, RepliesRight
  <1>7. SteadyStays'
    BY <1>1, SameRows DEF TableInv, SteadyStays
  <1>9. OneFetch'
    BY <1>1 DEF TableInv, OneFetch
  <1>10. TableEnds'
    <2>1. SUFFICES ASSUME tidy, currentCursor # Null
                   PROVE  marked # <<>> /\ currentCursor = CursorOf(marked[Len(marked)])
      BY <1>1 DEF TableEnds, EndsAt
    <2>2. pageRows # <<>> /\ currentCursor = CursorOf(pageRows[Len(pageRows)])
      BY <2>1 DEF TableInv, TableEnds, EndsAt
    <2>3. Len(pageRows) \in 1 .. Len(pageRows)
      BY <1>2, <2>2
    <2>4. marked # <<>>
      BY <1>5, <2>3
    <2> QED  BY <1>4, <1>5, <2>2, <2>3, <2>4 DEF CursorOf
  <1>11. Ids(marked) = Ids(pageRows)
    BY <1>4, <1>5 DEF Ids
  <1>12. NothingSkipped' /\ RepliesWhole'
    BY <1>1, <1>11, SameRows DEF TableInv, NothingSkipped, RepliesWhole
  <1>13. ShownInOrder'
    <2>1. \A i, j \in 1 .. Len(pageRows) : Newer(pageRows[i], pageRows[j]) => Newer(marked[i], marked[j])
      BY <1>4 DEF Newer
    <2> QED  BY <1>1, <1>4, <1>5, <2>1 DEF TableInv, ShownInOrder
  <1> QED  BY <1>6, <1>7, <1>9, <1>10, <1>12, <1>13 DEF TableInv

-----------------------------------------------------------------------------
(* The rows of the database change under the table. *)

LEMMA RowChanges ==
  ASSUME ListingAssumption, rows \in [Id -> Row \cup {Null, Gone}], now \in Time,
         \/ \E id \in Existing, status \in Status : SetsStatus(id, status)
         \/ \E id \in Id : Creates(id) \/ Vanishes(id)
  PROVE  /\ rows' \in [Id -> Row \cup {Null, Gone}] /\ now' \in Time
         /\ \A id \in Existing : rows'[id] # Gone => id \in Existing' /\ rows'[id].at = rows[id].at
  <1>1. \A id \in Existing : id \in Id /\ rows[id] \in Row /\ rows[id] # Null
    BY DEF Existing
  <1>2. Null \notin Row /\ Gone \notin Row
    BY DEF ListingAssumption
  <1>3. ASSUME NEW id \in Existing, NEW status \in Status, SetsStatus(id, status)
        PROVE  /\ rows' \in [Id -> Row \cup {Null, Gone}] /\ now' \in Time
               /\ \A other \in Existing : rows'[other] # Gone =>
                      other \in Existing' /\ rows'[other].at = rows[other].at
    <2> DEFINE r == [rows[id] EXCEPT !.status = status]
    <2>1. rows' = [rows EXCEPT ![id] = r] /\ now' = now
      BY <1>3 DEF SetsStatus
    <2>2. r \in Row /\ r.at = rows[id].at
      BY <1>1 DEF Row
    <2> HIDE DEF r
    <2>3. rows' \in [Id -> Row \cup {Null, Gone}]
      BY <2>1, <2>2
    <2>4. ASSUME NEW other \in Existing, rows'[other] # Gone
          PROVE  other \in Existing' /\ rows'[other].at = rows[other].at
      <3>1. CASE other = id
        BY <1>1, <1>2, <2>1, <2>2, <3>1 DEF Existing
      <3>2. CASE other # id
        BY <1>1, <2>1, <2>4, <3>2 DEF Existing
      <3> QED  BY <3>1, <3>2
    <2> QED  BY <2>1, <2>3, <2>4
  <1>4. ASSUME NEW id \in Id, Creates(id)
        PROVE  /\ rows' \in [Id -> Row \cup {Null, Gone}] /\ now' \in Time
               /\ \A other \in Existing : rows'[other] # Gone =>
                      other \in Existing' /\ rows'[other].at = rows[other].at
    <2> DEFINE r == [at |-> now', status |-> "active"]
    <2>1. rows[id] = Null /\ now' \in Time /\ rows' = [rows EXCEPT ![id] = r]
      BY <1>4 DEF Creates
    <2>2. r \in Row
      BY <2>1 DEF Row, Status
    <2> HIDE DEF r
    <2>3. rows' \in [Id -> Row \cup {Null, Gone}]
      BY <2>1, <2>2
    <2>4. \A other \in Existing : other # id /\ rows'[other] = rows[other]
      BY <1>1, <2>1
    <2> QED  BY <1>1, <2>1, <2>3, <2>4 DEF Existing
  <1>5. ASSUME NEW id \in Id, Vanishes(id)
        PROVE  /\ rows' \in [Id -> Row \cup {Null, Gone}] /\ now' \in Time
               /\ \A other \in Existing : rows'[other] # Gone =>
                      other \in Existing' /\ rows'[other].at = rows[other].at
    <2>1. rows' = [rows EXCEPT ![id] = Gone] /\ now' = now
      BY <1>5 DEF Vanishes
    <2>2. \A other \in Existing : rows'[other] # Gone => rows'[other] = rows[other]
      BY <1>1, <2>1
    <2>3. rows' \in [Id -> Row \cup {Null, Gone}]
      BY <2>1
    <2> QED  BY <1>1, <2>1, <2>2, <2>3 DEF Existing
  <1> QED  BY <1>3, <1>4, <1>5

LEMMA StepRows ==
  ASSUME ListingAssumption, TableInv, Stay,
         UNCHANGED <<table, fetches, fetched, tidy>>,
         \/ \E id \in Existing, status \in Status : SetsStatus(id, status)
         \/ \E id \in Id : Creates(id) \/ Vanishes(id)
  PROVE  TableInv'
  <1>1. UNCHANGED <<currentStatus, currentCursor, isLoadingMore, pageRows, fetches, fetched, tidy>>
    BY DEF table
  <1>2. rows \in [Id -> Row \cup {Null, Gone}] /\ now \in Time
    BY DEF TableInv, TableTypeOK
  <1>3. /\ rows' \in [Id -> Row \cup {Null, Gone}] /\ now' \in Time
        /\ \A id \in Existing : rows'[id] # Gone => id \in Existing' /\ rows'[id].at = rows[id].at
    BY <1>2, RowChanges
  <1>4. \A id \in steady' : /\ id \in steady /\ rows'[id] # Gone /\ Discerned(id)'
                            /\ Matches(rows'[id], currentStatus)
    BY DEF Stay
  <1>5. \A id \in steady' : id \in Existing' /\ rows'[id].at = rows[id].at
    BY <1>3, <1>4 DEF TableInv, SteadyStays
  <1>6. SteadyStays'
    BY <1>1, <1>4, <1>5 DEF SteadyStays, Matches
  <1>7. \A id \in steady' : \A cursor : After(id, cursor)' <=> After(id, cursor)
    BY <1>5 DEF After
  <1>8. NothingSkipped' /\ RepliesWhole'
    BY <1>1, <1>4, <1>7 DEF TableInv, NothingSkipped, RepliesWhole
  <1>9. TableTypeOK'
    BY <1>1, <1>3 DEF TableInv, TableTypeOK
  <1>10. RepliesRight' /\ OneFetch' /\ TableEnds' /\ ShownInOrder'
    BY <1>1 DEF TableInv, RepliesRight, OneFetch, TableEnds, ShownInOrder
  <1> QED  BY <1>6, <1>8, <1>9, <1>10 DEF TableInv

LEMMA TableSteps ==
  ASSUME ListingAssumption, DashboardAssumption, TableInv, [TableNext]_tableVars
  PROVE  TableInv'
  <1>1. CASE LoadMore  BY <1>1, StepLoadMore
  <1>2. ASSUME NEW tab \in Tabs, ClickTab(tab)  PROVE TableInv'
    BY <1>2, StepClickTab
  <1>3. ASSUME NEW f \in fetches, ServePage(f)  PROVE TableInv'
    BY <1>3, StepServePage
  <1>4. ASSUME NEW f \in fetches, Answered(f)  PROVE TableInv'
    BY <1>4, StepAnswered
  <1>5. ASSUME NEW f \in fetches, FetchFails(f)  PROVE TableInv'
    BY <1>5, StepFetchFails
  <1>6. CASE ConfirmDelete \/ \E d \in deleting : DeleteFails(d)
    BY <1>6, StepAside DEF ConfirmDelete, DeleteFails
  <1>7. ASSUME NEW d \in deleting, DeleteAnswered(d)  PROVE TableInv'
    BY <1>7, StepDeleteAnswered
  <1>8. ASSUME NEW d \in deleting, ServeDelete(d)  PROVE TableInv'
    <2>1. d.id \in Existing /\ "deleted" \in Status
      BY <1>8 DEF ServeDelete, Deletable, Status
    <2> QED  BY <1>8, <2>1, StepRows DEF ServeDelete
  <1>9. CASE RowsMove
    <2>1. PICK id \in Id : Creates(id) \/ Changes(id) \/ Vanishes(id)
      BY <1>9 DEF RowsMove
    <2>2. Changes(id) => \E status \in Status : id \in Existing /\ SetsStatus(id, status)
      BY DEF Changes, Deletable, ListingAssumption
    <2>3. \/ \E i \in Existing, status \in Status : SetsStatus(i, status)
          \/ \E i \in Id : Creates(i) \/ Vanishes(i)
      BY <2>1, <2>2
    <2> QED  BY <1>9, <2>3, StepRows DEF RowsMove
  <1>10. CASE UNCHANGED tableVars
    BY <1>10, StepAside DEF tableVars
  <1> QED  BY <1>1, <1>2, <1>3, <1>4, <1>5, <1>6, <1>7, <1>8, <1>9, <1>10 DEF TableNext

LEMMA TableInvariant ==
  ASSUME ListingAssumption, DashboardAssumption
  PROVE  TableSpec => []TableInv
  BY TableInitially, TableSteps, PTL DEF TableSpec

(* However many secrets are created, viewed, deleted and gone while their pages
   are fetched, the dashboard's rows (fetchPage, dashboard.ts:1014) are each
   secret once, newest first, and of the tab's status or deleted here, from the
   tab's first page on.  Calls of former tabs, however many, are under way when
   the tab is chosen: what comes back before that page does no harm, and only one
   that comes back after it ends the promise. *)
THEOREM PagesMakeOneList ==
  ListingAssumption /\ DashboardAssumption => (TableSpec => []ShownInOrder)
  <1> SUFFICES ASSUME ListingAssumption, DashboardAssumption  PROVE TableSpec => []ShownInOrder
    OBVIOUS
  <1>1. TableInv => ShownInOrder
    BY DEF TableInv
  <1> QED  BY <1>1, TableInvariant, PTL

(* A table without a cursor to go on from (nextCursor of getUserSecrets,
   secrets.service.ts:381) has, for as long, every secret that its tab listed all along and
   that a cursor, which knows the millisecond, could tell from its neighbours. *)
THEOREM NothingIsSkipped ==
  ListingAssumption /\ DashboardAssumption => (TableSpec => []AllListed)
  <1> SUFFICES ASSUME ListingAssumption, DashboardAssumption  PROVE TableSpec => []AllListed
    OBVIOUS
  <1>1. TableInv => AllListed
    BY DEF TableInv, NothingSkipped, AllListed, After, Ids
  <1> QED  BY <1>1, TableInvariant, PTL

==============================================================================
