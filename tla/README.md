# Torch Secret in TLA+

Torch Secret shares one-time secrets. The browser encrypts, the server stores
ciphertext it cannot read and destroys it when somebody retrieves it, when the
password was wrong three times, when it expires, or when its owner says so.
These modules model what the server does to the ciphertext, step by step, under
concurrent requests, background cleanup, account deletion and failures; what it
does with accounts, subscriptions, audit rows and its mailing list; and the
pages of the client, whose handlers interleave with the answers they await. TLC
checks them on small instances and TLAPS proves the main safety properties for
every instance.

## 1. The system

### 1.1 Components, their state and operations

| Component | Source | State | Operations |
|---|---|---|---|
| Secrets service and routes | `server/src/services/secrets.service.ts`, `routes/secrets.ts`, `routes/dashboard.ts` | table `secrets` | create, retrieve-and-destroy, metadata, verify password, delete own, list |
| Store | `server/src/db/schema.ts`, `db/connection.ts` | rows, row locks, uncommitted versions | PostgreSQL statements, READ COMMITTED |
| Expiration worker | `server/src/workers/expiration-worker.ts` | Redis key `expiration-lock`, a run's `now` | cron tick, three bulk statements |
| Account deletion, auth hooks, audit | `server/src/auth.ts`, `services/audit.service.ts` | table `users`, `justSignedUpUserIds` | null-out of secrets, audit events, sign-up enrolment |
| Billing | `services/billing.service.ts`, `routes/billing.ts`, `routes/webhooks.ts` | `users.subscriptionTier`, `users.stripeCustomerId` | checkout, portal, webhooks, tier caps |
| Subscribers | `services/subscribers.service.ts`, `routes/subscribers.ts` | table `marketing_subscribers` | subscribe, confirm, unsubscribe |
| Notifications | `services/notification.service.ts` | none | "secret viewed", dunning |
| Rate limiting | `middleware/rate-limit.ts` | counters per address or account | limiters, pass-through on store errors |
| Client router and pages | `client/src/router.ts`, `client/src/pages/*` | DOM of one container, page-local variables | navigation, create, reveal, dashboard |
| Client components | `client/src/components/*` | timers, focus handlers | copy with auto-clear, toast, expiration select |
| Client cryptography | `client/src/crypto/*` | none | AES-GCM, PADME padding, passwords, passphrases |
| Everything else | `app.ts`, `server.ts`, SEO pages, theme, analytics, scripts | — | wiring and presentation |

Requests, the worker and an account deletion meet only in the table: no two of
them call each other, and what they know of one another is what their last
statement returned. A handler is suspended at every `await`; anything may
happen to the row it is working on until the next one. The worker runs in every
server process and takes a Redis key so that one of them works at a time.
Notifications are started and not awaited. Subscribers share nothing with the
rest: their table has no foreign key, and no other code reads it. Billing writes
two columns of `users`, of which the tier is read by `POST /api/secrets` and by
the notification, each in a statement of its own. Stripe and the authentication
library call back: Stripe by webhooks, until they are answered, the library by
hooks that it awaits in the middle of a request.

In the browser everything runs in one thread, and what interleaves are
continuations: a page is a function that awaits the server, a chunk or the
clipboard and then goes on, whether or not the page is still there. The router
empties one container and starts the next page; it cancels nothing. Tabs of one
browser share cookies, `localStorage` and its events, and the clipboard.

### 1.2 What is hard

* `retrieveAndDestroy` and `deleteUserSecret` decide on the snapshot of an
  unlocked SELECT and write by id; `verifyAndRetrieve` locks first;
  `getSecretMeta` cleans up outside any transaction; the worker rewrites many
  rows at once; an account deletion changes the column that says which of the
  others' rules applies to a row.
* Transactions fail between statements and at COMMIT; the worker's three
  statements commit one by one; a COMMIT can succeed with its answer lost.
* Two bulk statements can deadlock; waiters queue on row locks; the Redis key
  may be gone before the run that set it has ended.
* The subscribers service has no transactions: it writes a token and reads it
  back, or finds a row by token and updates by token, and requests for the same
  address replace and clear each other's tokens in between.

* Stripe's events arrive in any order, more than once, and again after a failure;
  two checkouts of one account both find it without a customer; a tier that was
  read may be gone when the next statement runs.
* The set `justSignedUpUserIds` is filled by one hook and emptied by another, and
  the process may restart or the account go in between.
* On the client, the controls of a form are replaced by the answer of the session
  check while they are used or sent; pages mount late; answers come in another
  order than they were asked for; countdowns and deferred clears of several
  buttons act on one clipboard; storage events arrive after this tab's own
  commit; flags survive a redirect that was given up.
* A page of a listing is defined by a cursor that is less precise than the column
  it compares with, over rows that come, go and change tabs in between.

`PROJECT.json` lists the hazards at their lines with the properties that cover them;
those that end in presentation only are in section 3.2.

### 1.3 What makes each component correct

* Secrets: a secret is delivered once (protected) or to overlapping readers only
  (unprotected), never late, and is erased by the time anybody hears of it;
  erasure is final; wrong passwords are counted exactly.
* Worker: a run that ends without an error has erased all that had expired;
  expired ciphertext goes even if nobody asks for it.
* Account deletion: nothing points at an account that is gone; deletion ends.
* Subscribers: nobody is confirmed without a mailed token; confirmed is never
  downgraded by a subscription; unsubscribing wins, and its link works for good;
  of many subscriptions, the one whose token counts is the one that is mailed.
* Billing: nobody is Pro without a checkout of his own that was paid, whoever paid
  becomes Pro, and Pro ends only with the subscription; one customer per account,
  for good.
* Creation: nothing is stored that the tier did not allow during the request, and
  page and server agree on what that is.
* Audit: what is recorded as a sign-in with a password is one, and each is recorded.
* Listing: pages enumerate each row once, in order.
* Client: a page shows what the last navigation or tab asked for, and what it says
  of a secret is true; what is stored is what was chosen at the click; every
  spinner and every disabled button ends; the clipboard is cleared of the secret
  and of nothing copied later; a theme is what was committed last; analytics is
  told of nothing that did not happen.

Where the code does less than this, section 3.2 says so.

## 2. Modules

| Module | Models | Extends |
|---|---|---|
| `RowStore` | the `secrets` table under READ COMMITTED; one operator per kind of statement | |
| `Secrets` | the five operations of the secrets service, one action per awaited statement | `RowStore` |
| `ExpirationWorker` | cron tick, Redis lock, three bulk statements row by row | `Secrets` |
| `AccountDeletion` | `beforeDelete` and the foreign key's ON DELETE SET NULL | `Secrets` |
| `TorchSecret` | their composition, fairness, all properties, the refinement mapping | both |
| `OneTimeSecret` | the abstract promise: sealed, then spent, taken by readers who began in time | |
| `TorchSecretInv` | the inductive invariant | `TorchSecret` |
| `TorchSecretProofs` | theorems | `TorchSecretInv`, `TLAPS` |
| `PromiseProofs` | theorems about the worker and account deletion; that the server implements `OneTimeSecret` | `TorchSecretProofs` |
| `Subscribers` | the three operations of the mailing list, its properties, the refinement mapping | |
| `OptIn` | the abstract promise: stranger, invited by mail, member, left for good | |
| `SubscribersProofs` | its inductive invariant and theorems | `Subscribers`, `TLAPS` |
| `Billing` | checkout, return from checkout, webhooks; Stripe as their environment | |
| `CreateGates` | `POST /api/secrets`: limits, tier checks, INSERT | |
| `CreatePage` | the create and confirmation pages in front of it | `CreateGates` |
| `ProtectionPanel` | the password generator, its options and the popovers of the create page | |
| `Sealing` | padding, limits and encodings a text goes through | |
| `RevealPage` | the reveal page under the router, and its server | |
| `CopyButton` | copy buttons with countdowns over one clipboard | |
| `SecretListing` | the account's list: pages, cursor, filter, and what changes it | |
| `Dashboard` | the table that shows it | `SecretListing` |
| `AccountModal` | the modal that deletes an account | |
| `AuthHooks` | the hooks of the authentication library, audit rows | |
| `AccountPages` | login, registration, session check and log-out of the dashboard, analytics | |
| `ThemeSwitch` | the theme of a tab, its panel, other tabs | |
| `BillingProofs` | the inductive invariant of billing and its theorems | `Billing`, `TLAPS` |
| `CreatePageProofs` | those of a secret's creation, from the controls to the row, and of its padding | `CreatePage`, `Sealing`, `TLAPS` |
| `PageProofs` | those of the reveal page and of the dashboard's table | `RevealPage`, `Dashboard`, `TLAPS` |
| `ControlsProofs` | those of the theme and of the password generator | `ThemeSwitch`, `ProtectionPanel`, `TLAPS` |
| `AccountProofs` | those of the audit log and of what analytics is told | `AuthHooks`, `AccountPages`, `TLAPS` |

`MCTorchSecret`, `MCSubscribers` and `MCBilling` give constants and symmetries
names for TLC. `MCForms`, `MCPages` and `MCTab` each put several components side
by side that share no state: a behaviour is one of any of them (`part`), with the
others at rest in one of their initial states. Every state of each component is
reached, at the cost of the sum of their state spaces, not of the product. There
is a `.cfg` per run.

### 2.1 State

`committed[s]` is the row as every other session sees it, `holder[s]` the
session whose transaction has the row lock, `draft[s]` the version that session
has written. A row keeps the columns a property can tell apart: its ciphertext
is *sealed* (as sent) or *zero*; `pw` stands for a password hash; `attempts`,
`owner`, `notify` and `status` are the columns of those names. A row is *unborn*
before its INSERT and *gone* after its DELETE; ids are never reused, since they
are nanoids.

`pc[r]` is the `await` at which the handler of request *r* is suspended,
`seen[r]` the row its SELECT returned, `result[r]` what it will answer. The
client has the answer when `pc[r]` is *done*; at *reply* the transaction is
committed and the answer on its way. `expired` holds the secrets whose
`expiresAt` has passed; time may pass for any stored secret at any moment, which
covers every duration of `DURATION_MS`. `mail` collects the requests that
dispatched a notification.

In `Subscribers`, `rows[e]` is the row of address *e* with its status, its
confirmation token and its unsubscribe token; `pc`, `call`, `seen` and `answer`
belong to the handlers as above. A request draws at most one nanoid and nanoids
do not repeat, so the request itself stands for the token it drew. `lapsed`
holds the tokens whose 24 hours are over, `mailed` those handed to Resend for
delivery, `announced` what Resend's audience and Loops were told.

In `Billing`, `account[u]` has the three columns of `users` that matter;
`checkout[s]` is a session at Stripe, which stands for the subscription it
starts; `keyed[u]` is the customer Stripe remembers under the idempotency key of
*u*; `unanswered` are the events it goes on delivering. `pc` and `job` are the
await and the local variables of each request under way.

In the page models a variable is a variable of the page function, a property of
the DOM or what the browser keeps for it (history entry, `localStorage`,
clipboard), under the source's name where it has one. A mounted page or an
unanswered call is a record in a set (`flow`, `mounts`, `fetches`, `events`), since
several can be under way.

Some variables are not in the code and only remember what happened, for the
properties: `wasPro`, `revoked` and `clicked` of the create page's modules,
`forgotten` of `CopyButton`, `steady` and `tidy` of `Dashboard` and the `own` of
its calls, `overtaken` and `untold` of `ThemeSwitch`, `orphaned` of `AuthHooks`
and the `id` and `via` of its sessions and audit rows, and the counters. No guard of another
variable's change reads them, except for the counters, which bound an instance.

### 2.2 Actions and code

A statement outside a transaction commits by itself (`AutoPut`, `AutoInsert`);
inside, `Put` writes a version and `CommitRequest` publishes it. An UPDATE names
only the columns it sets, so a write is always computed from the latest version
(`Latest`), never from `seen`. Decisions that touch no row (`RetrieveCheck`,
`VerifyCheck`, `MetaCheck`) are actions of their own because argon2 and the clock
lie between the read and the next statement. `Fail` may happen at every await
and at COMMIT: an error thrown, a statement timeout of 10 s, a lost connection,
a process that exits. It rolls back and, if the COMMIT had succeeded, only loses
the answer.

A bulk statement takes its rows from a snapshot (`SweepStart`, `DetachStart`),
locks and rewrites them in any order (`SweepRow`, `DetachRow`), checks its WHERE
clause again on the locked version, and commits (`SweepDone`, `DetachDone`).
This is what PostgreSQL does in READ COMMITTED, and it is what lets a row slip
from owned to anonymous between two of the worker's statements.

Every statement of the subscribers service commits by itself, so each is one
action on `rows`. Following a link is `Confirm` with a token that was mailed, or
`Unsubscribe` with one of the tokens that stand in a row or were mailed for
something else; an UPDATE by token may find no row, as in the code. `Fail` is
possible at each await and undoes nothing. A mail that Resend loses is one
nobody follows.

A webhook is one request after another until it is answered 2xx: `Deliver` starts
a handler for an event that is sent, its statements follow, and `Fail` leaves the
event unanswered. What a person does at Stripe (pay, cancel, fail to pay) sends
events; each may be delivered at any later time and any number of times.
`CreateGates` has one action per statement of the route, with the tier changing
between any two; `CreatePage` composes the page with it, so that what the page
offers meets what the server accepts.

In a page model an action is an event handler up to its first `await`, or a
continuation up to the next. A request that is under way is answered or fails by
an action of its own and continued by another, so that anything may happen
between. The server behind `RevealPage` answers as `Secrets` does, reduced to one
secret; the server behind the other pages answers what its state allows. A
redirect to a provider leaves the page, and comes back, or not.

The pure algorithms are operators: `PadmeLength` and its helpers in `Sealing`
(one action takes a text of each length through the page, the padding, the
schema and back), `Charset` and the rejection sampling of a draw in
`ProtectionPanel`, `GetUserSecrets` in `SecretListing`.

`map` in `PROJECT.json` ties every definition to its lines. What the database,
Redis and JavaScript itself contribute is marked external there.

Operators introduced by a comment that begins with "Faulty:" are not part of the
specification. Each is the definition below it with one plausible slip (a guard
dropped, a lock forgotten, an order swapped). Substituted for that definition,
it makes one property fail, which shows that the property depends on the code
and not on the shape of the model.

## 3. Runs

Each run is of the module named in its configuration's first column. Requests
are used once, secrets are never reborn and clicks are counted, so that every
instance comes to a halt; deadlock detection is therefore off and progress is
stated as liveness.

### 3.1 What holds

| Run | Instance | Question |
|---|---|---|
| `life` (`MCTorchSecret.cfg`) | 1 secret of any kind, 2 requests of any kind, a worker without Redis; 576 703 states up to symmetry | Is what was answered erased, is erasure final, is nothing late, is `OneTimeSecret` implemented? |
| `verify` (`MCVerify.cfg`) | 1 protected secret, 3 verify requests; 58 697 states | Does FOR UPDATE give one delivery and an exact count, and does everybody get an answer? |
| `cleanup` (`MCCleanup.cfg`) | 2 secrets, a worker behind Redis, an account being deleted; 14 500 states | Do worker and deletion, interleaved row by row, both finish their job? |
| `optin` (`MCSubscribers.cfg`) | 1 address, 5 requests of any kind; 89 757 states up to symmetry | Do tokens, status and mails agree under overlap, and is `OptIn` implemented? |
| `billing` (`MCBilling.cfg`) | 2 accounts, 1 session at Stripe, 2 requests at a time, 1 failure; 2 715 043 states up to symmetry | Is Pro paid for, are customers neither shared nor replaced, does only the end of a subscription end Pro? |
| `forms` (`MCForms.cfg`) | `CreatePage` and `CreateGates`: 1 submission with a generated or custom password or a passphrase; `ProtectionPanel`: every use of generator, options and popovers; `Sealing`: a text of any length; 479 409 states | Is what is stored what was chosen at the click and allowed, does the server accept what the page offers, are field, password and padding as they say, does every submission end? |
| `pages` (`MCPages.cfg`) | `RevealPage`: 2 openings, 2 attempts; `CopyButton`: 2 buttons, 2 copies of each; `AccountModal`: 2 modals, 2 deletions; `Billing`: 1 account, 1 request at a time, 2 failures; 159 103 states | Is what the page says of the secret true, does every wait end, is what is shown hidden and what was copied cleared, does whoever paid become Pro without coming back to the site? |
| `tab` (`MCTab.cfg`) | `AccountPages`: 3 pages, 1 choice of a provider; `AuthHooks`: 1 person, 2 sign-ups or sign-ins, linking and its removal, password resets, deletion, restarts; `Dashboard`: 3 secrets, 2 fetches, pages of one, deletions that overlap; `ThemeSwitch`: 2 themes, 2 requests, 1 change in another tab at any moment; `RevealPage`: 3 openings, 1 attempt; 4 232 801 states | Does what comes late do harm: a choice told twice, a sign-up audited as a sign-in, a page of rows out of order or missing, a theme nobody committed, a key left in the address bar? |

### 3.2 What the code does not keep

Four runs find a behaviour in which the code does other than one of its
comments or documents says; `findings` in `PROJECT.json` quotes both.

| Run | What happens |
|---|---|
| `replay` | two GETs that overlap are both given an unprotected secret |
| `zeros` | a GET of an account's viewed secret answers 200 with zeros |
| `tier` | an event that comes late makes a canceled account Pro for good |
| `crossed` | a tab ends with a theme that `localStorage` does not have |

(1) Two GETs that both run their SELECT before either commits are both given the
ciphertext: the second UPDATE waits, then rewrites or misses the row, and its
handler answers what it read. `OneTimeSecret` says what does hold: only readers
that overlap can share an unprotected secret. (2) The row of a viewed secret that
has an owner is kept, and nothing looks at `status`, so that a later GET answers
200 with a string of zeros. (3) A subscription is canceled; a
*checkout.session.completed* whose first delivery had failed arrives again and
sets the tier, and no later event withdraws it. (4) Another tab stores a theme;
before its storage event comes, the visitor clears the theme here, or commits one;
the event's value is applied all the same, and `localStorage` has what was done
here. `MCCrossed.cfg` is the instance of `tab` with the other components as small
as they can be.

The models contain more such behaviours, since they do what the code does. They
were met while modelling; the properties of section 3.1 are stated so that they
leave room for them, and no run is spent on each.

*Server.*

* `secrets.service.ts:148`: the notification is started inside the transaction
  callback; when COMMIT then fails, the owner has been told that a secret was
  destroyed that is still there.
* `subscribers.service.ts:160`: the UPDATE by token may find no row, because a
  subscription replaced the token after the SELECT; the handler still answers
  *confirmed* and reports the address to Resend and Loops, while the row stays
  pending until the new link is followed.
* `routes/secrets.ts:96`: the 30 days the page offers to Pro are answered 400.
* `routes/secrets.ts:212`: the last wrong password is answered 404, where the page
  (`reveal.ts:318`) expects a 403 with none left; and a viewed secret is never
  answered 410 (`reveal.ts:80`). Both messages of the page are never shown.
* `secrets.service.ts:348`: the cursor has `createdAt` to the millisecond, the
  column to the microsecond; further rows of the cursor's millisecond are on no
  page.
* `auth.ts:248`: where addresses are verified, a sign-up opens no session, so that
  the first sign-in is taken for it and is not recorded. `auth.ts:254`: a sign-in
  at a provider that is known is recorded by nobody. `auth.ts:261`: a session
  opened at a provider is recorded as a sign-in with a password when the user's
  link to the provider is removed before the hook looks for it.

*Create page.*

* `create.ts:1632`: a member whose session check is late or failed is shown the
  prompt to sign up. `create.ts:1646`: a tab switched during submission shows the
  card of a passphrase that was not used.
* `passphrase.ts:7810`: while the list of words is empty, because the chunk failed
  to load, *New passphrase* draws from nothing and does not end.
* `password-generator.ts:52`: the characters that are easy to say contain an e.
* `create.ts:613`, `create.ts:603`: a locked tab's popover is reopened by the click
  that should close it; the notify toggle's stays when a locked tab is clicked.

*Router and reveal page.*

* `router.ts:215`, `reveal.ts:506`, `dashboard.ts:557`, `dashboard.ts:589`,
  `dashboard.ts:1024`: a page that waits for its chunk, an answer or a session
  check goes on when that comes, wherever the visitor is by then. It replaces
  the page opened meanwhile, shows a secret without its timer, wipes the page
  that replaced it, identifies a person who has signed out, or replaces the rows
  of the tab chosen after it: the same slip in five places.
* `copy-button.ts:90`: a clear that the browser rejects is forgotten.
  `copy-button.ts:116`: one button's countdown clears what another copied.

*Account and theme.*

* `dashboard.ts:189`: any first key disarms Escape. `dashboard.ts:774`: the modal
  outlives the account and its page.
* `dashboard.ts:606`, `dashboard.ts:615`: a flag left by a provider that refused
  is told as a login at the next dashboard, and a member who signs in from the
  registration page as a registration.
* `layout.ts:186`, `dashboard.ts:684`: a late answer makes the header's link say
  *Dashboard* after a log-out; the element that should be hidden has another id.
* `retro-theme.ts:29`: the font of a theme that was cleared while it loaded.
  `app.ts:34`: after a reload nobody listens yet to the theme's event.
  `retro-theme.ts:198`: clearing sends none, so that the icon stays.
  `retro-theme.ts:197` is run `crossed`. `theme.ts:63` listens to the system's
  scheme only: a base mode that another tab chooses while no theme is stored is
  not shown here until the page is loaded again. `theme-toggle.ts:75`: the tier
  that is remembered outlives a sign-in.
* `dashboard.ts:357`: typing while the account is being deleted allows a second
  request, which reports a failure after the account is gone.

**Properties.** `AnsweredMeansErased`, `InactiveMeansErased`, `NoLateDelivery`,
`ProtectedDeliveredOnce`, `WrongAnswersCountDown`, `ExhaustedMeansGone` and
`GoneAccountOwnsNothing` are invariants; `ErasureIsFinal` and `CleanupComplete`
say what a step may never do; `EveryRequestAnswered`, `ExpiredErased` and
`DeletionEnds` are liveness; `KeepsPromise` is the refinement of
`OneTimeSecret`. Each is stated in words in `TorchSecret.tla`. Of the mailing
list, `OneLinkPerStatus` and `ValidLinkMailed` are invariants,
`LeaveLinkPermanent` says what no step may do, and `KeepsOptIn` is the
refinement of `OptIn`.

`ProMeansPaid` relates an account to the sessions at Stripe, `OwnCustomer` two
accounts; `CustomerIsFinal` and `DowngradeMeansEnded` are about steps,
`PaidGetsPro` is liveness. `GatesHold` relates a stored row to the tiers its
owner had during the request. `StoredAsChosen` relates it to the controls at the
click, `OfferedIsAccepted` page and server. `ShownIsTrue` relates what the page
says to the row, through answers that have aged; `RevealEnds`, `BurnHides`,
`SubmitAnswered`, `ConfirmAnswered` and `ClearedInTheEnd` are liveness.
`ShownInOrder` and `AllListed` compare the rows of the table with the whole list,
`ShownIsCommitted` and `TabsInSync` the document with `localStorage`, `SaidOncePerClick` what
analytics was told with what was clicked. `TextArrivesHidden` and `FieldIsCurrent`
compare the algorithms with a definition that says what they are for. Every
property is stated in words above its definition.

**Bounds.** Secrets do not interact except in the worker's and the deletion's
bulk statements, so one secret is enough for the handlers, and two, locked in
opposite orders, for the bulk statements and their deadlock. Two requests make
every pair of handlers overlap, with the worker as a third writer; three verify
requests are what it takes to use up `MAX_PASSWORD_ATTEMPTS` and to have two
waiters on one lock. The attempt counter needs no bound of its own: the third
wrong password deletes the row. The theorems of section 5 remove these bounds
for the properties they cover.

Addresses do not interact, so one is enough for the mailing list. Five requests
let two subscriptions replace each other's token, two confirmations follow one
or both of them, and an unsubscription or a third subscription come in between,
in every order.

`Billing`: two accounts are what it takes to share a customer, two requests to
overlap; one session is completed, which the theorems extend to any number. A
failure is a statement or a call that fails, one (two in `pages`, with one
account, where `PaidGetsPro` is checked) at any place.
`CreateGates`: the tier, the account and the limits change between any two
statements of a POST; overlapping POSTs meet only in what the theorem
`CapsHold` covers. `CreatePage`: one click to submit; what a second one meets is
the page as the first left it. Tabs, lifetimes and requests tried are in the
configuration; *24h* is treated as *7d* is, and *30d* is not tried: that it
takes Pro is in the theorem `CapsHold`. `RevealPage`: the link, another
page and the link again in any order (`MaxNav`), with two attempts and two
openings in `pages`, where liveness is checked, and one attempt and three
openings in `tab`. One history entry holds the key. `CopyButton`: two buttons,
the countdown two ticks instead of sixty, so that copies, ticks and focus changes
fall in every order. `Dashboard`:
pages of one row instead of 20, so that three rows make three pages; a
millisecond has two instants of the database (`PerMs`), and `AllListed` speaks of
the rows that a cursor can tell apart (`Discerned`); ids are not reused; a row
can be deleted or seen elsewhere; deletions overlap, each of a row of its own. Two
fetches and one tab beside *all* are what it takes for the first page that the
dashboard opens with to grow, and for a tab to be chosen while a page is on its
way: `ShownInOrder` and `AllListed` speak of the tab again from its own first page
on, whatever answer of the former tab came before it, and not of what such an
answer does when it comes after (`tidy`, section 3.2). `ThemeSwitch`: two
requests for the tier and one change elsewhere, of a theme or of the base mode, at
any moment; the theorem has any number. `overtaken` marks the case of run
`crossed`, until a tab commits again, and `untold` a base mode changed elsewhere,
until this tab applies one. `ProtectionPanel`: a draw has 256 values instead
of 2^32, which every character set is smaller than in both cases. `Sealing`
takes each number of bytes up to 1000, every 41st beyond up to the 30 000 that
10 000 units may have, and those at the limits of texts of one, two and three bytes
a unit; the text is trimmed before it is sealed. `AuthHooks`: two sign-ups or sign-ins of one
person, so that a second one finds what the first left; a provider is unlinked and a
password reset at any moment between them. `AccountPages`: three
pages mounted and one choice of a provider; the theorem removes these bounds.

Type invariants of the page models are not run: TLC's evaluation of the
properties would fail on a value of another type.

## 4. Fairness

`LiveSpec` adds to `Spec`:

* strong fairness of each request's own steps, of each worker's statement and of
  each account deletion, since the event loop goes on with every handler and
  PostgreSQL serves the waiters of a row lock in order; a client's arrival, the
  clock and failures are not fair;
* strong fairness of a worker's tick: the Redis key lives 299 s and the ticks are
  300 s apart, so a tick finds the key absent again and again;
* weak fairness of the key's expiry and of deadlock resolution
  (`deadlock_timeout`), which makes one of the two statements fail;
* cleanup runs do not fail forever. Without this nothing erases the ciphertext
  of an expired secret nobody asks for, in the model or in the code.

Elsewhere `Fairness` is weak fairness of what the machine does:

* `Billing`: each request's own steps, and strong fairness of the delivery of an
  event that turns Pro on and is not answered, which Stripe repeats (for three days,
  by its documentation; failures are bounded);
* `CreatePage`, `RevealPage`, `AccountModal`: a request is answered or fails, and
  the browser runs a continuation that is due; the burn timer ticks;
* `CopyButton`: `writeText` settles and intervals tick. The window need not get
  the focus again: `ClearedInTheEnd` says what follows if it does, again and
  again.

A person is never assumed to do anything. No symmetry is used where liveness is
checked. Nothing is assumed fair in the other modules, which state safety only;
no part of `Subscribers` retries anything.

## 5. Proofs

### 5.1 Secrets

`TorchSecretProofs` and `PromiseProofs` prove, for any sets of
secrets, users, sessions, requests and workers and any traffic:

| Theorem | Property |
|---|---|
| `TypeCorrect` | `TypeOK` |
| `ErasedOnceAnswered` | `AnsweredMeansErased` |
| `InactiveErased` | `InactiveMeansErased` |
| `NoAttemptsMeansGone` | `ExhaustedMeansGone` |
| `OneDelivery` | `ProtectedDeliveredOnce` |
| `AttemptsCountDown` | `WrongAnswersCountDown` |
| `NothingLate` | `NoLateDelivery` |
| `Irreversible` | `ErasureIsFinal` |
| `NothingOwned` (`PromiseProofs`) | `GoneAccountOwnsNothing` |
| `RunErases` (`PromiseProofs`) | `CleanupComplete` |
| `PromiseKept` (`PromiseProofs`) | `KeepsPromise` |

**Assumptions.** Those named in the modules: the null values are not members
of the sets they stand beside, requests, workers and accounts are sessions and
disjoint, kinds and traffic are of their types. TLC evaluates them on every run.

**The argument.** None of the properties is inductive: that a delivered
secret is erased depends on what the transaction had written before it
committed. `IInv` therefore says

* `StoreInv`, of the store: an uncommitted version *descends* from the committed
  one (nothing gone comes back, nothing zeroed is resealed, attempts do not
  decrease), an unlocked row has no other version, and no inactive version
  holds ciphertext;
* `RequestInv`, of each handler, location by location: one that has promised an
  answer which needs the ciphertext erased has already erased it in the version
  it will commit (`Erasing`); one behind FOR UPDATE holds the row and has read
  its committed version (`Locked`); one that counts a wrong password answers
  with what will remain (`Counting`);
* `LateInv`: a request that came too late stays on the paths that answer
  nothing.

`IInv` also holds of every state of the `life` instance in TLC. Its preservation
splits into one step per action. Actions of others touch a handler's knowledge
only through the store, so each is shown once to be *sound*: it takes committed
rows and drafts to descendants and leaves the versions locked by others alone
(`Sound`, `Evolves`, `Spares`). What a handler knows is shown to survive every
sound step (`ElseStep`), and its own steps are treated one by one. `OneDelivery`
then rests on the lock: at the step at which a protected secret is delivered
its row is sealed and held, and afterwards it is neither.

`PromiseProofs` first adds what the bulk statements know while they go from row to row.
Both results rest on the same fact, that owners only fade (`OwnersFade`): a row may
lose its owner and never gets another, and a new row has one whose account still
exists. So a row that the snapshot of a statement did not show is none it had to
visit later. `AccountKnows` says of the statement that deletes an account that each
row of the account is still to be visited or already rewritten in its own
transaction, and that nobody can create more. `WorkerKnows` follows a run: after its
first statement what is still sealed of what had expired has no owner, after
the second nothing is sealed. This is why the order of the three statements
matters: a row that turns anonymous under the first is taken by the second.

It then shows that the server implements `OneTimeSecret`. Its invariant
adds three facts to the base of `IInv`: a handler locks no row but the one it is
asked for, it answers with the ciphertext it read, and a row that is not yet born
has no password. A handler that reads a sealed row begins to race (*Begin*); its
COMMIT takes the secret (*Take*), by `RequestInv` with the row erased and, behind
FOR UPDATE, with the row sealed up to then; a check that fails or an error ends
the race (*Quit*) or loses the answer (*Lose*). Every other step is shown not to
be seen of its handler (`Unseen`), and is an *Erase* of the rows it unseals, of
none in most cases; so are the steps of the worker and of a deletion.

### 5.2 Mailing list

`SubscribersProofs` proves, for any sets of addresses and requests:

| Theorem | Property |
|---|---|
| `TypeCorrect` | `TypeOK` |
| `OneLink` | `OneLinkPerStatus` |
| `LastTokenMailed` | `ValidLinkMailed` |
| `LinkPermanent` | `LeaveLinkPermanent` |
| `OptInKept` | `KeepsOptIn` |

It assumes that the null values are no addresses and no requests. The invariant
adds to the properties what each handler knows at its await (`Underway`) and
that a token only ever stands in the row it was drawn for (`TokensOwned`).
From the latter, an UPDATE by token changes the row that was read or none
(`ConfirmWhere`, `LeaveWhere`), which is what makes each step an `OptIn` step of
one address. TLC finds no state of the `optin` instance outside the invariant.

### 5.3 The other components

| Module | Theorem | Property |
|---|---|---|
| `BillingProofs` | `TypeCorrect` | `TypeOK` |
| | `PaidForPro` | `ProMeansPaid` |
| | `OneAccountPerCustomer` | `OwnCustomer` |
| | `CustomerKept` | `CustomerIsFinal` |
| | `EndedBeforeDowngrade` | `DowngradeMeansEnded` |
| `CreatePageProofs` | `TypeCorrect` | `GatesTypeOK` |
| | `CapsHold` | `GatesHold` |
| | `PageTypeCorrect` | `PageTypeOK` |
| | `PageRefinesGates` | the page and its server implement `GatesSpec` |
| | `StoredIsChosen` | `StoredAsChosen` |
| | `AcceptedIsOffered` | `OfferedIsAccepted` |
| | `TextArrives` | `TextArrivesHidden` |
| `PageProofs` | `WhatIsShownIsTrue` | `ShownIsTrue` |
| | `KeyIsStripped` | `KeyStripped` |
| | `PagesMakeOneList` | `ShownInOrder` |
| | `NothingIsSkipped` | `AllListed` |
| `ControlsProofs` | `CommittedIsShown` | `ShownIsCommitted` |
| | `FieldFollowsOptions` | `FieldIsCurrent` |
| `AccountProofs` | `AuditedSignInsAreSo` | `SignInMeansPassword` |
| | `ToldOnce` | `SaidOncePerClick` |

Where a module is checked beside others (`MCForms`, `MCTab`) its assumption is a
definition, a hypothesis of its theorems, and an ASSUME of the MC module, which TLC
evaluates.

**Billing.** `OwnCustomer` is not inductive: a request that has a customer from
Stripe and has not written it yet may share it with another account's row, as far
as the accounts can tell. `Claims` are the accounts a customer is claimed for: it is
on the account, under its idempotency key, or held by one of its requests on the
way to the row or to a session; `Apart` says that no customer has two. `HandlerInv`
says what a request knows at each await: about to save, it holds the customer
under the key; about to set the tier, that the customer has paid; about to
withdraw it, that the subscription has ended. `StripeInv` says the same of the
sessions and events under way, and `GoneHasNothing` that an account that is gone
has no customer and is not Pro. The run has one session; the theorems any number.

**Creation.** `GatesHold` compares a row with tiers that are over. `Passed` says of
every request behind a check that it passed it: that what it asks for is allowed
to the account it holds (`Held`) at some moment since it began, which the model
remembers in `wasPro`.

**Audit.** A row is written after the hook that fired it. `ProviderLinked` says that
a request at a provider that is past its account is of a user who is linked, or
gone; `FiredRight`, that a sign-in that was fired is one with a password, or of a
user whose row the insert will not find. Both except the requests that were under
way when their user's provider was unlinked (`orphaned`), as the property does.

**Analytics.** A choice of a provider is a click that becomes a flag, which becomes
a report. `Accounted` says that the reports and the flags that are still set are
together no more than the clicks, whichever dashboards overlap.

**The page that creates.** What the page offers was decided from answers that are
over by the time the server decides again. `PageInv` extends the invariant of
`CreateGates` with what lies between: a click is what the controls offered
(`Offered`, `ChosenFairly`), what was sent is what was clicked (`SentAsClicked`),
and each request that is behind some of the server's checks passes the others
(`AskedFairly`). The three parts about what the page has read hold while nothing was
`revoked`, which is also the condition of `OfferedIsAccepted`; the others hold
always. `PageRefinesGates` shows that each step of the page and its server is a
step of `GatesSpec` or leaves its variables alone, so that `CapsHold` holds of the
composition.

**Padding.** Between 2^e and 2^(e+1) the tiers are the multiples of one unit,
2^(e-4) (`Unit`, `Octave`); rounding up to a multiple of it gives the least tier
(`PaddedToTier`), at a cost of no more than 12 percent, and what is sealed of a text
that the page takes is within the limits of the schema (`WithinLimits`). `SealInv`
says that what is under way is the padded text and its size. The powers that
occur are computed one by one, as there are 22; the lengths are all of those up to
the maximum, of which the run takes a sample.

**The page that reveals.** An opening of the link goes on after the page was left, and
its continuations meet a page of another opening. `RevealInv` says that the key is in
the bar only while no opening has it (`KeyInBar`), how far the opening is whose
content is shown (`ContentOf`), and that what was answered still binds the server:
a ciphertext that arrived has taken the secret, and attempts are no more than any
number that was answered or is shown (`AnswerStands`). The first and the last of the
openings, by which a continuation knows whether its content is still there, exist
because numbers are well-founded (`LeastNumber`).

**Dashboard.** That rows can be sorted is proved from a least counterexample: of the
sets without an order, the smallest has one once its oldest row is put last
(`CanBeSorted`). A page of the server is then in order, beyond its cursor, and its
own cursor is at its end (`OnePage`, `RepliesRight`). `TableInv` follows the rows that
stay where they are (`SteadyStays`): each is in the table, or in an answer under way,
or after the cursor (`NothingSkipped`). There is one cursor to speak of, as the table
awaits one page of its own at most (`OneFetch`), and it is where the rows end
(`TableEnds`). Calls of a tab that was left are there as well, and are none of its
own: what they bring before the first page of the chosen tab is replaced by it, and
what they bring after takes the table out of the invariant's reach until the next
first page (`tidy`). A
cursor has lost the microseconds of its row, so this is said of rows whose
millisecond is their own. TLC found no state outside `TableInv` with three rows and
two fetches.

**Theme.** Events of other tabs may be on their way while this one acts, and be
overtaken by what it commits. `LastEventIsStored` says that the last event is of the
stored theme unless one is overtaken, `Catching` that without events the document
shows what is stored, except for the colours of a preview, and unless one was.
`DarkOrUntold` says that the base mode is that of the preference, unless another
tab has changed it since. The only assumption is that of the constants; the
commits of other tabs may cross those of this one in every way.

**Generator.** `GeneratedForNow` says that while the generator is shown, the password,
its error and the field are those of the options of this moment. What is proved
beside it is the arithmetic of a draw: the values below the limit are a multiple of
the number of characters, hence each character has equally many (`DrawsAreUnbiased`),
for any number of values above a hundred: for 2^32, which no run reaches.

**Model-checked only.** Every invariant and every action property of a run that
passes is stated by a theorem. What remains with TLC is what needs fairness, hence
ENABLED, which is out of the prover's reach: `EveryRequestAnswered`, `ExpiredErased`
and `DeletionEnds` of the server, `SubmitAnswered`, `RevealEnds`, `BurnHides`,
`ClearedInTheEnd` and `ConfirmAnswered` of the pages, `PaidGetsPro`. The four runs that find a
violation show what the code does not keep; there is nothing to prove of them.
Nothing is proved about what a recursive definition computes: none of the modules
with theorems has one. A list is sorted by a choice of what is sorted, and a
logarithm by a choice of the exponent.

## 6. Not modelled, and what could follow

* Cryptography and password hashing: their outcome is an input of the models.
  Sessions: the authentication library's.
* The lists of words (`passphrase.ts`, `word-lists.ts`: about ten thousand lines),
  SEO and static pages and their templates, icons and effects, markup, styles and
  texts of the pages, analytics properties, tests and scripts: data and
  presentation. They make up most of the repository's lines, so that the share of
  lines that `map` names stays small although every component with state of its
  own is modelled.
* The pages for forgotten and reset passwords, those that confirm and unsubscribe, pricing,
  the export of `/api/me`, the onboarding mail, the customer portal: a request and
  a message each.
* Rate limiting: that a limiter may answer 429 is in `CreateGates`; its counters
  are the library's. The pool of ten connections: a request without one behaves
  like one that has not arrived.
* In `AccountPages`: the address bar after `replaceState`, chunks of pages that fail to
  load (`RevealPage` has them), a sign-out that is rejected, other tabs, the account
  link of the header.
* In `Dashboard`: the confirmation modal's keys and *Cancel*; the tabs other than the
  one a run names.

What could follow: a composition of `RevealPage` with `Secrets` in place of its
reduced server, whose refinement of it could then be proved; the flows of forgotten
passwords; the other tabs of `Dashboard`.
