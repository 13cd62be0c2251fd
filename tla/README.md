# Verification of the P2P wallet

TLA+ models of the wallet's API, worker and web client, model-checked with TLC, and
theorems about them checked by TLAPS. Every definition is translated from the code under
`src/`; `PROJECT.json` names the lines each one stands for. The system is a NestJS API and a
worker over PostgreSQL (Prisma, READ COMMITTED) and Redis, and a Next.js client.

## Inventory

| Part | State | Operations | Talks to | Hard behaviour |
| --- | --- | --- | --- | --- |
| Transfers (`transfers/`) | `transfers`, `wallets`, `ledger_entries` | `createDirectTransfer`, `settle` | idempotency, limits, risk, audit, outbox in one transaction | lock order, stale reads, retry loop, lost COMMIT acknowledgement |
| Money requests (`money-requests/`) | `money_requests` | create, accept, decline, cancel | `settle`, idempotency, outbox | racing resolutions, expiry read off the clock |
| Idempotency (`idempotency/`) | `idempotency_records` | `begin` (claim, lock, reclaim), `complete` | the caller's transaction | duplicates in flight, rollback of a claim, other body under the same key |
| Limits (`limits/`) | sums over `transfers` | `assertWithinLimits`, `getUsage` | `settle` | two checks at once, three rolling windows |
| Outbox (`outbox/`, `worker.ts`) | `outbox_events` | insert, claim, mark processed, charge failure, poll, shut down | consumers | several workers, crash, lost acknowledgement, poison event |
| Notification consumer (`notifications/`) | `notifications` | plan, idempotent insert | the worker's transaction | two events of one payment |
| Risk (`risk/`) | `risk_assessments` | `assess` in the transfer, explanation after the worker's commit | outbox | boundaries of the rules; a best-effort follow-up |
| Audit (`audit/`) | `audit_logs` | in-transaction and detached rows | all services | a failure row about something that committed |
| Sessions (`auth/`) | `auth_sessions` | login, refresh, logout, reuse sweep | guards, audit | read outside the transaction that writes |
| Request guards (`common/guards`, `security/`) | none | JWT, CSRF, account status | every route | account suspended after the check |
| Verification (`verification/`) | `users.verification_status`, `users.nid_hash` | submit | rate limit, users, audit | status and owner read before the transaction |
| Rate limiting (`common/rate-limit`, `redis/`) | Redis counters | INCR, EXPIRE | Redis | two commands, failure between |
| Reads (`activity/`, `notifications.service`, `users.repository`, `common/pagination`) | `notifications.read_at` | keyset pages, mark as read | the pages and hooks of the web client | rows that commit late, cursors whose row no longer matches |
| Web send page (`apps/web/.../send`, `lib/api-client.ts`) | React state, the minted key | review, submit, retry, back, send another | API | outcomes not known, late answers, retries |
| Web requests page (`apps/web/.../requests`) | React state, the minted key | compose, submit, cancel, accept, decline, load | API | a creation retried or left behind, a list read before a decision |
| Web lists (`lib/use-activity.ts`, `.../notifications`, `components/RecipientPicker.tsx`) | React state | load, load more, filter, search, mark read | API | pages superseded, aborted and answered out of order |
| Session context (`lib/session-context.tsx`) | user, wallet last fetched | load, refresh wallet, sign out | API | refreshes answered out of order |
| Users, wallets, health, money text, HTTP plumbing, presentation | – | reads, wording | – | none that needs a model |

What makes each part correct, in short. *Transfers*: the books balance, no debit without
cover, limits and account states respected under concurrency. *Requests*: decided once, paid
exactly if accepted. *Idempotency*: a key acts once, a replay repeats the first answer.
*Outbox*: each event is processed by exactly one commit, and eventually. *Notifications*:
nobody is told twice of one payment. *Sessions*: a spent token gives nothing.
*Audit*: a failure row means a failure. *Limits*: no window is exceeded, and the headroom
shown is real. *Risk*: a burst does not go unflagged. *Verification*: VERIFIED is final.
*Rate limiting*: a counter ends. *Lists*: every row is listed once, and the newest load wins.
*Send page*: one intent, one payment. *Requests page*: one form, one request; what was
confirmed is shown.

The hazards list of `PROJECT.json` places each of these at its line and names the properties
that cover it, or says why none does.

## Modules

| Module | Models | Kind |
| --- | --- | --- |
| `RowLocks` | PostgreSQL row locks as the repositories' SQL uses them (external) | component |
| `MoneyMovement` | `POST /transfers`, `/money-requests/:id/{accept,decline,cancel}`, with idempotency, limits, failure audits | component |
| `PaymentBook` | what those routes promise: each intent atomic, at most once per key | abstract specification |
| `MoneyMovementProperties` | properties, the inductive invariant `IInv`, the refinement mapping | properties |
| `MoneyMovementProofs` | the invariant and what follows from it, the refinement of `PaymentBook` included | proofs |
| `Assessment`, `AssessmentProperties`, `AssessmentProofs` | send limits and risk engine over a clock, `GET /wallet` | component, properties, proofs |
| `Outbox`, `OutboxProperties` | outbox table, workers, poll loop, notification and explanation consumers | component, properties |
| `Announcements` | what the outbox promises: each event announced at most once, in one step | abstract specification |
| `OutboxProofs` | the invariant and what follows from it, the refinement of `Announcements` included | proofs |
| `AuthSessions`, `AuthSessionsProperties`, `AuthSessionsProofs` | refresh-token sessions | component, properties, proofs |
| `RateLimit` | `RateLimitGuard` over Redis: a counter and its time to live | component |
| `Verification`, `VerificationProperties`, `VerificationProofs` | `POST /verification/nid` behind `RateLimit` | component (extends `RateLimit`), properties, proofs |
| `SendPage`, `SendPageProperties`, `SendPageProofs` | the send page, its API client and the network, in front of an instance of `PaymentBook` | composition, properties, proofs |
| `RequestsPage`, `RequestsPageProperties` | the requests page before the API's money requests, `create` and the lists included | composition, properties |
| `PagedList`, `PagedListProperties` | activity feed, notifications, recipient search, with the queries behind them | composition, properties |
| `WebPagesProofs` | theorems of `RequestsPage` and `PagedList` | proofs |
| `Sums` | what `SumFunctionOnSet` computes, and induction over finite sets | lemmas |
| `MC*` | instances for TLC (`MCWebPages`: of `RequestsPage` and `PagedList`) | model checking |

`MoneyMovement` implements `PaymentBook` (checked and proved), and `SendPage` runs the web client against
`PaymentBook`: what holds of the page depends only on what the API promises. `Outbox` likewise implements
`Announcements`: `emitted`, `processed`, `notified` and `deliveries` are the variables of both, a `Deliver` is
its `Announce`, the commit that emits is its `Emit`, and every claim, failure, charge, crash and tick is a stutter.

### MoneyMovement

A *call* is one HTTP request; a client's retry is another call with the same intent. A call
runs one READ COMMITTED transaction whose statements are the labels of `pc`:

    idle -Submit-> claim -TryClaim-> [lockRecord | lockRequest | resolveWallets]
      lockRequest -LockRequest-> resolveWallets (accept) | commit (decline, cancel)
      resolveWallets -ResolveWallets-> lockFirst -LockFirst-> lockSecond -LockSecond->
      settle -Settle-> commit -Commit-> done

Other transactions cannot see uncommitted writes, and every row a transaction updates it has
locked. So its writes are applied at once, in `Publish`, at COMMIT; what it *reads* is
recorded when it is read (`seenBalance`, `seenActive`), because the code computes ledger
entries, the receipt and the account check from those values statements later.
`RowLocks` has the locks: a `SELECT ... FOR UPDATE` takes a free row or waits, and
`INSERT ... ON CONFLICT DO NOTHING` on the unique key waits for the other inserter's end
and then fails if it committed (`TryClaim`, `LockExisting`). A record is committed only as
COMPLETED, because claim and completion belong to one transaction; `LockExisting` has the
conflict and replay branches of `begin`.

Failures: `WriteConflict` (P2034, 40001, 40P01: rolled back, retried up to `MaxAttempts`, then
an error), `Abort` (any other error), `CommitUnacknowledged` (COMMIT is applied, the client
library throws; the catch treats it as a failure, writes the failure audit and answers an
error). `Suspend` and `Expire` are the environment. In the code the actor's status is also
checked by the guard before the handler, which is why `known` records the environment at
`Submit`.

Abstractions: wallets are identified by their users and ordered as numbers (the code sorts
UUID strings: any total order will do); `wallet.status` is never written in this repository
and is taken as ACTIVE; the sender's past transfers within the window are the scalar `sent`
(all calls of a run fall in one window: `Assessment` has the windows that slide); the risk
assessment, the outbox rows and the audit row of a success are written in the same
transaction and commit with it. The foreign
keys' FOR KEY SHARE locks are left out; they conflict with the FOR UPDATE locks of rows the
same code has locked before in the same order.

### PaymentBook

Balances, sums sent, request statuses and the key table; `Transfer`, `Accept`, `Decline`,
`Cancel` are atomic and guarded by what the API promises. `MoneyMovementProperties!Book`
maps it: a key is used once its record is stored.

### Outbox

A worker's `pc`: `waiting` (timer set), `claim`, `dispatch` (inside the transaction: the row is
locked), `charge` (after a rollback, before `recordFailure` runs), `explain` (after the commit),
`down`. `Claim` takes the oldest event that is emitted, unprocessed, due, not exhausted and not
locked by another (SKIP LOCKED). `Deliver` is the handler's inserts and `markProcessed` at
COMMIT. `Charge` is the separate UPDATE on another connection, unconditional, waiting for a
row lock. `Shutdown`, `Crash`, `Restart` are SIGTERM, the process's death and the supervisor.
`Payload` has the event's type and parties; `Plan` is the consumer's rule of who is told.
`Events` are numbered by `occurred_at`. `Faults` bounds crashes, shutdowns, lost
acknowledgements, failing claims and failing bookkeeping, not a poison event's own throws.

### Assessment

The part of `settle` that passes judgement, for the transfers of one sender, whom alone the
queries concern. A call takes the sender's wallet row and reads the balance (`Lock`), sums the
windows (`CheckLimits`), stamps its row (`Insert`), counts recent transfers and stores the
engine's result (`Assess`), and commits. `Tick` may fall between any two of them, because
`created_at` is the moment of the INSERT and each query takes its own `now`. `settled` are
the SUCCEEDED rows other transactions see. `Report` is `GET /wallet`, which sums without a
lock. The seven rules and their weights are `Signals` and `Weight`; their wording and the
order of the reasons are left out. `quote` is a history variable. The windows have names and
any lengths and limits: the constants of the code are one instance.

### RequestsPage

`composing`, `form`, `key`, `creating`, `acting`, `token`, `loading`, `listError` are the page's
`isComposing`, its three fields, `idempotencyKeyRef`, `isSubmitting`, `pendingAction`,
`reloadToken`, `isLoading`, `loadError`; `shown` is the status each listed row carries. Each
handler is an action, cut at its await. A load is two GETs (`Promise.all`), answered
separately and put up together; a newer load aborts it, and it is dropped by the check of the
aborted signal (`Current`) if its answers were already in. `Remount` is a new mount: what
was in flight goes on at the API, unheard. `Create` is `create` with its replay, `Resolve` the
three decisions, `Refuse` any answer without effect, `Others` the other party and deadlines.
`edits` and `told` are history. Assumed: the effect that aborts runs in the same step as the
state change that triggers it; lists no longer than the one page asked for. The tabs, which
choose what is drawn, and the key a button mints for its one request are left out.

### PagedList

One module for the three lists, which have one shape: `view` says which is mounted. Rows are
numbered against their order, so the list is read downwards, and become visible in any
order, because a row is stamped before its transaction commits. `Page` is the query with its
extra row: `Beyond` is the keyset condition of the feed and the notifications, and Prisma's
`cursor` with `skip: 1` for people, which drops the first row it finds whether or not it is the
cursor's. `firsts` are first pages awaited, `more` a further page, `marking` a Mark read; each is
asked for, answered (`Serve...`) and received in separate steps. `Type` is the picker's effect,
which aborts the search before it: the abort may cut off the body of an answer, which the
client then takes for an unreadable one and clears the list. `epoch` numbers first pages;
`base`, `mixed` and `lost` are history: which load the list stands on, whether a page was
appended that does not continue it, and whether the last load failed. What a row consists
of, the names looked up for it and the grouping by date are left out.

### AuthSessions

A session is named by the call that inserted it. `Find` is the read and the branch on it,
outside any transaction; `Rotate` is the transaction that revokes and inserts,
unconditional; `BeginSweep`/`EndSweep` are the two ends of the sweep's UPDATE, which finds
its rows when it begins (READ COMMITTED does not see rows inserted after that). `HandedOut`
are the tokens clients have: a token whose answer was lost is not presented. `Lapse` is
`expires_at` passing. The access token is a stateless JWT and not modelled.

### RateLimit and Verification

`hits` is the Redis counter of an identity on one route, 0 when the key does not exist;
`expiring` the counters with a time to live. A call's `pc` goes `incr` (`Count`: INCR, and what
the guard does with the count), `expire` (`Arm`: the EXPIRE of the call whose INCR gave 1),
`read` (`ReadStatus`: `findById` and the two VERIFIED branches), `owner` (`LookForOwner`),
`write` (`Write`: the transaction, the unique index on `nid_hash` included). `RedisFails` is
the guard's catch: the call passes, whether or not its command was applied. `Fail` is a
failing statement or the process's death. `NextWindow` ends a counter that has a time to live. Hashing and
masking are one-to-one for this purpose and left out; `simulateNidCheck` is a fixed set
`Genuine`. `counted` is a history variable: the calls a window's counter let through.

### SendPage

`stage`, `form`, `key`, `submitting`, `notice`, `receipt` are the page's `stage`, `recipient` with
`amountText`, `idempotencyKeyRef`, `isSubmitting`, `submitError` and `receipt`. Each handler is an
action; `handleConfirm` is cut at its await into `Confirm` and its three ends `Succeed`, `Fail`,
`GiveUp` (the `catch` around `fetch`, AMBIGUOUS_OUTCOME). `Reload` is a new mount. The network keeps every
request sent in `posts`; one still in `travelling` may be handled at any later time or never,
also after the page gave up on it. `Handle` is the API: it pays (`Pay`, an action of
`PaymentBook`), replays, or refuses. `Others` are other users, and the user's requests page.
Keys are numbered as minted, so key *n* belongs to the *n*-th confirmation screen, whose body
the history variable `reviewed` keeps. `edits` counts the changes of the form: two
screens with none between them are one intent.

The page's hint about the balance only refuses a review and is left out; so are the wallet's
refresh after a receipt (session context) and the texts.

## Runs

Bounds are in the `.cfg` files; calls and workers are symmetric model values (symmetry is not
used under liveness).

| Run | Question | Instance and why it is enough |
| --- | --- | --- |
| `calls` | do books, keys, limit, lock order and requests survive racing calls, is a suspension or an expiry before a call ever overlooked, and is every behaviour one of `PaymentBook`? | 3 calls, 3 wallets, 2 attempts. Either 3 calls of one family: transfers in opposite directions, a key with two bodies, two payments that together exceed balance and limit; or accept under two keys, decline, cancel and payments out of and into the payer's wallet. Or 2 calls about the request, self-transfers, strangers and wrong actors among them, with one account suspended or the request expired at any moment. Three calls give a wait cycle of three and a duplicate that arrives while the first retries; a suspension needs one call that overlooks it and one that interferes. |
| `liveness` | is every call answered? | 3 calls, both lock directions, one key twice, one request; suspensions, which only refuse, are left out |
| `failure_audit` | *violated*: "the one that failed has already rolled back" | a lost COMMIT acknowledgement |
| `outbox_delivery` | is every behaviour one of `Announcements` (one commit per event), nobody told twice, attempts bounded, everything emitted ends, workers stop? | 2 workers, a poison event ahead of the 3 events of an accepted, flagged request, batches of 2, 2 attempts, 1 fault: one fault fewer than attempts, without which `Delivered` would not hold |
| `sessions_safety` | are spent tokens useless, lines retired, sweeps effective up to calls in flight? | 4 calls, 2 users: two refreshes and a replay of one token, with a login beside |
| `sessions_reuse` | *violated*: a token refreshes at most once | two refreshes read before either writes |
| `send_page` | what does the user pay, and what is the user shown, with lost and late requests? | 3 users, 2 amounts, 4 edits, 3 confirmation screens, 3 requests: a screen retried while its first request travels, another body under the next key, a reload with a request under way, a payment by somebody else and one by the sender's requests page |
| `send_again` | *violated*: one intent, one key | an unconfirmed outcome, Back, Review, Send |
| `verification` | one account per NID, the limit, and VERIFIED final up to calls in flight? | 3 submissions, 2 users, 3 numbers of which one is rejected, a limit of 2: the third call of a window is over it |
| `verification_final` | *violated*: VERIFIED is terminal | a rejected submission that read UNVERIFIED |
| `windows` | do all three limits hold at once, does a burst get flagged, is the headroom reported real? | 4 transfers of 1 or 4, windows of 1, 2 and 4 ticks with limits 4, 5 and 6, time to 5: each limit is the one that refuses in some behaviour, rows leave each window, and 4 transfers are one more than the 3 that count as a burst |
| `web_pages` | does a form make one request, does a loaded list show what was confirmed, does a paged list lack or repeat a row, does the newest load win? | one page mounted at a time. The form: 4 edits, 3 posts, so a retry, a Cancel with a creation in flight and a second form. The requests list: 2 posts, 3 loads. The paged lists: 4 rows on pages of 2, filters that match all or some, 3 first pages (2 for notifications, whose marks are explored besides) and as many further pages as there are cursors |

`MaxEdits`, `MaxReviews` and `MaxPosts` are the bounds of `SendPage`, guards of the actions they name;
without them the page runs for ever. Its counterexamples need two screens and two
requests, so three of each leave one to interfere. The same goes for the bounds of `RequestsPage`
(`MaxEdits`, `MaxPosts`, `MaxLoads`), `PagedList` (`MaxEpochs`) and `Assessment` (`MaxTime`): each
guards the action it names. `Explored` in `MCMoneyMovement`, and `ForTheForm`, `ForTheList`,
`ForNotifications` in `MCWebPages`, bound the mixture that one run explores. The theorems
hold for every value of the former and know nothing of the latter.

`PROJECT.json` quotes the sentence each violated run refutes. Each property of a passing run
has a mutant, a plausible bug in a mapped definition, that violates it: the definitions next
to the originals commented `not: ...`.

### Properties

Money: `LedgerAgrees` (the running balance in the ledger, computed from a locked read,
matches the wallet, moved by a relative UPDATE), `DoubleEntry`, `CheckConstraintIdle` (the
CHECK never fires, so the user never gets a 500 for it), `SendLimitHolds`, `OnePaymentPerKey`,
`SuccessIsTheStoredResult`, `AcceptedMeansPaidOnce`, `ResolvedForGood`, `NothingForTheSuspended`,
`NoWaitCycle`, `ImplementsPaymentBook`, `EveryCallAnswered`. Limits and risk: `RollingLimitsHold`
(stated of the intervals that end at a transfer, not of the check: the clock moves between the
check and the stamp), `BurstIsFlagged` (the velocity rule alone gives MEDIUM, so what could
slip through is a count that misses transfers), `HeadroomIsReal`. Outbox: `ImplementsAnnouncements`,
`AnnouncedOnce`, `AttemptsBounded` (the bound is `MaxAttempts` plus one attempt for each other
worker, not `MaxAttempts`: an uncharged failure does not stop another claim), `EventsSettle`,
`Delivered`, `StopsWhenTold`. Sessions: `SpentTokenIssuesNothing`, `AncestorsRevoked`,
`SessionsHaveAnExcuse`. Send page: `PaidAsReviewed` (a body is paid at most as often as it was
shown for confirmation), `ReceiptIsPaid`, `SameKeySameBody`. Requests page: `OneRequestPerForm`
(two requests have an edit between them), `KeyKeepsItsBody`, `WhatWasConfirmedIsShown`. Lists:
`NoRowMissing` (in order, no row twice, and every row there when the list began),
`NewestLoadShown`. Verification:
`OneAccountPerNid` (the lookup does not give it, the unique index does), `WindowAdmitsLimit`,
`SettledIsFinal` (what is left of "VERIFIED is the only terminal state": it holds once the calls
that read an earlier status have ended).

### Disagreements met

Four have a run (`failure_audit`, `sessions_reuse`, `send_again`, `verification_final`), and a theorem that
names the one thing that brings it about (see Proofs). The others,
seen while modelling, have none:

- A request whose `expires_at` has passed reads as EXPIRED (`money-request.mapper.ts:11-20`), which
  `README.md:235-236` and `docs/PRD.md:280` call terminal, but `resolvePending` looks at the stored
  PENDING (`money-request.service.ts:296`): it can still be declined or cancelled.
- `markProcessed` is "Terminal success" (`outbox.repository.ts:98`), but a failure is charged by id
  alone (`outbox.repository.ts:113-121`), also to an event that a commit with a lost acknowledgement, or another worker,
  has processed.
- A failed event "is not re-claimable" before its backoff (`schema.prisma:317-320`), but between the
  rollback and the separate UPDATE (`outbox.processor.ts:92-101`) another worker can claim it.
- The reuse sweep is to revoke "every active session" (`auth.service.ts:159-161`); a rotation in
  flight inserts its successor afterwards (`auth.service.ts:216-222`). `SessionsHaveAnExcuse` states what is kept.
- `incrementWithExpiry` "atomically" increments and sets the time to live
  (`redis.service.ts:39`), in two commands: after a failure between them the counter never ends, and
  once it is over the limit its user is refused for good.
- An answer that cannot be read, or a 500 after a COMMIT, is titled "Transfer failed"
  (`api-client.ts:157-174`, `page.tsx:233`), though `isAmbiguous` (`api-client.ts:42-47`) asks that an
  outcome that may have been applied is not presented so. A retry from there keeps the key and is safe.

- A page asked for before a reload or a change of filter is appended to the list that
  replaced its own (`use-activity.ts:74`; the notifications page and the picker do the same),
  though the feed is "newest first" (`api.ts:161`) and pagination "stable under inserts"
  (`docs/IMPLEMENTATION_GUIDE.md:1175`). `NoRowMissing` is stated of the lists this has not
  happened to (`mixed`); `PatientReadersSeeOneList` says which readers it cannot happen to.
- Prisma's `skip: 1` (`users.repository.ts:112`) drops a person when the cursor's own row has
  ceased to match, and more results asked for during the debounce use the new query with the
  old cursor (`RecipientPicker.tsx`). Both are `mixed` as well. A search aborted by a query
  too short to search with leaves the spinner on.
- On the notifications page a Mark read clears the message of a failed load
  (`notifications/page.tsx:91`), which leaves the old filter's list without one; and a list
  read before the mark, shown after it, shows the row as unread again.
- After an accept whose outcome is not known the requests page does not reload, and after one
  that went through it does not refresh the wallet. `WhatWasConfirmedIsShown` is therefore
  about what the page was told.
- `create` checks `expires_at` before it looks up the key (`money-request.service.ts:81`), so a
  retry made after the deadline is refused, not replayed. The web client sends no deadline.
- The velocity rule is documented over "prior transfers" (`risk-engine.service.ts:9`); its count
  includes the transfer being scored.
- The session context (not modelled) puts up the wallet of whichever refresh is answered last
  (`session-context.tsx:56-63`), also after a sign-out, and takes a network error for "not
  signed in" (`:95`).

### Fairness

- `MoneyMovement`: weak fairness of each call's own statements (`Proceed`). Node's event loop
  and PostgreSQL run every statement that can run, and lock waits end when the holder ends; a
  transaction's timeout would end it sooner. Failures are never fair. Clients need not retry.
- `Outbox`: weak fairness of each worker's loop, of the supervisor's restart
  (`restart: unless-stopped`) and of time passing `next_attempt_at`. Faults are bounded, which
  is the assumption "failures stop some day"; the poison event never stops.
- The other modules: none; only safety is stated. Nothing obliges a client to retry or a user
  to press a button, and a page waits for an answer as long as the browser does.

## Proofs

Proved by TLAPS for every value of the constants that meets the named assumptions
(`UsersAssumption`, `IntentsAssumption`, `TermsAssumption`, `OpeningAssumption`,
`BoundsAssumption`, `NobodyAssumption` and finitely many calls and users, `CallsAssumption`; in `Outbox`
finitely many workers and `PayloadAssumption`, which events one transfer's commit emits; in
`SendPage` `PageAssumption`, `AmountsAssumption` and natural bounds; `LimitAssumption` and
`NidAssumption`; in `Assessment` natural times, sums and thresholds; in `RequestsPage`
`FormAssumption`, an empty field is not an input, and `NamesAssumption`; in `PagedList`
`RowsAssumption`, `ViewAssumption`, a query too short matches nobody, and a page of one row at
least), so for any number of users, calls, keys, requests, workers, events, forms, windows,
rows and pages.

- `MoneyMovementProofs`: `Spec => []IInv`, and from it `TypeOK`, `LedgerAgrees`,
  `SendLimitHolds`, `OnePaymentPerKey`, `AcceptedMeansPaidOnce`, `CheckConstraintIdle` and the action
  property `ResolvedForGood`. None of these is inductive. `IInv` adds, for each call
  (`CallInv`), what it holds and has checked at each label: from `claim` on it holds its key
  and the key has no record; past `lockRequest` it holds the request, which is PENDING with the
  right role; past each wallet lock, the balance it read is the wallet's balance; at `commit`
  the checks still hold. A step of another call cannot disturb these because it would have to
  write a row whose lock the first call holds. The proof has one lemma per action.
  From that invariant follows the refinement: every step but a commit that writes leaves `Book`'s variables alone, and a commit is its `Transfer`, `Accept`, `Decline`
  or `Cancel`, whose guards are what `CallInv` says at `commit`; a replay or a failure is a stutter.
  `NothingForTheSuspended` needs `StandingInv`: an account a call saw active was active when the
  call was made, since nobody is activated again. `SuccessIsTheStoredResult` needs `StoredInv`:
  a stored response names the call that carried the key's body out, and whoever is
  answered a success is answered with it. `NoWaitCycle` needs `OrderInv`, what a call can hold at
  each label (`HoldsAtMost`): whoever waits for another is behind it in the order keys,
  requests, wallets by id, so of finitely many calls one that is furthest ahead waits for
  none. That call can go on (`SomeoneCanGoOn`): a row is held only by a call
  that is not answered yet, so a row it finds taken would make it wait for one of them. `DoubleEntry` needs that users are finitely many: a commit moves one amount between two
  wallets, which changes no sum over both (`SumMoves`). `AnswersAreTrue` needs `StoredInv`, that a call with a failure audit
  has ended (`AuditedInv`) and, for each call, that having carried its intent out it is answered so (`ToldTrulyInv`); `HistoryStands` is read off the actions under `IInv`: a commit completes
  only a record that its call has locked and found missing, and only ever appends to a ledger.
- `AssessmentProofs`: `BurstIsFlagged`, `RollingLimitsHold` and `HeadroomIsReal`. From the lock
  to the end a call is the only one under way (`OneAtATime`), so what the engine counted when it assessed is still everything when it commits
  (`CountedRight`). The property itself is not inductive: it speaks of one window, that ends at
  an assessment. `BurstInv` says it for every set of settled transfers and wherever the
  window starts: the last of them to commit had all the others in view. For the limits, `LimitInv`
  bounds every interval as long as a window that a stamp ends, and says of the call under
  way what its check found (`Cleared`): nothing was settled since, and the clock that moved
  before the stamp only dropped transfers from the window, so the sum is of a part.
  `QuoteInv` says the same of a report.
- `WebPagesProofs`: `RequestsSpec => []RequestsInv`, and `OneRequestPerForm`, `KeyKeepsItsBody`,
  `WhatWasConfirmedIsShown`, `ToldIsDone`, `DecisionsAreFinal`. `FormInv`: the page's key is that of the form since its last edit,
  and a form without a key is blank or was edited since any key went out. `DoneInv`: what was
  confirmed has happened, for good. `LoadInv`: the load awaited was begun after the last thing
  the page was told, so whatever it is answered shows it. And `ListSpec => []ListInv`, with
  `NoRowMissing` and `NewestLoadShown`. `ListInv` says of every page, answered or on the screen,
  that it is in order between two cursors (`Descends`) and lacks nothing wanted there
  (`Covers`), of what was visible when its load was served; rows only become visible, read or
  suspended, so what is wanted only gets less. A page that arrives for the list on the screen
  begins where that list ends (`MoreInv`), and two such pages joined are one (`PagesJoin`). A
  load with the newest number is the only one, for the filter on the screen (`FirstsInv`).
- `Sums`: the lemmas on sums the above cites. `SubsetInduction`, over the subsets of a finite set
  and from the library's well-founded orders, is stated of a set of sets instead of a
  predicate; by it the recursive function behind a sum exists and is unique, any element can
  be taken out first (`SumWithout`), and a part sums to no more than the whole. The rows of a page
  are numbered by the same induction (`NthRow`).
- `OutboxProofs`: `Spec => []IInv` and from it `TypeOK`, `AttemptsBounded`, `AnnouncedOnce` and the
  refinement of `Announcements`. A row is locked by a worker exactly while that worker dispatches it, and
  then it is not processed: that is why the commit that marks it is the only one. For the
  attempts, a claim needs one left and makes its worker owe one, and only a worker that owes
  one charges one: attempts charged plus workers owing stay under `MaxAttempts` plus the
  workers (`AttemptsOwed`).
- `AuthSessionsProofs`: `Spec => []IInv`, and `TypeOK`, `SpentTokenIssuesNothing`,
  `AncestorsRevoked`, `SessionsHaveAnExcuse`. The last needs two facts about calls in flight:
  a rotation's presented session has an excuse itself or the call was made before the last sweep ended
  (`RotatingInv`), and a sweep under way has found every session it has yet to revoke
  (`SweepingInv`). `SpentForGood` says of a spent token without a history variable what
  `SpentTokenIssuesNothing` says with one, and `SessionsGoBackToALogin` that every session descends from one
  login of its own user.
- `SendPageProofs`: `Spec => []IInv`, and from it `TypeOK`, `ReceiptIsPaid`, `SameKeySameBody` and
  `PaidAsReviewed`. The invariant says that a key belongs to one confirmation screen, whose body
  every request and every payment under it carries (`KeyInv`); that past composing the form is
  the body of that screen (`ScreenInv`); and that the request awaited has the page's key
  (`AwaitInv`), which is why a late answer cannot end up on another screen. `PaidAsReviewed` is
  then a comparison of cardinalities: the spent keys of a body are among its screens. Only the
  interface of `PaymentBook` is used: a key is spent once, on the body of its intent.
- `VerificationProofs`: `Spec => []IInv`, and `TypeOK`, `OneAccountPerNid`, `WindowAdmitsLimit` and the
  action property `SettledIsFinal`. `CountInv` adds what makes two Redis commands safe: a
  call between them is the only one of its user, its counter cannot end, and the counter is
  already ahead of the calls it let through.

### What each disagreement takes

A violated run shows that something can go wrong. These theorems say that it goes wrong in one way only,
so that mending that one thing, or avoiding it, is enough. Each assumes of the behaviour, not of the constants,
that the cause stays away, and the first four conclude the very property their run violates:

| Theorem | Assumes | Concludes | States explored under it |
| --- | --- | --- | --- |
| `AcknowledgedFailuresRolledBack` | `CommitsAcknowledged`: no acknowledgement of a COMMIT is lost | `FailureAuditMeansRolledBack` | `calls`: 176,951 |
| `SequentialClientsRefreshOnce` | `OneCallPerToken`: a client lets a call with a token end before the next | `TokenRefreshesOnce` | `sessions_safety`: 35,076 |
| `OneIntentPaysOnce` | `BackBeforeSending`: Back is used only on a screen that has sent nothing | `OneIntentOnePayment` | `send_page` with 5 edits: 258,312 |
| `SequentialUsersStayVerified` | `OneCallPerUser`: a user's submissions do not overlap | `VerifiedIsFinal` | `verification_safety`: 178,559 |
| `PatientReadersSeeOneList` | `Undisturbed`: more is asked for only of the list on the screen, which stays until the answer is in | `ListIsOne`: `mixed` never happens to a feed or to notifications | `web_pages`: 1,136,918 |

Everything else stays as hostile as before: write conflicts, other users, lost and late answers, retries of a
screen, crashes of calls. The last column was counted by TLC in the run's instance with the assumption conjoined to the next-state relation.
Among those states are a retried call with a failure audit beside a committed one, a rotated session, two payments
from two screens, two submissions of one user who ended up verified, and a full list after two reloads. `FirstToRotateInv`,
`ReadIsCurrent`, `ScreensInv` and `ContinuesInv` are the invariants these need on top of the modules' own.

### By composition

`NobodyOverdrawn` and `ToldExactly` (a notification is there exactly when its event is processed, and then
for everybody the plan names; an explanation only then) are proved of the abstract specification, where they
take a few lines, and carried over to the detailed one by the refinement theorem. That is what the refinements are for:
whatever holds of `PaymentBook` or `Announcements` holds of the transactions and workers that implement them.

### The safety behind the liveness

Only model-checked: liveness under fairness and its ENABLED conditions (`EveryCallAnswered`,
`EventsSettle`, `Delivered`, `StopsWhenTold`). Every other property of a passing run is proved.
What is proved of those four, for every value of the constants, is the part that fairness does not give:

- `SomeoneCanGoOn` and `CallsRunOut`: of the calls not answered one finds the row its next statement needs
  free, and each statement of a call, carried out or failing, makes `Left` smaller, which nobody else's makes
  larger. A call takes at most `MaxAttempts` times eight statements; what is left to fairness is that a statement that can run does.
- `WaitsOnlyForDispatch` and `StoppedRunOut`: a worker that waits for a row waits for one that is dispatching and
  waits for nobody, and a worker told to stop sets no timer again and comes nearer its end with each step.

From there to `~>` is an argument over ENABLED and well-founded time that this prover does not carry out.

## Not modelled

- The session context: the user and the wallet last fetched, shown and never written back.
  Its races are in the hazards list and above.
- The request guards (`common/guards`, `security/`): each checks one request against one row.
  That a suspension after the guard is still respected is `NothingForTheSuspended`.
- Creation of a request with a deadline: no client of this repository sends one.
- The retention of idempotency records: `RECORD_TTL` is written and nothing reads it.
- PostgreSQL's FOR KEY SHARE locks (see `MoneyMovement`), its deadlock detector (there is
  nothing to detect: `NoWaitCycle`) and Redis' eviction.
- Registration, password hashing, JWT and cookie attributes, the CSRF comparison; the
  language-model call behind risk explanations (pure I/O); parsing and formatting of money,
  wording, configuration, health checks, rendering: no state of the system.

What a further step would take: the session context as a fourth page of `MCWebPages`.
