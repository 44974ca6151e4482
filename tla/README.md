# TLA+ models of FinSkool

TLA+ modules, TLC configurations and TLAPS proofs about the backend under `apps/backend`, and about the
parts of the web front end (`apps/frontend`) that run a protocol with it. The models are
written from the code (paths below are relative to `apps/backend/src`, or to `apps/frontend/src`
where that is said, and
`PROJECT.json` names the lines every definition stands for); docs, comments and tests are
quoted only as statements of intent.

## 1. The system

The backend is an API process (Express), a notification worker (`worker.ts`, BullMQ,
five jobs at a time), and a cron process (`cron.ts`, one job at a time, two processes while a
deployment replaces one). They share a PostgreSQL database, used through Prisma at READ
COMMITTED, and Redis, which holds the queues, the OTP records and the live feeds. Outside are
Razorpay, Firebase, SMTP, WhatsApp and the mobile app. What makes the code hard: the
three processes interleave between any two statements, transactions read before they lock or
do not lock at all, money arrives by two roads (the app's `verify` and the gateway's webhook),
and much work is done "after the commit", where a crash loses it.

| Component | State | Operations | Meets | Hard | What makes it correct |
|---|---|---|---|---|---|
| Service payments (`modules/services/services.payments.ts`, `lib/service-quote-expiry.ts`) | request, quotes, `razorpay_orders`, `razorpay_payments`, webhook events, invoices | createOrder, verify, handleWebhook, settle, the expiry sweep | the service desk through the same rows; Razorpay | verify / webhook / cancel / re-quote / sweep in any order; redelivery; crashes | a request is paid for by one payment; every capture is applied or flagged; the closing reason agrees with the money |
| Service desk (`modules/services/*.service.ts`) | the same request, its messages, badges | claim, reassign, sendQuote, close, cancel, resolveReview; chat | payments; notices | close is two conditional updates after a read | a quote is payable exactly while the request waits for payment; a closed request stays closed |
| Plan purchase (`modules/payments/payments.service.ts`, `lib/plan-receipt.ts`) | `plan_orders`, `subscriptions`, receipts | createOrder, verify / webhook, settle, issue receipt | subscription administration through the same rows | the settlement does not take the extension's lock | a paid order buys one row; a renewal that nothing crosses loses no days; a receipt |
| Subscription administration (`modules/admin/admin.service.ts`) | `subscriptions`, `users.status` | extend, add, revive, import, revoke, suspend, delete | purchases, daily jobs | transactions that overlap, imports that overwrite rows | of two extensions the later wins |
| Daily jobs (`lib/subscription-lifecycle.ts`, `lib/notify-once.ts`) | notice rows, emails | remind, close | the rows admins change meanwhile | lists read at the start, two processes, retries | nobody is told twice, or closed untold |
| Support tickets (`modules/tickets`) | ticket, messages, events, badges, notices | create, send, read, rate; claim, reply, reassign, resolve, read | admins with access, member | read, check, transaction; several admins at once; resent messages | an open ticket has no owner; only the owner acts; the trail and the badges tell the truth |
| Announcements (`modules/notifications`, `lib/push.ts`) | notification rows with `pushPending` | fan-out of a post, push retry job | posts, queue | job retried, twice at once, crash between row and queue | one email a member; a pending push is queued or dropped |
| Push delivery (`notifications.service.ts` `sendPush`, `modules/push`, `lib/push-token.ts`) | push jobs, device tokens | sendPush and its retries; register, remove, clean up | logins, logouts | tokens read before Firebase is asked; partly failed sends | no resend without cause; no working token lost |
| Registration (`modules/mobile-auth`, `modules/auth` register, `lib/free-community.ts`) | pending records in Redis, user rows, linked logins, free subscription rows | register, confirm, resend; Google / Apple; the website's registration; logins; admins add, edit, import, suspend and revive | administration, push tokens | read-modify-write of a Redis record; a code queued after its record is set; several registrations of one phone; updates by id | the first confirmation keeps the account and gets all it promised; the record accepts the code stored last |
| Administrators (`modules/auth`, `lib/refresh-tokens.ts`, `deleteAdmin`) | refresh tokens in Redis, admin rows | delete an admin; log in and out; reset a password | | two deletions at once; ending sessions by walking through all keys | one super admin remains; a reset ends older sessions |
| Posts (`modules/posts`) | rows, three pin slots per community | pin, unpin, delete; write, edit, publish | announcements | slots moved row by row by what was read, under an index checked at every update | the pinned posts are a list without gaps until calls cross, a call that meets no other is never refused |
| Comments and reactions (`modules/comments`, `modules/reactions`) | reaction rows and counts on the post; comment tree with paths; notices that wait for an admin | react, comment, delete, mark as replied | posts, admins | counts read and overwritten; parent or replies read before the write | counts heal; no reply lost or left alone |
| Live chat socket (`lib/live-tickets-feed.ts`; `store/tickets/ticketSocketStore.ts`, `lib/api.ts` and the ticket page of the front end) | the tab's socket, its pending requests, timers and session; per socket a queue of frames and a chain of pushes | request, retry, refresh, reconnect, re-sync; verify, answer, push, heartbeat | tickets, Redis | two ends that lose each other at any moment; expired tokens; several continuations of one refresh | a message is sent once; an open thread misses nothing; the tab recovers |
| Live prices (`lib/live-stock-feed.ts`, `sockets/angelone`; `store/liveStockPrices` of the front end) | followed stocks, asked-for tokens, the link, the market status, browsers | log in, open, close, refresh, subscribe, tick, watch; join and leave | recommendations, AngelOne | a refresh that replaces the set while others add to it; a link that is not open when asked | what is followed is asked for; the status told is the one announced |
| Invoice and receipt numbers | yearly series | take the next number | payments | a gapless series under rollback | no gap, no number twice |
| Tax, plan and performance arithmetic | none | pure functions | | rounding | agrees with a reference definition |

`PROJECT.json` lists every component with its status, the ones without model too (mail and PDF
rendering, media, dashboards, stock data, most of the web front end: I/O, rendering or
reads), and under `hazards` every place found hard to test, at its line.

## 2. The modules

| Module | Models | Composed with |
|---|---|---|
| `ServicePayments` | one paid service request with everything that moves its money | implements `PaymentPromise` |
| `PaymentPromise` | the abstract promise about money | instantiated by `ServicePayments` |
| `Subscriptions` | one member's rows in one community: purchases, admin requests, the two daily jobs | |
| `SupportTickets` | one ticket, its chat, owner, trail, badges and notices | |
| `Announcements` | a post on its way: rows, emails, push jobs, retry job | `PushDelivery` takes over where `asked` ends |
| `PushDelivery` | push jobs on their way to phones | |
| `PinnedPosts` | the pin slots of one community under concurrent calls | implements `PinBoard` |
| `PinBoard` | the ordered list of posts that pinning promises | instantiated by `PinnedPosts` |
| `PostTalk` | reactions and comments under one post | |
| `PostPage` | the page: `PinnedPosts` and `PostTalk` side by side | composes the two |
| `Registration` | how a phone number becomes an account | |
| `AdminAccounts` | removing administrators, and ending their sessions | |
| `ChatSocket` | an admin's tab and the server on both ends of the chat socket | tab, session, connection and server in one module; the ticket's own rules are `SupportTickets` |
| `Sessions` | what lives and ends with a login: `AdminAccounts`, `PushDelivery`, `ChatSocket` side by side | composes the three |
| `StockFeed` | the AngelOne link, the followed stocks, the market status, browsers | |
| `*Proofs` | theorems about the module they are named for and those it composes: `PostPageProofs` has pins and talk, `SessionsProofs` administrators, push delivery and the chat | |
| `MC*` | model values, small sets, symmetry and views for TLC | |

The rule everywhere: **an action is one committed database step** (a transaction that locks
before it reads, or a single statement), one call of an external service, or one read whose
result is used later. A handler of several such steps is a record with a program counter
(`tapAt`, `task`, `call`, `fan`, `worker`, ...), and any other process may move, or the
handler's own process die, between two of them.

**ServicePayments.** `SendQuote`, `Claim`, `Reassign`, `CloseRead` / `CloseCompleted` /
`CloseDeclined` / `CloseRefused`, `ResolveReview` and `Cancel` are the desk; `PayTapped`,
`HandOver`, `ReuseUnpaid`, `CreateAtGateway`, `InsertOrder`, `ShareWinner` the steps of
createOrder; `Deliver`, `ProcessCaptured`, `ProcessFailed`, `MarkProcessed`, `HookFails` those of
the webhook; `Settle` the one transaction `verify` and the webhook share, with its branches
(`SettleAgain`, `SettleFlagged`, `SettleApplied`, `SettleUnknown`); `SweepStart`, `SweepExpire`,
`SweepDies` the sweep, which works through a list it read once. `Capture`, `AttemptFails` and
`LateCapture` are what Razorpay can do with an order the app was handed. Amounts are reduced to
"the order's or not".

**Subscriptions.** Dates are day numbers, a plan lasts `Duration` days. `SettleBegin` /
`SettleCommit` are the two halves of settlePlanOrder (what it read, what it writes);
`ExtendRetire` / `ExtendCommit` hold the advisory lock of extendSubscription between
them; `CreateRow`, `ReviveFirst`, `Overwrite`, `Revoke`, `Suspend`, `Reinstate` and
`DeleteMember` are the other admin requests; `ListLapsed`, `ListExpiring`, `TellNext`,
`MailMember`, `CloseLapsed`, `RowFails`, `CronDies` the two jobs on each cron process. Row locks
are kept: a transaction that has updated a row holds back other writers of that row. Nothing else
is: purchases, grants, imports and the jobs overlap in every way the database lets them. Two history
variables say what the properties are about: `extended`, the rows that extensions wrote, and
`uncrossed`, the open settlements that read at most one active row and since whose read no row of the
pair was written.

**SupportTickets.** Each handler is a Read (load, check), a Write (its transaction, whose
first statement is a conditional update) and, where the code reports afterwards, a Tell.
`CallEnds` is a transaction that matched no row, lost to a unique key, or a process that
died: all leave nothing. `unseen` is a history variable, what came in for a side since its
badge was cleared.

**Announcements.** `FanStart` reads the recipients (any of `Audiences`), `FanCreates` inserts
the rows of one slice and learns which are new, `FanMails` and `FanQueues` / `FanClears` run side
by side as in `Promise.all`, `FanDies` ends a run anywhere; `RetryDrops`, `RetryReads`,
`RetryQueues`, `RetryClears`, `RetryDies` are the retry job. A slice stands for the 500-member
chunk: it is any non-empty part of the rest, so every chunk size is covered. `age` is the two
limits of the retry job (a minute, a day). A job that was queued although its answer
was lost behaves as one whose flag could not be cleared.

**PushDelivery.** `Take` (or `ReadFails`), `SendBatch` per slice with any outcome for
each push, `ClearTokens`, `Narrow`, `FailToRetry`; `BreaksOff` is a statement that throws,
`WorkerDies` a lost process, after which BullMQ hands the job out again `MaxStalls` times.
`phone[u]` is the token sendPush would use: `SaveToken` and `DropToken` stand for
everything that changes it (registration, login, logout, muting, suspension, the 90-day
clean-up). `got` and `broke` are history. Push is assumed configured (`isPushConfigured`); without
it a job is done at once.

**PinnedPosts.** `ReadPost` is the read before the transaction, from which pin or unpin is decided;
`ListPinned` the transaction up to its list of pinned rows (an unpinning or deleting transaction
has updated, and locked, its own row by then); `Commit` its updates in the order of the code, each of
which the partial unique index must accept; `Fails` a refusal, a deadlock or a lost connection.
`raced` and `met` are history: whether calls have crossed, in one of the ways `Crosses` lists. `Board` maps the slots to a list,
and `KeepsTheBoard` says that every step pins, unpins or changes nothing of it.

**PostTalk.** `ReactCounts` / `ReactCommits` are the two halves of a reaction's transaction: the rows
it counted, the counts it overwrites. `CommentReads` / `CommentWrites`, `DeleteReads` /
`DeleteCounts` / `DeleteDrops` and `MarkReads` / `MarkWrites` are the handlers' statements; `MarkAll` is one
statement. A comment's path is the set of those above it, which is what the prefix query asks.

**Registration.** A pending record is what Redis holds under a token; `VerifyReads`, `VerifyWrong`,
`VerifyDrops`, `ResendReads` and `Expires` are its single gets, sets and deletions. `Store`, in `Register`
and `ResendStores`, sets the record; `Sends` queues the code (and sets the cooldown) a step later, and
`Dies` in between is a queue that refuses as much as a lost process. `Claims` is the transaction of
finalizeRegistration. `WebReads` / `WebWrites` are the website's registration, `FindsNoFree` / `GrantsFree`
ensureFreeSubscription outside a transaction (a login, an import of a known member), `Links` a linked login.
The admins' writers of the same rows are `AdminAdds` (addMember, an import of a new phone),
`AdminEdits` (updateMember), `ImportReads` / `ImportWrites` (the overwriting import, which looks at the
password long before it writes), `ReviveReads` / `Revives` (reviveMember), `Suspends` and `Reinstates`. Codes are
numbers in the order they were stored. History: `muddled`, tokens whose last code was stored in the middle
of another call for them; `unsent`, those with a call that broke off before it queued its code; `edited`,
accounts whose email an admin or an import wrote since they were made.

**AdminAccounts.** `DeleteReads` / `DeleteCounts` / `DeleteCommits` are deleteAdmin with its advisory
lock; `LoginCompares` / `LoginStores`, `Logout`, `ResetReads` / `ResetWrites` / `SweepPage` / `SweepEnds` the
sessions. `SweepPage` takes any part of the keys, as SCAN may; the walk ends when every key that
was there throughout has been returned, which is what Redis guarantees.

**ChatSocket.** The tab's store keeps one reference `ws` to a socket; a socket is a slot with an end in
the tab (`tab`), an end at the server (`srv`) and FIFO channels between them (`inbox`, `pushes`,
`wire`). `Press`, `RetryHistory` and the re-sync in `Opens` are the callers of `request`; `Ask`,
`TimesOut`, `Closes`, `ReceiveAck` and `RefreshDone` its course: waiting for a socket, sent,
waiting for the refresh, sent again. `Closes` is onclose with everything it runs
synchronously; `RefreshDone` is what follows the shared refresh, in the order the waiters came
(`reconnect` says whether onclose's continuation stands before or after the requests').
`Handle` is one turn of a socket's frame queue, `Publish` and `Push` the way of an event through Redis
to a socket's push chain, `Heartbeat` the reaping of expired and dead sockets. Liberties:
a lost connection is noticed by the tab at once and by the server at a heartbeat;
of the sockets that several continuations open and close at once only the last is kept; an answer may
overtake the publication it awaits in the code; the flood guard of 30 frames is left out, and a
token never expires before another one that was issued earlier. A refusal of the service is one of
the outcomes of a send, whatever its reason.

**Sessions** puts the refresh tokens of the admins, the phones that pushes go to and the socket of an
admin's tab side by side; a step is a step of one of them. They change no variable together, so the
composition is there to check the three on one instance, and every property of one of them holds of it.

**StockFeed.** `LogsIn`, `LoginFails`, `LinkOpens`, `LinkCloses`, `StartsAgain` are the client's cycle;
`RefreshReads` / `RefreshFills` the two halves of refreshTrackedStocks with the subscription after
them, of which attach and each login start one; `Recommend` a committed recommendation, whose
ensureSubscribed ends in `EnsureDone` or `EnsureFails`; `Tick`, `GoesSilent`, `Watchdog` the market
status; `Joins` and `Leaves` a browser. `Restarts` is a lost process, or one ended by the
rejected query of a refresh.

## 3. The runs

| Run | Module | Instance | Shows |
|---|---|---|---|
| `payment_races` | ServicePayments | 2 quotes, 2 orders, 2 payments of any amount, 2 taps, 1 webhook handler | one payment pays and is invoiced; one unpaid order per quote; every capture is accounted for; status and quotes agree; the sweep leaves payers alone; the handlers implement `PaymentPromise` |
| `second_capture` | ServicePayments | 1 quote, 2 payments on one order | a second capture is neither applied nor flagged (a counterexample, see below) |
| `payment_progress` | ServicePayments | 1 quote, 1 order, 1 payment, fair | every capture is decided; a lapsed quote leaves |
| `renewals` | Subscriptions | 3 rows, 2 orders, 2 payments, 2 admins, 1 day step, everything overlapping | one row per paid order; of two extensions the later wins; a renewal that nothing crossed loses no days |
| `daily_jobs` | Subscriptions | 2 rows, 1 order, 2 cron processes, 1 day step, fair | no notice mailed twice; nobody closed untold; a capture is granted; a lapsed row closes |
| `ticket_chat` | SupportTickets | an ordinary and a super admin, 3 messages, 2 calls at once, trail of 3 | only the owner acts; trail, badges and notices are true |
| `post_fanout` | Announcements | 2 members, 2 fan-outs, 1 retry job, fair | one email; flags honest; no push pending for ever |
| `posts_page` | PostPage | 4 posts, 3 slots, 2 calls; 2 members, 1 admin, 3 comments, 2 talkers | no needless refusal; the board kept, without gaps, until calls cross; counts heal; no orphan and no lost reply but by a race |
| `registration` | Registration | 2 phones, 1 email they compete for, 1 login, 2 tokens, 2 calls, 2 codes, 1 try, 2 acts of logins, admins, imports and the website | the first claim stays and is whole; the record accepts the last code |
| `sessions` | Sessions | 2 super admins, 2 calls, 2 resets, a clock of 2 seconds; 1 push job of 3 attempts and 1 stall, 2 members, 2 tokens; an open thread, 2 messages of the member and pages of 1, of an expiry, a lost connection, an event lost in Redis and a press of retry any 3, timers | a super admin remains; no session older than a finished reset; resends only for attempts that broke off; working tokens kept; the thread catches up |
| `chat_live` | ChatSocket | with a thread open and without: 2 messages, 2 presses, a message of the member, 1 expiry, 2 failed refreshes, 1 lost connection, timers, fair | an answered message is stored once, in order; the tab gets its socket back |
| `stock_feed` | StockFeed | 2 stocks, 1 browser, 2 refreshes at once, faults, fair | a recommended stock is followed and asked for in the end; the browser follows the announcements; the close is told |

`second_capture` ends in a counterexample, against a sentence of the repository (quoted in `PROJECT.json`
under `findings`): with `ExtraCapture = TRUE`, the gateway captures a second payment on an
order already paid; settle takes it for a repeated delivery, and it is neither applied nor flagged.

### Bounds, and why they are enough

The hazards of service payments are pairs: two captures, two taps, a payment and a replacement
of its quote. Two orders and two payments give every pair; two quotes are needed only where one
replaces the other, so a CONSTRAINT keeps behaviours with a second quote to one tap, no webhook and
payments of the order's amount, while those with one quote have everything (`MCBound` in
`MCServicePayments`). A third
subscription row lets two writers each retire one row and create another; `renewals` has no
cron, whose closing of a row is to its properties what `Revoke` is (and the theorems have any number of crons). Two cron processes are
what a deployment runs. Tickets need two admins of different standing (a third has the
rights of one of them), two calls at once for every pair of handlers, and a trail long enough for
an assignment, a reassignment and the end. One fan-out run retried or repeated meets at most
the one before it. Push jobs meet only through phones, which the members' steps already change
in every way, so one job is enough.

Four posts are the three slots and the one that falls off. Three comments are a thread with a
reply to a reply. Two members make two reactions cross; what a third would add is one more of the
same. Two registrations meet each other, and a third meets them as the second does. Two super admins
can remove each other; two seconds and two resets, of one admin or of each, give a token that is stored
again after a walk, and two walks side by side. `MCSessions` explores its three parts one at a
time (`MCSpec`), which loses nothing: they share no variable. In `registration` two codes are one for each of
two registrations or two of one, and `MaxBeside` bounds what the others begin at two acts: a suspension
and the revival after it, an import beside an edit, two grants of the free community. The calls that such an act
begins end uncounted. The theorems have no such bounds.

Three socket slots are the one the store holds, the one it replaced, and one on its way; two
history requests are one under way and the re-sync that meets it. Two messages of
the member, with pages of one, are a page that loads all there is and a gap it does not close; the newer of them
makes the push, the history and the reconnect meet in every order. `MaxEvents` counts presses,
messages of the member, expiries, lost connections and failed refreshes together: three of them in
`sessions`; in `chat_live` two with a thread open (`Pages` has both cases) and four without, where a failed
send, its retry and a reconnect must all find room. `PageSize` is the history's page of 30.
In `sessions` a history is asked for at most three times (`ThreeAsked`): the first page, and what a reconnect and a
press of retry ask for. Two refreshes of the
followed stocks are attach's and a login's; two stocks are one that is read and one that
is added; browsers meet only through the announcements, so one is enough. Deadlock checking is off in
these runs (messages and faults used up). Everything else is a proof's business (section 5).

Symmetry is declared on interchangeable ids (orders, payments, taps, handlers, rows, admins of
one standing, cron processes, calls), and only in runs without liveness properties.
`MCPostPage` explores pins, reactions and comments one at a time (a CONSTRAINT): they change no
variable together, so any mixed behaviour is a shuffle of three separate ones and no
invariant relates them. It also lets only one of the two members write comments, gives comments
their ids in one order, and identifies states that differ only in the names of posts, calls or talkers
by a VIEW, which is what symmetry would do.
Deadlock checking is off in the subscription runs (the bounded clock and id sets run out), the
ticket run (a resolved and rated ticket with all calls idle and all messages used has nothing
left to do), and the page, registration and sessions
runs (all posts deleted; codes, jobs, resets and seconds used up).

### Fairness

- `ServicePayments`: Razorpay redelivers an event until it is answered with 2xx (strong
  fairness of `Deliver`), a handling that is tried again and again succeeds in the end
  (strong fairness of the processing steps), the sweep runs every 15 minutes, and the payment window
  of a tapped quote passes. Nothing is assumed of members, admins or `verify`.
- `Subscriptions`: redelivery likewise; days pass; one of the cron processes is always started again
  and goes on with what it has (`LastingCron`), while the other may die for good at any step; nothing is
  assumed of admins. The safety properties of the same run need no fairness.
- `Announcements`: the retry job runs every two minutes (`cron.ts:116`), so it starts again after
  every crash, and rows grow old. Nothing is assumed of the fan-out: it may die for good.
- `ChatSocket`: timers run out, frames and events that were sent arrive or their connection is gone, the
  server works off its queues, an attempt to connect and the refresh's fetch end. Nothing is assumed
  of the admin, the member, other REST requests, expiry or loss; `TabHeals` speaks of tabs whose
  cookie is good in the end.
- `StockFeed`: queries and logins end (in success or failure), timers run out, a browser's store
  connects again. `FollowedAgain` speaks of links whose logins succeed again and again: a link that stays
  up for good, with a stock dropped by a crossing refresh, is not covered. Ticks and admins owe nothing.

## 4. What the properties are about

Each module has one `TypeOK`, which is proved. The other properties relate several rows or several moments, and
are commented with the code they are about. Every property of every passing run has a
mutant in `PROJECT.json`: a plausible fault of the code (a dropped guard, a missing lock, a list
not narrowed, ...), written beside the operator it changes, under which TLC finds that property
violated.

## 5. The proofs

All theorems hold for any values of the constants that meet the module's named assumptions; what a theorem
assumes besides is in its row.

| Theorem | Says | Argument |
|---|---|---|
| `ServicePaymentsProofs!TypeCorrect`, `QuoteCorrect` | types; `QuoteMatchesStatus` | `Shape`: types and which handler position implies which row; a quote is only activated together with the status, and superseded in the same transaction |
| `PaidOnce`, `ReasonIsTrue` | `PaidExactlyOnce`, `ReasonMatchesMoney` | `Inv == Shape /\ QuoteMatchesStatus /\ Billed /\ Ledger`: the ledger ties settled, paid rows, paid quote, order and invoice together; needed because "one payment settles" alone is not inductive: the guard of settle speaks of the order's status |
| `PromiseKept` | `ServicePayments` implements `PaymentPromise` | initial states map to initial states; every action is a step of the promise or a stutter under the mapping, by cases on `Next` and with `Inv` |
| `OnePaymentPays` | what the promise buys: one payment pays, none is both applied and held (`Promise!PaidForOnce`) | inductive over the steps of the promise alone, and carried over by `PromiseKept` |
| `OneOrder` | `OneOrderToPay` | `OrdersApart` says what the taps, the winner's row and the gateway's orders hold of each other at each step of `pay` |
| `MoneyIsAccounted` | `MoneyAccounted`, assuming `~ExtraCapture` | `Accounted` adds what a payment recorded for a paid order must be; the assumption is what the `ServicePayments_extra` run refutes the property without |
| `ExpiryWaits` | `ExpiryLeavesPayers` | directly inductive over `Shape`: the sweep's update repeats the condition its list was made by |
| `SubscriptionsProofs!TypeCorrect` | types | inductive |
| `PaidGrantsOnce` | `PaidOrderGrantsOnce` | `GrantInv` adds `GrantsAreClaims`: an open settlement holds the claim of its order |
| `LaterWins` | `LaterExtensionWins`, for any number of admins and whatever else is written meanwhile | `ExtendInv` adds `OneRetires` (one extension at a time is past its first update) and `RetiresAll` (it holds every active row that an extension wrote) |
| `DaysAreKept` | `RenewalKeepsDays` | `DaysInv` adds `BaseKept`: a settlement that nothing crossed counts from a day no earlier than the last day of any row that still runs; the rest is arithmetic on days |
| `TellsBeforeClosing` | `ToldBeforeClosed`, for any number of crons | `ToldInv` adds `Keeps`: a job that has moved on to closing has written the notice, or found it written |
| `MailsOnce` | `MailedOnce`, for any number of crons | `MailInv` adds: what a cron is about to mail it told itself and nobody mailed, and what is mailed was told |
| `SupportTicketsProofs!OpenTicketIsUnowned`, `OwnerActs`, `ResolvedStays` | ownership | `CallShape` (what a call in progress has read) and `SawOwner`; the two action properties follow per action |
| `TrailIsTrue` | `HistoryTellsOwner` | over sequences: appending an event keeps the last assignment or replaces it |
| `BadgesAreRight` | `BadgesCount` | badge = cardinality of `unseen`; unseen messages are stored, so an inserted one is new |
| `NoticesTellTruth` | `NoticesAreTrue` | a call at Tell has committed |
| `AnnouncementsProofs!MailsOnce` | `MailedOnce` for any number of runs | rows of one run's unsent mails are nobody else's, and a row that does not exist was never mailed |
| `FlagStaysHonest` | `FlagIsHonest` | a run about to clear a flag has queued a job for those members |
| `SessionsProofs!PushTypeCorrect`, `ResendsAreBroken` | types; `ResentOnlyIfBroken` for any number of jobs, workers, attempts | a member still on a worker's list, or in a waiting job, has had at most one push per broken attempt; a job being worked on has one worker |
| `WorkingTokensKept` | `WorkingTokenStays` | a token on a worker's list to clear is one Firebase has given up |
| `PostPageProofs!TypeCorrect`, `SlotsStayDistinct` | types; `SlotsDistinct` | directly inductive: a commit is accepted only with distinct slots, and deleting only takes posts away |
| `AloneIsAccepted` | `NeverRefused`, for any number of slots, posts and calls | `AloneInv` adds `AllUndisturbed`: while nobody commits in the middle of a call, what it listed is what the rows still hold; the rest is arithmetic on slots, row by row |
| `BoardIsKept` | `PinnedPosts` implements `PinBoard` (`KeepsTheBoard`), for any number of slots, posts and calls | `BoardInv`: until calls cross there is a number of posts that fill exactly the first slots, and every call that was not crossed is `Sound`: its list is what it would list now, or it comes too late and the index will refuse it (`Blocked`), or it unpins a post that is the last or has fallen off. So an accepted commit is a pin, a leave or nothing to the readers (`CommitSteps`), and each of these is a step of the list. `NeverRefused` alone says nothing of calls that were overtaken |
| `TalkTypeCorrect`, `CountsAreHealed` | types; `CountsHeal`, for any finite set of members | `CountsInv` adds `Fresh`: what a reaction nobody overtook has counted is still what the rows hold; removing or adding one row changes one count by one |
| `ThreadsStayWhole`, `RepliesAreKept` | `ThreadsWhole`, `RepliesKept` | `ThreadsInv` proves them together with `Tree`: paths are the paths of the parents and one more, and a parent is older than its replies |
| `PageKept` | `PageSpec => Spec /\ TalkSpec`: what is proved of pins and of talk holds on the page | each step of the page is a step of one and leaves the other alone |
| `RegistrationProofs!TypeCorrect`, `ClaimsAreWhole`, `FirstClaimWins` | types; `ClaimIsWhole`; `FirstClaimStays` | `AccountInv == Shape /\ Unowned /\ RowsAsRead /\ ClaimIsWhole`: what an unclaimed row can hold, and what a request that has read a row may still count on: a row never goes, a password never goes, and a row found without the free community was there before any registration of it. Imports, edits and revivals are among the steps; what they may spoil, the email, is what `edited` records |
| `LastCodeCounts` | `CodeIsCurrent` | `CodeInv` adds `HeldCurrent` (a copy held by a wrong answer, and a code still to be queued, are of the last code, unless the token is muddled) and `SentCurrent` (the last code was queued, is about to be, or its call broke off) |
| `SessionsProofs!AdminTypeCorrect`, `SuperAdminStays` | types; `SuperAdminRemains`, for any number of admins and requests | `LockInv` adds: one deletion of a super admin at most is between its count and its commit, and what it counted still holds |
| `OlderSessionsEnd` | `NoOlderSession`, for any pages, logins and walks side by side | `WalkInv` adds `Walking`: a walk has yet to come to every key of its admin that is older than its password |
| `ChatTypeCorrect` | types of the chat, its channels and requests | the proof's invariants hold most of them; the numbers of the requests need that a set of numbers up to n has a largest one (`Largest`) |
| `MessagesStoredOnce` | `SentOnce`, for any number of sockets, requests, expiries, lost connections and slow acks | `Core /\ InTicket`: a frame or an ack under way is no newer than its request, and speaks of the message that is pending if it is as new; all answered messages are in the ticket in their order, and beyond them at most the next one, whose ack is still missing. Without the clientMessageId's check in the guard the retry of that one would be stored again |
| `ThreadIsWhole` | `ThreadCatchesUp`, for any page, timers, expiries and losses | `Caught`: of what came after the page's first history, every message of the newest page is `Due`: shown, lost in Redis, unpublished, in the push chain or on the wire of the tab's live socket, or in a history request that is still to be answered; or there is no live socket and the next one to open loads the page again; or the page says that it could not load, and nothing under way will clear that (`Alone`); or history requests crossed (`crossed`). `Ends` ties the two ends of a socket and the refresh together, `Threadless` says that a closed thread asks for nothing |
| `PartsKept` | `SessionsSpec` is `AdminsSpec`, `PushSpec` and the chat's next-state relation side by side | each step is one of them and leaves the others alone |
| `StockFeedProofs!TypeCorrect`, `BrowsersAreTold`, `NobodyOpenAfterClose` | types; `BrowsersFollow`; no browser believes in an open market after a close was announced | `ToldInv`: ticks mean an announced market; a browser that came early was told "closed" in one |
| `WhatIsFollowedIsAsked`, `FollowedStays` | a followed stock is asked for on every open link; a recommended stock, once held, stays followed until it is withdrawn or the process restarts | directly inductive; `Held` includes that no refresh under way has read the rows without it |

Only model-checked: liveness (`EveryPaymentDecided`, `LapsedQuoteLeaves`, `CaptureIsGranted`,
`LapsedRowCloses`, `PendingEnds`, `TabHeals`, `FollowedAgain`, `ClosedIsTold`),
which is beyond the prover: they need fairness and ENABLED. Their safe halves are proved where there is one
(`ReasonIsTrue`, `PaidGrantsOnce`, `FollowedStays`, `NobodyOpenAfterClose`). Every invariant and every other action property of a
passing run is the statement of a theorem.

## 6. What was met along the way

Besides the counterexample above, reading and modelling showed the following. No run is kept for them.

- `payments.service.ts:204`: settlePlanOrder retires the one row it read, without the lock of
  extendSubscription. A purchase that has read it waits while an extension retires that row and writes
  another, then retires the old row once more and writes its own: two active rows, against
  `docs/member-subscription-test-cases.md:71` (B18). `LaterExtensionWins` states what the lock does achieve.
- `admin.service.ts:264-265`, `428-429`: the imports look at the password, work through the sheet, and then
  write name and email by id; an account confirmed in between keeps the sheet's email, although the
  comment at 258 says user info is only updated "if not yet registered". updateMember and reviveMember
  (1861) write it for registered members as well, and mean to. `edited` in `ClaimIsWhole` is exactly these.
- `payments.service.ts:266`: the receipt is issued once, after the commit; if that fails nothing ever
  issues it, against `docs/mobile-payment-receipts.md:23`.
- `reactions.service.ts:260` says the counts can never drift. Two reactions that count before
  either commits leave the later one's count without the other, until the next one: `CountsHeal`
  states what holds.
- `posts.service.ts:713` says pinned slots always stay contiguous. An unpinning, or a deletion, that
  commits in the middle of another leaves a gap: `KeepsTheBoard` names the crossings.
- A pin that others overtake is refused by the index, which is why pins of different posts are harmless; but not
  always. If so many posts are pinned between its list and its commit (`posts.service.ts:726`) that those it
  listed fall off and come back in another order, its updates are accepted and write the old order. It takes a
  pinning of a listed post, which `Crosses` names; the proof of `BoardIsKept` showed it (two slots,
  five posts, four pins in the middle of a fifth), no run of three slots and four posts reaches it.
- A reply whose parent an admin deletes while it is written stays live below it, and no list shows
  it (`comments.service.ts:48`); a member's comment can be deleted together with a reply that came
  after the count (`comments.service.ts:257`).
- `auth.service.ts:139`: the website's registration updates the row by its id after hashing, so it
  takes over an account that the app claimed in between; the app's own claim is conditional.
- `mobile-auth.service.ts:394`: a wrong answer writes back the record it read; a code sent meanwhile is
  replaced by the one before, and a record already consumed comes back (the claim's own condition
  makes that harmless, which `FirstClaimStays` shows).
- `mobile-auth.service.ts:855-867`: the record is set, then the code is queued. If the queue refuses, the
  record accepts a code that nobody has and the one sent before is dead (`unsent` in `CodeIsCurrent`);
  two resends at once may queue in the opposite order of their sets, so that the code which arrives last is refused
  (`muddled`).
- `lib/free-community.ts:26` looks for a row and then creates one, without a lock or a unique key, though the comment at 8
  says "Idempotent": two logins of an older account, or a login or an import (`admin.service.ts:306`, `475`)
  beside the claim's own, give it two free rows. `ClaimIsWhole` promises one only where the phone was new.
- A login that compared the password before a reset and stores its token after the walk keeps its
  session: `NoOlderSession` speaks of when a session was stored.

- `admin.service.ts:1425` adds a row for a re-added suspended member without looking for the one
  they still hold (suspension leaves rows active): two active
  rows.
- `lib/subscription-lifecycle.ts:185` closes by id a row listed earlier; an import that moved its
  last day in between (`admin.service.ts:260`) loses it, although lines 113-114 say the job only acts
  after the last day.
- `payments.service.ts:204`: two purchases of one member settled at the same moment count from the
  same old row, and one plan's days are lost (`docs/mobile-community-payment-integration.md:355`
  promises otherwise). `uncrossed` in `RenewalKeepsDays` leaves exactly such settlements out.
- `sendPush` (lines 408-413) says a retry never re-sends to someone who already got the push. That
  holds when the attempt came to its end; when a later batch throws, or the worker dies, the job
  starts over with everyone. `ResentOnlyIfBroken` states what does hold.
- A fan-out that dies after creating rows and before mailing loses those emails: the retry finds
  the rows there (`notifications.service.ts:204-231`). The push is not lost.
- `admin-services.service.ts:464-493`: a payment committing between close's two updates makes both miss,
  and a super admin is told somebody else has the request.
- `admin-services.service.ts:638-650`: resolveReview clears the review flag by id, a flag raised meanwhile
  with it.
- `admin-tickets.service.ts:232` takes the previous assignee of a reassignment from a read made before
  the transaction; line 399 clears the admins' badge by id although lines 390-393 speak of the
  assignee only; lines 328-338 and 375-386 write notices after the commit, so a crash loses them.
- `ticketSocketStore.ts:44` (front end) says one shared socket per tab. A request answered AUTH_EXPIRED
  starts the session refresh before the close (4401) that follows it, so after the refresh the request
  opens a socket and the close's continuation (line 199) opens another over it, and both stay until
  the first one's token expires. Of the two the first to open rejects the retried request
  (line 120), because the store looks at the second, although line 84 promises a retry. Dropping the
  reconnect timer in `openSocket`, as `reauthenticate` drops it, would mend both.
- The ticket page's re-sync (`page.tsx:104`) loads one page of 30: if more came while the connection was
  down, the older of them are in no page the thread loads. `ThreadCatchesUp` therefore speaks of the newest
  page; without that it fails with two messages of the member and pages of one.
- When two history requests of the ticket page are under way and the newer one is given up, the older one's
  answer clears the newer one's error: a message that only the newer would have brought is missing and nothing says
  so. `ThreadCatchesUp` leaves out every history request given up beside another (`crossed`); without that it fails.
- `live-stock-feed.ts:135`: a refresh that read before a recommendation was committed drops the stock that
  ensureSubscribed added, although line 112 says its price starts at once: `FollowedAgain` states
  that it comes back with a later login.
- `ticketSocketStore.ts:202` (front end) reconnects after an ordinary close without refreshing: with a token
  that expired meanwhile every attempt is refused until some REST call renews the cookie.
- `TicketChat.tsx:253` (front end): a text edited after a failed send goes out under the same
  clientMessageId; had the first frame been stored, the edit is answered with the old text and lost.
- `market-status.ts:112`: a browser that joins after three silent minutes and before the watchdog is told
  "closed"; if a tick comes first nothing is announced and it keeps believing so (`early` in `BrowsersFollow`).
- `live-stock-feed.ts:87`: a failing query of a refresh is an unhandled rejection, which ends the process.
- `admin.service.ts:273-285`: the sheet import revives a member in one transaction and adds the row in
  another.

## 7. Not modelled

- Service payments: request chat, unread counters, rating, intake; invoice numbers and PDFs.
- Subscriptions: the plan's amount (a capture is assumed to be of the order's amount), plan and
  community administration.
- Tickets: attachments and lists; admins deleted while they own a ticket.
- Announcements: publication of the post itself; the retention clean-up of old rows, which no
  run of the two jobs can outlast.
- Posts: writing, editing, media and publication; pins of different communities, which share
  nothing. The notice of a reaction.
- Registration: the sessions of members, the reset of a member's password, profile and KYC; an admin's change
  of a phone number; the bookkeeping row of an added phone; an admin or an import that names the free community
  itself (`free` counts the rows that ensureFreeSubscription makes).
- Administrators: the code of the reset, which works as the registration's; access tokens, which
  outlive a session by minutes.
- Steps that only read, formatting, logging, rate limits.
- Chat socket: a member's mobile session (looked up at each frame and push, where the admin's token is
  compared with the clock), frames of service requests, read receipts, the flood guard; the live
  notices, which are the pushes alone.
- Live prices: the prices, their throttled writes to `stocks.cmp`, the day's flag in Redis.
- The rest of the web front end, performance reports, stock imports, welcome kits, mail and PDF rendering:
  user interface, arithmetic over uploads, and I/O that no other component waits for. They are the
  larger part of the repository's lines.

## 8. Plan

Done: `ServicePayments` with `PaymentPromise`, `Subscriptions`, `SupportTickets`, `Announcements` and
`PushDelivery`, `PinnedPosts` with `PinBoard`, `PostTalk`, `Registration`, `AdminAccounts`, `ChatSocket`,
`StockFeed`, and the compositions `PostPage` and `Sessions`. What is left, in
this order:

1. The service desk's chat, badges, rating and intake, beside the quoting already modelled
   (the properties of tickets, with the payment states in the guards).
2. Publication of posts, as the source of `Announcements`.
3. The gapless invoice series under rollback: no number twice, none left out.
4. GST, plan prices and performance figures as functions against reference definitions, over bounded
   inputs.

An abstract specification for `Subscriptions` (one member's access, day by day) is worth stating next, and
with it a theorem that the handlers implement it; so are what the safe halves of the liveness
properties have to say of `TabHeals` (which sockets a tab with a good cookie can be waiting for) and of
`PendingEnds`.
