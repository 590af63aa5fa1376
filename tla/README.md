# Verification of new-api: accounting, orders, tasks, channels and stateful pages

new-api is a gateway in front of many model providers. A client sends a request
with an API token; the gateway picks a channel (a provider account), converts
the request, relays it and charges the user. The program's own core is
*accounting under failure*: quota is taken before the provider's cost is known,
corrected afterwards, and returned when nothing was delivered, by code that runs
in many request goroutines, background loops and processes on shared tables.
Around it are the tables that feed it (payments, subscriptions, users, channels)
and a web front end, most of which is rendering, with a few pages that run a
protocol of their own against the gateway. This directory models that core and
those pages in TLA+, checks them with TLC on small instances and proves central
invariants and a refinement with TLAPS. Source paths below are relative to
`src/`; paths under `features/` are relative to `web/default/src/`.

## 1. Inventory

| Component | State | Operations | What is hard | What makes it correct | Module |
|---|---|---|---|---|---|
| Billing session (`service/billing_session.go`, `funding_source.go`, `billing.go`) | fields of `BillingSession`, funding source, pre-consume record | `NewBillingSession`, `preConsume`, `Reserve`, `Settle`, `Refund` | one of several statements fails, rollbacks fail, retries, repeated calls from deferred functions | exact charge on settlement, zero on refund, one source, no over-refund; each operation looks atomic | `BillingSession`, `RequestCharge`, `BillingRefinement` |
| Asynchronous tasks (`service/task_polling.go`, `task_billing.go`, `model/task.go`) | `tasks` rows, rows loaded by each loop | sweep, poll by channel, bulk failure, refund, settlement | loops of several processes on stale rows, crash between write and billing | the outcome is billed once and agrees with the status; every task ends | `TaskPolling` |
| Task submission and user fetch (`relay/relay_task.go`, `controller/relay.go`) | same rows | submit, `tryRealtimeFetch` | a user's GET races the loops | does not change what is billed | `TaskPolling` (partly) |
| Subscriptions (`model/subscription.go`) | `amount_used`, periods, pre-consume records, orders | pre-consume, refund, delta, reset, expire, cancel | read-modify-write of whole rows, reset between hold and refund | usage within the total and explained by the requests; a reset happens and stays | `SubscriptionQuota`; orders in `PaymentOrder` |
| Users and tokens (`model/user.go`, `user_cache.go`, `utils.go`, `common/redis.go`) | row, Redis hash, batch maps | increase, decrease, flush, fill, increment, whole-row updates | cache fill against change, lost batch, whole-row writes from stale reads | nothing booked is lost without a cause; the copy equals the row at rest | `UserStore` |
| Payments (`controller/topup*.go`, `model/topup.go`, subscription orders) | order status, map of reference-counted mutexes | notification, completion, failure, expiry, administrator's completion | repeated notifications on several nodes, mutexes that are deleted while used | one credit per order, status tells it, everybody is answered | `PaymentOrder` |
| Realtime sessions (`relay/websocket.go`, `relay/channel/openai/relay-openai.go`, `service/quota.go`) | usage of the turn and of the session | count, charge a response, settle | three threads on unsynchronised counters, quota running out | reported usage is paid, the settlement covers what was charged, the session ends | `RealtimeBilling` |
| Model lists of channels (`controller/channel_upstream_update.go`, `model/ability.go`, `model/channel_cache.go`, `features/channels/`) | channel row, abilities, in-memory cache | hourly task, detection, apply, apply all, channel form, cache rebuild | whole columns written from rows loaded long before, three stores updated one after another | ignored models stay ignored, changes are asked for, cache and abilities follow the row | `UpstreamModels` |
| Playground (`features/playground/`) | messages, event sources, shared refs, `localStorage` | send, stop, edit, regenerate, delete, stream events, reload | callbacks of several streams, handlers with the messages of the last render | an answer holds its own stream only, ends, and survives a reload | `Playground` |
| System settings forms (`features/system-settings/`, `lib/api.ts`) | form, baseline, query cache, requests in flight | type, save field by field, reset, refetch | typing during a refetch, refused or lost saves, shared in-flight reads | only typed fields are written; the form shows what is stored | `SettingsForm` |
| Relay retry and channel selection (`controller/relay.go`, `service/channel_select.go`, `channel.go`) | retry index, channel status | select, retry, disable | stale cache, concurrent disabling | bounded retries | not modelled |
| Redemption, check-in (`model/redemption.go`, `checkin.go`) | code status, day | redeem, check in | concurrent requests | one credit per code and day | not modelled |
| Archive (`service/archive/`) | queue, spool directory | enqueue, spool, write, recover | full queue, crash | nothing spooled is lost | not modelled |
| Stream scanner (`relay/helper/stream_scanner.go`) | goroutines, stop channel | scan, ping, time out, stop | goroutines waiting for each other | everyone ends | not modelled |
| Rate limits (`middleware/*rate-limit*`, `common/rate-limit.go`) | windows in memory or Redis | admit | check and record are two steps | at most the limit in a window | not modelled |
| Midjourney (`controller/midjourney.go`) | `midjourneys` rows | poll, refund | like tasks | as tasks | not modelled |
| Pricing, adaptors, authentication, other pages | none shared | | floating point, formats, layout | | not modelled, section 8 |

How they interact: `controller.Relay` (70-260) and `controller.RelayTask`
(523-647) build a session through `service.PreConsumeBilling`, keep it in the
request's `RelayInfo`, call the provider in a retry loop and end with
`SettleBilling` or, in a deferred function, `Refund`. The session sends
statements to the user, token and subscription tables; behind those statements
are the batch updater and the cache (`UserStore`) and the transactions on
subscription rows (`SubscriptionQuota`). `RelayTask` additionally inserts a task
row, from which the polling loop of every master node continues: it has no
session, only the row, so refunds and corrections are separate statements in
`task_billing.go`. A realtime session charges through `PostConsumeQuota` while
it runs and through its billing session when it ends. Payments raise a user's
quota or add a subscription. Requests are routed by the channel cache, which is
rebuilt from the rows that the handlers of `UpstreamModels` write.

The hazards of each component, with the line where they bite and the properties
that cover them, are listed in `PROJECT.json`.

## 2. Modules

| Module | Contents |
|---|---|
| `BillingSession` | the session, its stores and its properties |
| `RequestCharge` | what the billing of a request promises, without its steps |
| `BillingRefinement` | the mapping under which `BillingSession` implements `RequestCharge` |
| `BillingSessionProofs` | inductive invariant, theorems, proof of the refinement; at the end, the proofs about `RealtimeBilling` |
| `TaskPolling`, `TaskPollingProofs` | tasks, loops, billing of ended tasks, user fetch, and proofs |
| `UserStore`, `UserStoreProofs` | row, copy and batch of one user, and proofs |
| `PaymentOrder`, `PaymentOrderProofs` | one order, its handlers and mutexes, and proofs |
| `SubscriptionQuota`, `SubscriptionQuotaProofs` | the subscriptions of one user under concurrent transactions, and proofs |
| `RealtimeBilling` | the threads and counters of one realtime session |
| `UpstreamModels`, `UpstreamModelsProofs` | the model list of one channel, and proofs |
| `Playground` | the chat page |
| `SettingsForm` | one section of the settings pages |
| `PageProofs` | proofs about the two pages |
| `FiniteSums` | induction over numbers and lemmas about sums over finite sets, used by the other proofs |
| `MC...` + cfg | instances for TLC |

Operators whose comment begins with "Mutant:" are deliberately wrong variants of
the definition below them. Nothing uses them in the specification; substituted
for that definition they make a named property fail, which shows that the
property depends on the code in question (`mutants` in `PROJECT.json`).

A variable that never changes after `Init` (`setting`, `batch`, `rowLocks`,
`auto`...) is a configuration of the deployment: one run covers all of its
values. A *history* variable is read by properties only.

### 2.1 BillingSession

State. `userQuota`, `tokenQuota`, `subUsed`, `subActive` and `record` are the
columns the session's statements touch: the wallet, the token, the usage and
activity of the user's subscription, the status of the pre-consume record of
each request id. `sess[r]` holds the fields of the Go structs under their names,
shortened (`pre` = `preConsumedQuota`, `extra` = `extraReserved`, `consumed` =
`WalletFunding.consumed` or `SubscriptionFunding.preConsumed`, `src` = the type
of the funding source); `settledAt` is a history field, the argument of Settle.
`pc[r]` is the statement the session is about to send. `userCharged`,
`tokenCharged`, `subCharged` are history variables: the net amount each request
took from each store. `faults[r]` counts its failed statements.

Steps. Each database statement or transaction is one action with, as separate
disjuncts, success, every early return, and failure without effect (`Fault`).
What the code does with the error is part of the action.

| Code | Actions |
|---|---|
| `NewBillingSession`, `tryWallet`, `trySubscription` | `Start`, `HasActiveUserSubscription`, `TryWallet`, `TrySubscription` |
| `preConsume` | `PreConsumeTokenCheck`, `PreConsumeTokenQuota`, `WalletPreConsume`, `SubscriptionPreConsume`, `RollbackToken` |
| `Reserve` | `Reserve`, `ReserveFunding`, `ReserveTokenCheck`, `ReserveToken`, `RollbackFundingReserve` |
| `Settle` | `Settle`, `SettleFunding`, `SettleToken` |
| `Refund` and its goroutine | `Refund`, `WalletRefund`, `SubscriptionRefund`, `MarkRefunded`, `RefundExtraReserved`, `RefundToken` |
| end of the handler | `Finish` |

`RefundSubscriptionPreConsume` is two steps because the call that returns the
amount (`PostConsumeUserSubscriptionDelta`) opens a transaction on the global
handle and commits before the surrounding transaction saves the record.

The mutex of the session makes Reserve, Settle and Refund of one session
exclusive, so a session executes one operation at a time; the refund goroutine
is the exception, and Refund may be called again while it runs.

Assumptions of the model:

* Owners call Refund only from deferred functions, so no Reserve or Settle
  follows it (true of every caller). `Reserve` and `NeedsRefund` are part of the
  session's interface without a caller in the repository; Reserve is modelled as
  callable at any time before.
* One user, one token, one subscription. Several candidate subscriptions, plan
  periods and resets are in `SubscriptionQuota`.
* A subscription transaction is isolated. The code asks for `FOR UPDATE` through
  `gorm:query_option`, which the GORM version in `go.mod` does not read, so this
  depends on the database; `SubscriptionQuota` drops the assumption.
* Increases and decreases of the wallet and of the token are atomic column
  expressions (batch updater off, caches current); `UserStore` has the batch
  updater and the cache.
* An error of a statement means that it had no effect.

Observation: `NeedsRefund` looks at the wallet only through `tokenConsumed`. A
zero-price wallet session whose Reserve charged the wallet, could not charge the
token and could not roll the wallet back keeps that charge, because
`tokenConsumed` is still 0. It takes two failed steps in one session;
`WalletHoldKnown` shows that the session at least still knows the amount.

### 2.2 RequestCharge and BillingRefinement

`RequestCharge` is the promise: a request is rejected at no cost, or it takes a
hold, may raise it, and ends charged, released or with its hold kept (an owner
that never calls Settle or Refund). Funding source and token change together, by
the same amount, in one step; an ended request never changes again. A request
one of whose statements failed is promised nothing (phase `failed`), because the
code logs such errors without repairing them.

`BillingRefinement` maps the session to it. Between operations an account shows
its real charge; within an operation it shows what the session held when the
operation began. So `preConsume` happens at its last statement, Reserve when the
token has paid, Settle and Refund when the token statement is done.

### 2.3 TaskPolling

State. `status` and `complete` are the columns of a row that the queries look
at; `upstream` is the provider's view; `timedOut` says that `submit_time` is
before the cutoff. `poller[p]` is the local state of one `TaskPollingLoop`:
tasks still to do in this phase, the status each had when it was loaded
(`seen`), the answers received, and the amount being billed. `fetcher[f]` is a
user's request in `tryRealtimeFetch`. `fund`, `token` are net charges, `due` is
the cost a settlement aims at, `silent` the tasks ended by a write that never
bills. `setting` is the deployment: the channel of each task, the processes that
run the loop, the users that fetch, whether the timeout is on, channels may
vanish and the provider may answer with an error body (which
`updateVideoSingleTask` takes for a failure of the task).

| Code | Actions |
|---|---|
| `RelayTask` (success) | `Submit` |
| `sweepTimedOutTasks` | `LoadTimedOut`, `SweepTask` |
| `TaskPollingLoop`, `DispatchPlatformUpdate`, `updateVideoTasks` | `LoadUnfinished`, `OpenChannel`, `TaskBulkUpdateByID`, `EndRound` |
| `updateVideoSingleTask` | `FetchVideo`, `UpdateVideoSingleTask` |
| `updateSunoTasks` | `FetchSuno`, `UpdateSunoTask`, `SaveSunoTask` |
| `RefundTaskQuota`, `RecalculateTaskQuota` | `Bill`, `TaskAdjustFunding`, `TaskAdjustTokenQuota` |
| `tryRealtimeFetch` | `FetchLoad`, `FetchAnswer`, `TryRealtimeFetch` |
| provider, clock, process failure | `UpstreamMoves`, `TimeOut`, `Crash` |

Assumptions: an ended task stays ended at the provider; a running answer never
carries progress 100%; a Suno answer has a fail reason only with `FAILURE`. The
limits of the load queries (100 and `TaskQueryLimit`), their read errors and log
entries are left out: tasks beyond the limit simply wait for a later round.

The properties are about tasks that are `Ordered`: every write that ends and
bills them is a compare and swap from a status that was not final, or has a
single writer. Section 7 says what happens to the others.

Observations: `RecalculateTaskQuota` changes `task.Quota` in memory only, the
row keeps the submitted value; `legacyTaskCutoff` (1740182400) is 2025-02-22
while its comment says 2026-02-22.

### 2.4 UserStore

One user's row (`quota`, `status`), the hash in Redis, and the batch updater.
`change[c]` is a call of `IncreaseUserQuota` or `DecreaseUserQuota`: the booking
(one `UPDATE`, or an entry in memory if `batch` and the caller does not ask for
the row) and the goroutine that increments the copy, in two commands
(`IncrCheck`: TTL, `IncrApply`: HINCRBY, either of which may fail: `IncrError`),
proceed independently. `fill[f]` is a reader that found no copy, or got an error
from Redis, read the row at some later moment, and has still to write it. `writer[w]` is a handler that writes the row itself.
`causes` collects why the copy may differ from the row.

| Code | Actions |
|---|---|
| `IncreaseUserQuota`, `DecreaseUserQuota`, `RedisHIncrBy` | `StartChange`, `Book`, `BookError`, `IncrCheck`, `IncrApply`, `IncrError` |
| `batchUpdate` | `BatchTake`, `BatchWrite`, `BatchError` |
| `GetUserCache` and its deferred fill | `FillRead`, `FillWrite`; `Expire` |
| profile update, enable/disable, aff transfer | `LoadUser`, `RereadUser`, `StoreUser`, `CacheUser`, `SaveTransfer`, `DropUser` |
| quota override by an administrator | `OverrideQuota` |
| process failure | `Crash` |

Tokens (`model/token.go`) follow the same code and are not repeated.

### 2.5 PaymentOrder

One top-up or subscription order and the handlers that end it. `orderLocks[n]`,
`refCount`, `holder` are the map of reference-counted mutexes of
`controller/topup.go` (a mutex is named after the handler that created it);
`Enter`, `Acquire`, `Release`, `Leave` are `LockOrder` and `UnlockOrder` statement
by statement. `Read`, `Write`, `Credit` are the statements on the order and the
user: one transaction for Stripe, Creem, Waffo and subscriptions, separate
statements for EPay. `rowLocks` says whether the database isolates the
transactions although the option that asks for it is ignored; `nodeOf` places
the handlers on processes. `Deliver` repeats notifications; `StatementError` and
`Crash` are failures. Creating an order is not modelled: it is pending at first.

### 2.6 SubscriptionQuota

The subscriptions of one user. A transaction of `model/subscription.go` reads
the row (`Begin`), decides, and saves the *whole* row (`PreConsumeCommit`,
`DeltaCommit`, `ResetCommit`); `setting.isolated` says whether the database
serialises it. A row's `period` stands for its reset times and `clock` for the
time; `ResetList` and `Reset` are the task of
`service/subscription_reset_task.go`, `EndSubscription` expiry, cancellation and
invalidation (one statement that writes the status). `Settle` and `Fail` are the
ends of a request; a failed one may owe a violation fee, which is charged through
`PostConsumeQuota` beside the refund goroutine, hence the two actors per request.
Failing statements are in `BillingSession`. Abstractions: a transaction reads the
time when it reads the row; the plan either resets or does not (a row whose next
reset time is zero although the plan resets is not considered); the totals are
limited.

### 2.7 RealtimeBilling

The client reader, the provider reader and the handler of
`OpenaiRealtimeHandler` share the counters `usage`, `localUsage` and `sumUsage`
without a lock. `usage` and `localUsage` are pointers: `objects` lists the objects
they have pointed to, and a thread goes on with the object it has when the
pointer is replaced. Where two threads write the same counter a `+=` is two
steps, a load and a store (`Load` and `Store` of `localUsage`, `AddLoad` and
`AddStore` of `sumUsage`); `usage` has one writer, and its `+=` is one step.
A bill (`preConsumeUsage` with `PreWssConsumeQuota`) adds its object to the sum,
looks up the quota (`Lookup`) and then reads the object *again* to compute the
charge (`Check`): a client message in between makes the charge larger than what
was summed. `Charge` and `ChargeFails` are `PostConsumeQuota`; `ClearUsage` and
`ClearLocal` replace the two counters one after the other; `TestUsage`,
`FlushUsage`, `TestLocal`, `FlushLocal` read the pointer twice, as the handler
does. `PostWssConsumeQuota` computes the settlement, `SettleBilling` books it or
fails. Abstractions: the fields of a counter are one number, a token costs one
unit, and the token's quota, which is looked up, compared and charged beside the
wallet's, is not kept.

### 2.8 UpstreamModels

One channel with the check for new models enabled. `row` holds the model list
and three lists of the settings column (detected, removed, ignored models);
`abilities` and `cache` are what requests are routed by. A job is one handler:
it loads the row, computes, writes whole columns, then the abilities, then
rebuilds the cache. `behind` and `crossed` record that another job wrote in
between.

| Code | Actions |
|---|---|
| hourly task, `Detect...`, `DetectAll...` | `LoadToCheck`, `Fetch`, `Persist`, `UpdateAbilities` |
| `ApplyChannelUpstreamModelUpdates` with the dialog of the channel page | `Apply` |
| `ApplyAllChannelUpstreamModelUpdates` | `ApplyAll` |
| channel form (`channel-mutate-drawer.tsx`, `buildSettingsJSON`), `Channel.Update` | `OpenForm`, `SubmitForm`, `Persist`, `Reload` |
| `InitChannelCache`, `SyncChannelCache` | `ReadChannels`, `FailChannels`, `SwapCache`, `SyncChannelCache` |

Abstractions: lists are sets (every list is normalised); `regex:` entries of the
ignored models, the minimal interval between checks and the switch of the check
are left out; the transactions of `UpdateAbilities` run one after another; the
dialog sends any selection, as it keeps one from an earlier use (section 7); the
form does not save an empty model list (its Updates skips empty strings).
`FailChannels` is a failing query of the channels, whose error nobody looks at:
the cache is replaced by an empty one until the next synchronisation.

### 2.9 Playground

`msgs` is the list of messages, `view` and `gen` are the messages and `isGenerating` of the last render, which the click
handlers use. `source[s]` are the event sources, `ref` and `complete` the two
refs all of them share. Actions: `Send`, `ClickSuggestion`, `Regenerate`,
`Delete`, `OpenEdit`, `CancelEdit`, `SaveEdit`, `SubmitEdit`, `Stop` (buttons);
`ContentChunk`, `ReasoningChunk`, `Done`, `BadChunk`, `Fail`, `Truncate` (events
of a stream); `Render`, `Reload`. Text is abstracted to pieces that remember
which stream brought them. `interrupted` records that a control that does not
wait for the current answer was used while one was generated (suggestions, and
the buttons of an editor opened before): the properties are about the page until
then, section 7 about what follows.

`updateMessages` saves the list to `localStorage` inside the state updater, which
React runs at once or when it renders. The stored list is therefore `msgs` as it
is now or was at some moment since the last render. `Reload` takes `msgs`: nothing
else of the page survives, so a reload that finds an older list leads to the same
page as a reload at that earlier moment, which the model has as well; the events
whose effect is missing from the list were never shown.

### 2.10 SettingsForm

One of the three sections built on `useSettingsForm` (`section`): `form` and
`baseline` of the hook, `data` of the query cache, the PUT of the field being
saved and the GET in flight, which `lib/api.ts` shares among callers. `Submit`,
`SendPut`, `SubmitEnd` are the save loop, `PutApply`, `PutReject`, `PutAnswer`,
`PutError` the request, `Refetch`, `FocusRefetch`, `ServerRead`, `GetDone`,
`GetError` the query, `Effect` the effect that resets the form to changed
options, `OtherAdmin` a second administrator.

| Section | Defaults | Sends | Reset | Refused |
|---|---|---|---|---|
| `SystemInfo` (`system-info-section.tsx`) | built at each of its renders | trailing slashes trimmed (`Trim`) | yes | never |
| `Quota` (`quota-settings-section.tsx`) | built when the page renders | as typed | no | `Refusable` options |
| `Pricing` (`pricing-section.tsx`) | built when the page renders | as typed | yes | never |

The effect depends on the identity of the defaults. A section that builds them
itself compares them with the baseline after each of its renders; the others get
new ones only when `SettingsPage` renders with new data (`fresh`). `GetOptions`
lists the options in the order of a Go map, so equal options may come as new data
or not: `GetDone` allows both. Two history variables say what a page cannot know:
`behind`, that since the server was last read somebody else wrote, a request was
lost, or a refetch joined an older GET; and `untold`, the fields of the sections
that wait for the page whose stored value no render need bring: refused ones (a
refused save does not refetch), fields written by somebody else or by a save that
broke off, and fields a running save will reset to older values than the effect
has brought. The server is one process: `SyncOptions`, by which other nodes read
the options later, is left out. `UpdateOption` may also answer with an error after
it has stored the value; not for the options of these sections.

## 3. Runs

Twelve runs, one per module and question. A type invariant (`TypeOK`) is part of
one invariant of each module.

| Run | Instance | Shows |
|---|---|---|
| `session_pair` | 2 requests, wallet_first or subscription_first, ask 1 or 2, subscription of 3, wallet and token of 4, no faults | `SettledExactly`, `HoldAccounted`, `SubWithinTotal`, `SubscriptionConserved`, `ImplementsCharge` in every interleaving |
| `session_faults` | 1 request of every kind, up to 3 failing statements | `WalletHoldKnown`, `NeverOverRefunded`, `SettledIsFinal`, `RefundCompletes` |
| `tasks` | three deployments (`MCTaskPolling`), 1 failing statement per task, 1 crash | `OutcomeCharged`, `NeverOverRefunded`, `EndedStaysEnded`, `FoundFailureRefunded`, `TaskEnds` |
| `user` | 2 changes (-2, 1), 1 reader, 1 whole-row writer of each kind, batch on or off, failures, crashes | `Conserved`, `CopyExplained`, `BatchLands` |
| `order` | 3 deliveries on one or two processes, four kinds of order, row locks or not, failures, crash | `LockOrderSound`, `CreditedOnce`, `PaidIsCredited`, `DeliveriesEnd` |
| `subscription` | 2 requests; 2 subscriptions of 2 serialised with fee 1, or 1 with interleaved transactions; 1 reset | `UsageExplained`, `WithinTotal`, `NothingUndone`, `ResetHappens` |
| `realtime` | 3 messages of 1 or 2 tokens, hold 1, quota 4 (may run out) | `SettlementCovers`, `NothingFree`, `RefusedEnds` |
| `upstream` | 2 models, with or without an alias, 2 handlers at a time, 3 starts and failed queries in all | `PendingNotIgnored`, `ServedMatches`, `ChangesAsked`, `CacheConverges` |
| `playground` | 2 streams of up to 2 chunks | `AnswersAreOwn`, `StreamsTracked`, `EndedStaysEnded`, `AnswersEnd` |
| `settings` | the three sections, 2 fields (one refusable, one written by a second administrator), 2 values one of which is trimmed to the other, losses | `WritesOnlyTyped`, `StaleHasCause`, `ShownIsSaved`, `FormConverges` |
| `session_idempotent` | 1 subscription request, 1 fault | violation of `SubscriptionRefundedOnce` (finding 1) |
| `tasks_bulk` | 1 video task, 1 loop, a channel that vanishes, no faults, fair | violation of `FailureIsRefunded` (finding 2) |

Bounds and why they are enough.

* Sessions of different requests share only three counters. Two requests
  exercise every race between a check of one and an update of the other; the
  instance makes the subscription (3), the wallet and the token (4) too small for
  both requests, and Reserve targets and actual costs (1 and 3) lie below and
  above the holds, so that every fallback, refusal, correction and rollback
  occurs, and both requests may pass the token's check before either is charged. The theorems of section 5 remove the bound on the number of requests.
* Three faults per request (`MaxFaults`) cover the longest chain of reactions:
  a failed Reserve with its failed rollback followed by a failed refund, and a
  refund that fails `MaxAttempts` = 3 times, the constant of the code.
* Tasks: the compare and swap and the billing are per task and pairwise; a third
  loop only repeats one of the two roles. One task is enough for the video path
  since nothing there relates two tasks; the Suno batch runs beside a legacy
  task. `Actuals` {0, 1, 3} around the charge 2: no recalculation, a return, an
  additional charge.
* `user`: a window (read, then write) is disturbed by one change inside it; the
  second change makes increments meet. `order`: two handlers that exclude each
  other and a third one that arrives while the map entry is deleted and created
  anew. `subscription`: total 2 and amounts 1 and 2 make the second hold fit,
  fall to the other subscription or be refused; one reset separates two periods.
* `realtime`: three messages let a response be done, another one be under way
  and a message be counted at the same time. `upstream`: the third handler works
  on what two overlapping ones left. `playground`: a second stream is what a
  first one can be confused with. `settings`: one field being saved, one being
  typed in.
* Symmetry of requests is used only in a run without liveness properties.

Deadlock is checked where the system goes on (sessions stutter when finished,
loops never end, the channel cache is synchronised for ever). It is off in
`user`, `order`, `subscription`, `realtime`, `playground` and `settings`, whose
bounded inputs are used up (all changes made, all deliveries answered, the
session closed, a page nobody touches).

## 4. Fairness

* `BillingSession`: weak fairness of each refund goroutine. It is a started
  goroutine whose steps are database calls with bounded retries; nothing blocks
  it. No fairness is assumed of requests: clients may hang for ever.
* `TaskPolling`: weak fairness of each loop (an endless `for` with a sleep of 15
  seconds) and of `TimeOut` (time passes). None of the provider: `TaskEnds`
  holds although it may never answer, because of the sweep.
* `UserStore`: weak fairness of taking and writing a batch (an endless loop over
  `BatchUpdateInterval`). None of requests, readers or writers.
* `PaymentOrder`: weak fairness of each started handler: its statements return
  and a mutex that is free is given to a waiter. None of deliveries.
* `SubscriptionQuota`: weak fairness of the reset task (a ticker of a minute) and
  of each running request's statements.
* `RealtimeBilling`: weak fairness of the three threads' own steps, not of
  messages; the main thread is woken when the provider's reader has stopped
  (its channel is closed).
* `UpstreamModels`: weak fairness of each started handler (the provider's answer
  or its timeout included) and of `SyncChannelCache` (an endless loop over
  `SyncFrequency`).
* `Playground`: a stream ends with `[DONE]` or an error, and React renders. The
  gateway's handler ends every response; a connection that breaks off without an
  event (`Truncate`) is allowed and excluded by the property.
* `SettingsForm`: the page's own steps and the transport's. `FormConverges`
  assumes that typing and interference stop.

## 5. Proofs

Every invariant and action property that the runs check is also a theorem for
all values of the constants.
The assumptions are the `ASSUME`s of the component's module and nothing else: the
amounts are numbers, the sets are disjoint where the code's values are, and
(`FiniteAssumption`) the sets of requests, changes, handlers or polling processes
are finite where a sum or a count over them occurs. TLC evaluates them in the
runs, and it has checked every inductive invariant below on the run of its
component before it was proved. `BillingSessionProofs` extends `RealtimeBilling`
besides `BillingSession`, and `PageProofs` extends both pages; for that reason
the specifications of `RealtimeBilling` and `SettingsForm` are named
`RealtimeSpec` and `FormSpec`, and their parts likewise.

### 5.1 BillingSession

`BillingSessionProofs` proves for every set of requests, every set of profiles,
all amounts, any bound on faults and attempts (the assumptions
`ProfilesAssumption`, `AmountsAssumption`, `BoundsAssumption`):

| Theorem | Statement |
|---|---|
| `TypeCorrect` | `Spec => []TypeOK` |
| `SettledExactlyHolds` | `Spec => []SettledExactly` |
| `HoldAccountedHolds` | `Spec => []HoldAccounted` |
| `OneSourceHolds` | `Spec => []OneSource` |
| `WalletHoldKnownHolds` | `Spec => []WalletHoldKnown` |
| `NeverOverRefundedHolds` | `Spec => []NeverOverRefunded` |
| `SubWithinTotalHolds` | `Spec => []SubWithinTotal` |
| `SettledIsFinalHolds` | `Spec => SettledIsFinal` |
| `SubscriptionConservedHolds` | `Spec => []SubscriptionConserved` |
| `Refinement` | `Spec => ImplementsCharge` |

None of the invariants is inductive: they speak of sessions between operations, and
hold there because of what was true in the middle of an operation. The
inductive invariant `IInv` is `TypeOK` and, for each request, four parts:

* `ControlInv`: which field values are possible at which step (for instance,
  that a session inside Reserve is neither settled nor refunded, or that `delta`
  is positive there);
* `FundInv`: what the funding source has been charged at each step, with or
  without failed statements (`OneSource`, `WalletHoldKnown` and the wallet half
  of `NeverOverRefunded` follow);
* `TokenInv`: the same for the token;
* `CleanInv`: the exact charges of source and token at each step when no
  statement of the request failed (`SettledExactly` and `HoldAccounted` follow).

All four speak of one request and its own charges, never of a sum over
requests; that is why this part is independent of the number of requests. There
is one lemma per action that it preserves the parts for the request that moves;
`Frame` says that the other requests do not notice; `NextIInv` combines them.
`SubWithinTotal` is about a shared counter and is proved separately
(`StepWithinTotal`): every increase is guarded by `SubAccepts` in the same
transaction. `SettledIsFinal` follows from `ControlInv`: no action that
charges anything is at a step where `settled` holds.

`SubscriptionConserved` is about a sum over the requests. `StepBooks` shows that
every step changes the counter of the subscription and the booked charge of one
request by the same amount, and `SumChange` of `FiniteSums` carries that to the
sum. The one place where the two could differ is the clamp at zero of
`PostConsumeUserSubscriptionDelta`: `CleanTakes`, which follows from `IInv`, says
that a request without failed statements never returns more than it took, so
the sum never becomes negative and nothing is clamped.

`Refinement` says that the session implements `RequestCharge`. `Accounts` uses
`IInv` to express what the mapping shows by the session's fields alone: nothing
while a request is asking or after its refund, the settled amount when settled,
the hold otherwise. Each group of actions is then compared with the abstract
steps on one request's phase and amount (`PreConsumeLocal`, `ReserveLocal`,
`SettleLocal`, `RefundLocal`, `EndLocal`), and `Lift` carries the comparison to
the mapped functions. `InitMaps` and `NextMaps` are the two obligations of a
refinement.

### 5.2 TaskPolling

`TaskPollingProofs` proves `TaskTypeCorrect`, `OutcomeChargedHolds`,
`NeverOverRefundedHolds` (`Spec => []...`) and `EndedStaysEndedHolds`
(`Spec => EndedStaysEnded`) for any tasks, channels, polling processes and user
requests. The inductive invariant `TaskInv` has two halves.

* `ShapeInv`, of all tasks: `LoopSound` says what a loop's local state may be (it
  works only on rows it loaded in an active status, it has a batch only while it
  polls, and what it bills is of the kind its next step says); `FetchSound` the
  same of a user's request.
* For each task of `OrderedTasks`: `Agrees`, whatever says the task has ended
  agrees with the provider, where nothing else can end a task; `Alone`, the only
  loop that polls a Suno task has it in an active status; and `Accounts`, the
  charges at every step of its billing: at most one loop bills it, `Booked` while
  one does, `Unbilled` otherwise.

The argument: a loop that ends a task does so by a compare and swap from an
active status, so nobody was billing it (`ActiveUnbilled`) and it stood at its
submission price; the winner then owes exactly the difference (`EndStep`), and
nobody else can start billing before it is done, because the row has ended. A
Suno task is saved without compare and swap; there the argument is `Alone`, which
needs the single poller that `Ordered` asks for. A user's fetch could reopen a
task whose loaded status had ended; `Agrees` excludes it. `LoopStep`, `TaskStep`
and `OutsideStep` say what a step has to show; there is one lemma per action.

### 5.3 UserStore

`ConservedHolds` and `CopyExplainedHolds`. The invariant for the first adds what
a handler under way holds (`WriterKinds`). The second needs `CopyFollows`: while no
cause is recorded, whoever has read the row is alone with what it still is
(`WindowsAlone`), and the copy, if there is one, is on its way: copy plus what the
changes have yet to add to it, less what they have yet to book, equals the row
with the batch flushed (`CopyOnItsWay`), a sum over the changes.

### 5.4 SubscriptionQuota

`WithinTotalHolds` needs only that the rows, and those an open transaction has
read, are within the total (`RowsSound`): what is saved is what was checked.
`NothingUndoneHolds` needs `Serial`, that a serialised transaction is alone and
its rows are current. `UsageExplainedHolds` needs also `Accounts`: each request
can pay back what it still has to (`PaysBack`), so that the clamp at zero in
`PostConsumeUserSubscriptionDelta` never swallows a part of a refund.

### 5.5 PaymentOrder

`LockOrderSoundHolds` rests on `LockInv`: a handler with a mutex has the one in
the map (`MutexKnown`), an entry of the map is in use (`EntryUsed`), its reference
count is the number of its users (`CountExact`), and it is held by the handler
that works on the order (`HeldInOrder`). `CreditedOnceHolds` adds `CreditInv`: in
a guarded order one handler at a time is past its check of the status
(`OneWriter`), by the mutex or by the row lock (`RowHeld`).
`PaidIsCreditedHolds` rests on `ReportsLand`, and not on any exclusion.

### 5.6 UpstreamModels

`PendingNotIgnoredHolds`, `ServedMatchesHolds`, `ChangesAskedHolds`. `UpstreamInv`
adds for each job what it has loaded or wants to write: equal to the row as far
as nobody has overtaken it (`InStep`), different from it only where it was asked
or is the task (`Justified`), and without a model in both lists (`Carries`).

### 5.7 SettingsForm

The second part of `PageProofs` proves for any fields, values and trimming (under
`SettingsFormAssumption`) `FormTypeCorrect`, `SavesOnlyTyped`
(`FormSpec => []WritesOnlyTyped`), `CacheExplained` (`FormSpec => []StaleHasCause`) and
`ShownIsSavedHolds` (`FormSpec => []ShownIsSaved`), for all three sections.
The inductive invariant `FormInv` adds that a PUT belongs to a running save and to
a field it set out to write (`PutInSave`), that a field that differs from the
baseline was typed in since the last reset (`DirtyWasTyped`), and that, while
nothing explains a stale cache, the cache or the answer on its way agrees with
the server up to a PUT whose answer will refetch (`CacheFollows`).

`ShownIsSaved` of the sections that wait for the page needs `FormFollows`: for a
field that is not in `untold`, if the baseline, or what a running save will make
the baseline, differs from the server, then the cache differs from the server
too, unless the effect is due already (`Told`). The next answer will then be new
data and the page will render. While the field itself is being saved the clause is
replaced by one about the save: the field is still to be sent, on its way, or
stored.

### 5.8 RealtimeBilling

`SettlementCoversHolds` (`RealtimeSpec => []SettlementCovers`) and `NothingFreeHolds`
(`RealtimeSpec => []NothingFree`), for any amounts, hold, quota and number of messages.
Updates of the counters may be lost, and a bill reads its object twice, so no
equation between the counters holds; the invariant `RealtimeInv` consists of
lower bounds, about the reported usage only.

* `UsageBill`: while the reader charges a reported usage (`Billing`), nobody else
  writes the object, so what is summed and what is charged agree. This is what
  fails for `localUsage`.
* `SumCovers`: the stored sum, and every value a bill under way has loaded and is
  about to store, covers what is finished. A store that overwrites the other
  thread's can thus lose only what is not finished. The third conjunct makes it
  inductive: as long as the handler waits, the reader is the only writer of the
  sum, so a bill is in it before its charge is called finished.
* `UsagePaid`: unless a charge was refused or failed, `usage` is what the reader is
  charging and nothing else, and what was taken from the wallet (`Taken`) plus the
  part the reader has yet to take (`Unpaid`) reaches what was reported. A bill of
  the handler for the same usage, and the settlement, only add to `Taken`.

### 5.9 Playground

`StreamsTrackedHolds`, `AnswersAreOwnHolds` and `EndedStaysEndedHolds`, for any
number of streams and chunks. The invariant `PageInv` has two halves.

* `Structure` holds whatever controls are used: streams are numbered in the order
  they are opened, stream `s` was opened for the message of key `2 * s`, and
  `msgs` and `view` are lists with distinct keys that were handed out before
  (`WellFormed`).
* `Tracked` and `Answers` hold while `interrupted` is false. `Tracked`: an open
  stream is the one in the ref, it is not marked complete, and its answer is the
  last message and the only unfinished one; and a page that shows nothing being
  generated (`~gen`) renders the current list. `Answers` is `AnswersAreOwn` with
  the fact that an unfinished answer holds nothing but chunks.

The argument: an event of stream `s` updates the last assistant message, which by
`Tracked` is the answer of `s` (`OpenFacts`), so a chunk extends it by the next
number (`OwnChunk`) and an end ends it (`EndCalm`). A click that waits for the
answer finds `~gen`, hence no stream and `view = msgs` (`IdleFacts`): the list it
writes loses nothing. A new stream has a new key, which no older answer has
(`OwnAfterOpen`). Every lemma about a step also shows `EndedKept`, from which
`EndedStaysEndedHolds` follows. The filter of `Delete` is the recursive function
in `Without`; `KeptFacts` shows by `NatSetInduction` over the prefixes what it
keeps.

### 5.10 FiniteSums

The library's induction theorems have an operator parameter, which the provers
cannot instantiate. `NatSetInduction` states induction about a set of numbers
instead, and follows from the existence of a least element (`LeastElement`, from
`WFMin`). `PageProofs` uses it for a recursive function (5.9). With it the lemmas
about `SumFunctionOnSet` are proved by induction over the size of the set: a sum
of integers is an integer (`SumType`), an element can be taken out (`SumTake`),
equal summands give equal sums (`SumSame`), changing one summand changes the sum
by as much (`SumChange`), and a sum of naturals is at least each of its parts
(`SumBound`).

### 5.11 Only model-checked

Liveness (`RefundCompletes`, `TaskEnds`, `FoundFailureRefunded`, `BatchLands`,
`DeliveriesEnd`, `ResetHappens`, `RefusedEnds`, `CacheConverges`, `AnswersEnd`,
`FormConverges`) is outside the prover's reach: it needs fairness and `ENABLED`.

## 6. What the passing runs do not say

`HoldAccounted`, `SettledExactly` and `OutcomeCharged` exclude requests and tasks
with a failed statement: the code logs such errors and does not repair them, so
an exact account cannot hold. `WalletHoldKnown`, `NeverOverRefunded`,
`SettledIsFinal`, `SubWithinTotal` hold with failures. `OutcomeCharged` excludes
tasks in `silent`: rows ended by a write that does not bill by construction. A
process that stops between pre-consume and settlement keeps the hold, and one
that stops between winning the compare and swap and refunding loses the refund;
there is no recovery code to model. The other exclusions (`Ordered`, `Guarded`,
`isolated`, `interrupted`, `behind`, `untold`, `causes`, `diverged`) are conditions the
code does not ensure; the next section says what happens without each, and the
hazards of `PROJECT.json` say which of them a property leaves open in this way.

## 7. Findings and observations

Findings, shown by a run:

1. `session_idempotent`: `model/subscription.go:1188` calls
   `RefundSubscriptionPreConsume` idempotent. The amount is returned in an inner
   transaction of its own; when saving the record or the outer commit fails, the
   retry returns it again.
2. `tasks_bulk`: the tasks of a channel that cannot be loaded are failed by
   `TaskBulkUpdateByID` without refund, against the comment of that function
   (`model/task.go:432`).

Observations: each is the reason for a condition in a property, and dropping the
condition makes TLC show it.

* Tasks (`Ordered`). `updateSunoTasks` refunds from a loaded row and saves it
  without compare and swap: with two loops, or a failed save, a failure is
  refunded again and again. `tryRealtimeFetch` may move a task that timed out and
  was refunded back to a running status, and the loop refunds it again; when it
  sees the provider's failure first, it ends the row without a refund.
* Users (`causes`). A hash that expires between the TTL and the HINCRBY comes back
  with the quota field alone. A reader that read the row before a change, a
  disabling or an override writes its old values to the copy afterwards. A
  failed `UPDATE` does not stop the goroutine that increments the copy. An aff
  transfer writes the whole row it read and overwrites charges booked meanwhile;
  a profile update writes back the status it read, also for a user disabled in
  between.
* Orders (`Guarded`). `LockOrder` works within one process; on two processes
  without row locks an order is credited twice. EPay saves the status and credits
  in separate statements, so a failure in between leaves a completed order
  without credit. A Waffo notification of a state that is not final fails the
  order without `LockOrder`, and the success that follows is refused.
* Subscriptions (`isolated`). Without isolation two holds that read the same row
  count once, and a request that read the row before a cancellation or a reset
  revives it or undoes the reset. A refund of an earlier period is booked on the
  new one. A violation fee can be refused because the hold of its own request,
  whose refund is still running, fills the subscription.
* Realtime sessions. Every response is charged when it is done and once more
  with the settlement of the total, which is computed from `sumUsage` and corrects
  only the initial hold: `NothingFree` holds, a matching upper bound does not,
  and races on the counters charge some usage more often. For usage counted by the
  gateway itself the charge and the sum may differ: a client message counted
  between `totalUsage +=` and the computation of the quota (`service/quota.go:104`)
  is charged with the response and not summed.
* Channels (`behind`, `diverged`, `typed`). A check whose provider answers late
  writes the settings, and with auto sync the model list, as they were loaded:
  an administrator's ignore or apply in between is reverted, also after a failed
  fetch. The form saves the pending models untouched, so a model added there to
  the ignored ones stays pending and "apply all" adds it and stops ignoring it.
  The dialog of the channel page is mounted once: its initial selection is empty
  and it keeps the selection of its last use, also for another channel.
* Playground (`interrupted`). A suggestion, or an editor opened before, starts a
  second stream while one runs: both write to the last answer, the end of one
  drops the reference of the other, a payload may carry an unfinished answer
  although `isValidMessage` says it excludes them, and a reload repairs only the
  last of two unfinished answers.
* Settings (`behind`, `untold`). The refetch after a save may be answered by a GET
  sent before it and keep the old options (`lib/api.ts:67`). A refused value
  (`controller/option.go:141`) becomes the baseline of the quota section and stays
  on the screen as if it were saved: a refused save fetches nothing, and the
  section's defaults are rebuilt only when the page renders. In the
  quota and pricing sections a value that another administrator restores before
  the refetch, so that the cache never changes, is not shown either. What is typed while a save ends or a refetch arrives is
  overwritten, although the comment at `use-settings-form.ts:167` says
  "Initializes form with defaultValues only on mount" and "No automatic resets
  that could overwrite user input".

## 8. Plan and what is not modelled

Done: `BillingSession` with its proofs, the abstract specification and the
proved refinement; `TaskPolling`, `UserStore`, `PaymentOrder`,
`SubscriptionQuota`, `UpstreamModels`, `SettingsForm`, `RealtimeBilling` and
`Playground` with proofs. Next, in order:

1. Channel status and multi-key channels (disabling by requests against the
   rebuild of the cache), with the retry loop of `controller/relay.go`.
2. Archive, stream scanner, rate limits, Midjourney tasks, redemption codes and
   check-in.

Not modelled: pricing and tiered settlement (floating point and an expression
language; their results are the arguments of Settle and Reserve), provider
adaptors and format conversion, authentication and OAuth, notifications,
metrics, packaging and documentation: they keep no shared protocol state. Of the
two web front ends (`web/default`, `web/classic`), which are most of the
repository's lines, nearly everything is tables, forms, charts, dialogs and
translations around single requests: declarative rendering, whose correctness
is not a matter of order or interleaving. The pages with state of their own that
outlives a request are the playground, the settings forms and the channel form
with its dialog, and these are modelled (`web/default`; `web/classic` has older
versions of the same pages). The map therefore covers a small part of the
repository's lines: the accounting core and the stateful pages listed above.

## 9. Running

```
tlc -config MCBillingSession_pair.cfg MCBillingSession
tlapm BillingSessionProofs.tla
```

Every `.cfg` belongs to the module its name starts with; `PROJECT.json` lists
the runs with their expected results. A run takes between a few seconds and four
minutes with two workers, the proofs of a module some minutes.
