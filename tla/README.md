# Verification of metacore-sdk

TLA+ modules that model the protocols of metacore-sdk, those of the browser page and
the Go billing package, the TLC configurations that check them on small instances, and
theorems about them whose proofs TLAPS checks for every value of the constants. Paths are relative to the
repository; `runtime-react/...` is short for `packages/runtime-react/src/...`,
likewise for the other packages.

    tlc -workers 2 -config OptimisticReplace.cfg MCOptimisticMutation   # one run
    tlapm QueryBatchProofs.tla                                          # one set of proofs

1. [The system](#1-the-system)
2. [What is modelled, module by module](#2-what-is-modelled-module-by-module)
3. [Runs, bounds and fairness](#3-runs-bounds-and-fairness)
4. [Proofs](#4-proofs)
5. [Where the code differs from what it says](#5-where-the-code-differs-from-what-it-says)
6. [What is not modelled](#6-what-is-not-modelled)
7. [Plan](#7-plan)

## 1. The system

metacore-sdk is the toolkit of a multi-tenant business platform: React runtime,
storefront kit, PWA kit, WebSocket clients, add-on SDK, a Go billing package and a CLI.
The rest of the server (the "kernel", the host API and the hub) lives elsewhere. Most of
what is here runs in one browser page, on one JavaScript thread: nothing runs in parallel
there, yet almost every component keeps state across asynchronous gaps: an answer, a
timer, a socket event, another tab, another component of the page. The billing handlers
do run in parallel, on one SQL database and without transactions. Those gaps are what
this project is about.

### Components with protocol state

| component | state it keeps | operations | talks to | what makes it correct |
|---|---|---|---|---|
| Optimistic mutation hook (`runtime-react/use-optimistic-mutation.ts`) | `seqRef`, `confirmedRef`, `inFlightRef`, `queuedRef` and its timer, pending variables, error, failed call | `mutate`, `flush`, `retry`, unmount; `onMutate`/`onSuccess`/`onError` of TanStack | the entry of the query cache, TanStack's mutation scope, the host API; refetches of other components | the screen shows the latest call and never an older answer; rollback restores what the server confirmed; nothing outstanding is reported settled; the last click is the last write; every call settles |
| Channel client (`websocket/channels.ts`) | the pool: per channel a socket, a handler set, an attempt counter, a reconnect and a close timer | `subscribe`, unsubscribe, `send`, `disconnectAll`, `getConnectionState`, socket events, two timers | browser WebSockets, the token store | one live socket per channel, known to the pool; subscribers hear the channel across reconnections; unsubscribed handlers are silent; an idle socket closes; the backoff is bounded |
| Realtime bridge (`websocket/realtime.ts`, `runtime-react/realtime-context.tsx`) | reference counts per model, subscriptions, `everOpened`; socket, timer, attempts | `subscribe`, unsubscribe, `close`, `onFrame`, `onOpen`; debounced refetch | the hub (SUBSCRIBE, DATA_EVENT, DATA_EVENTS_DROPPED), boards that refetch | the hub knows exactly the models the page shows; no change is missed, whatever was lost |
| Query batch (`runtime-react/query-batch.ts`, `api-context.tsx`) | the window, its waiters and timer, remembered parts, POSTs in flight | `batchGet`, `flushQueryBatch`, `clearQueryBatchCaches`, `invalidateQueryBatchData` | `POST /q`, plain GETs, the cache scope, the cache epoch | nobody is handed or remembered another identity's answer; nothing stale is remembered; no read is forgotten |
| Cache scope and epoch (`runtime-react/cache-scope.ts`, `cache-coherence.ts`, `sdk/src/cache-epoch.ts`) | last scope, last epoch token, listeners | `cacheScope`, `syncCacheScope`, `observeCacheEpoch`, `wireCacheEpochPush` | session token and `auth_user` in storage, response headers, push frames | scope and epoch changes reach every cache before it is used |
| WebSocket provider (`websocket/provider.tsx`) | socket, timers, attempts, `manualClose` | `connect` (awaits a token), `disconnect`, `reconnect`, url changes, unmount | browser WebSocket | one socket has handlers; an open one is kept alive and replaced when it drops; a provider turned off stays off |
| Update controller (`pwa/update-controller.ts`, `update-policy.ts`) | pending, applying, stale; storage shared by tabs; the waiting worker last seen | `evaluate`, `applyNow`, `checkVersion`, `dismiss`, `attach`, `stop` | service worker registration, other tabs | reload once, at a safe moment or when accepted, never in a loop, never hanging |
| Storefront cart (`storefront-react/cart.tsx`) | confirmed cart, pending layers, cart id, cookie, promise queue | `addLines`, `updateLines`, the setters, `refresh`, `clear`, hydration | carts API | one cart per shopper; a failed mutation removes its own layer only; once quiet, the screen is the store's cart |
| Embedded payments (`storefront-react/payments/`) | status, the submit in flight, the key in session storage, what `retry` sends, the form, four loops | the form's life cycle, `submit`, `retry`, `cancelChallenge`, `recheck`, the transport's repeats, the pay and status routes | the provider's SDK, the payment service, the bank | never two charges; an unknown outcome stays unknown until an answer; never stuck |
| Billing (`billing/`, Go) | the `subscriptions` and `usage_metrics` tables | `Webhook`/`applyStripeSubscription`, `RunTrialExpirationSweep`, `Guard.CheckActiveSubscription`, `CheckQuota`, `IncrementMetric` | Stripe, the host's routes | the table follows Stripe; what was canceled stays so; a quota is exceeded by no more than what ran at once |
| Add-on registries and hot swap (`sdk/src/registry.ts`, `sdk/src/action-registry.ts`, `runtime-react/hotswap-reload-policy.ts`) | owners of slots, modals, actions; version map | register, unregister by owner, swap | loader, push frames | nothing of an unloaded add-on stays |

How they interact: `useApi` reads go through the query batch, whose answers carry the
`X-Cache-Epoch` header that the response interceptor hands to the cache epoch, which
drops the batch's memory; the scope gates every use of that memory; `useApi` writes
drop the remembered rows before and after. The optimistic hook writes through TanStack
Query, whose refetches race its answers. The realtime bridge turns frames into refetches
of boards, on a socket of its own or on the host's.

### The other components

Screens and kits that keep local form or view state and render server answers
(tables, forms, agent workspace, chat, notifications, inbox, marketplace, settings,
wizard, automations, webhooks, data load), pure libraries (money, dates, permissions,
i18n, generative UI), drawing (charts, maps, theme, UI kit), scaffolders and the CLI. `PROJECT.json` lists each with the reason it is left out.

### Hazards

`PROJECT.json` "hazards" names, at their lines, the behaviours that are hard to test:
answers out of order, state read before an await and used after it, close events of
sockets that were replaced, sessions that move while a batch travels, lost frames, lost
answers of applied writes and of charges, a page reloaded between a charge and its answer,
storage that tabs share, a lookup and a write without a transaction, bounded retries. Each
points to the properties aimed at it.

## 2. What is modelled, module by module

Each module is one component with its environment; an action is a whole handler, with
every synchronous call it makes. Names follow the source.

Five components have a second module, `PaymentHistory`, `ChannelHistory`, `RealtimeHistory`,
`QueryHistory` and `BillingHistory`. The code keeps some of its promises only until a certain
thing happened (two webhooks handled at once, an answer that overtook another one). Such a
module does not rule that out: it adds a variable that no action reads and that remembers whom
it happened to (`Records`, conjoined to every step), and states the promise of every behaviour,
excusing exactly those. What goes wrong for them is in section 5.

### `OptimisticMutation.tla`: the optimistic mutation hook

The first group of variables are the hook's refs and state. The mutation scope
(`scope`, `phase`, `data`), the cache entry and its refetch (`cache`, `fetch`,
`fetched`, `stale`) are TanStack Query's, modelled from how the hook uses them: a scope
runs one write at a time in call order, `cancelQueries` drops a travelling refetch,
`setQueryData` clears the invalidated mark, `undefined` leaves the entry alone. `known`,
`intent`, `lastWrite` are history variables, for the properties only.

| code | action |
|---|---|
| `mutate` with its equality check | `Mutate`: `Issue` or `MutateIgnored` |
| `retry`, `flush`, the debounce timer, the cleanup effect | `Retry`, `Flush`, `DebounceFires`, `Unmount` |
| `onSuccess`, `onError`, `settleLatest` | `OnSuccess`, `OnError`, `SettleLatest` |
| the request | `ServerApplies("succeeded")`, `ServerApplies("failed")` (the answer is lost), `ServerRejects` |
| other components' refetches | `RefetchStarts`, `RefetchReads`, `RefetchLands`, `RefetchFails` |

Options are constants: `Optimistic`, `Apply`, `Reconcile`, `Debounce`. Two instances
(`MCOptimisticMutation`): writes that replace the resource, and writes of one field of a
document.

`RefetchMidWrite = FALSE` assumes that no other component starts a refetch while a
call is pending. TanStack does not guarantee it (window focus): with `TRUE`,
`ShowsLatestCall` fails, because `cancelQueries` in `onMutate` cannot cancel what starts
later. That is a limit of the pattern, so it is an assumption here and not a divergence.

`WriteScreen.tla` is the abstract specification: calls awaiting an answer in order, a
screen, and the last value the server told. `ImplementsScreen` maps the hook to it; the
debounced envelope and the scope together are the calls.

### `ChannelClient.tla`: the channel pool

Channels share only the token, so one channel is modelled. A connection and its socket
are one record in `conn`; `pool` is the map entry. Handler sets are objects of their own
(`members`) because a replacement connection shares its predecessor's set while a fresh
one begins an empty set: that difference is behind one
divergence of section 5. `sub` is the
caller's view; a handler is "cut" when the client gives the channel up (clean close,
attempts exhausted, no token, `disconnectAll`).

Actions: `Subscribe`, `Unsubscribe`, `Send`, `DisconnectAll`, `CloseTimerFires`,
`ReconnectTimerFires`, `SocketOpens` (with the `open` listener of the debounced close),
`SocketCloses(i, clean)`, and from outside `ServerCloses`, `TokenChanges`.

`ChannelHistory.tla`: the code deletes an entry by the name of the channel and replaces it
whenever its socket is not usable, so an entry may be taken from a connection that is in use: by
the late close event of an older one, by the 100 ms timer of a closed one, or by a subscribe or
send while the socket is closing or waits to be replaced. `crossed` says that it happened
(`Crosses`), until nothing of the channel is left. The page calls whenever it likes: an
unsubscription just before a reconnection, whose socket nobody then closes, is among the
behaviours and is a crossing.

### `RealtimeClient.tla`: realtime client, boards and hub

The client's counts and subscriptions, the transport (`ws`, `timer`, `attempts`), the
wire (`up`, `down`, FIFO, emptied when a socket closes), the hub's set per socket as
`realtime.ts` documents it, and the boards: `due` (debounce timers of `useRealtimeTick`
and of the refetch effect), `fetches` (in order of departure), `seen`, `failed`. A frame
carries model names; a model's rows are a version number.

`RealtimeHistory.tla`: `unsure` are the boards of which, since their last refetch left, a row
changed before the hub knew of them (the first open starts no refetch, and the resync of a
reconnection leaves beside the SUBSCRIBE and may be answered before it is read), or a refetch
was answered before an older one. A refetch that leaves makes a board sure again.

A board that unmounts takes its refetches, its timers and the memory of a failure along. A
subscriber without models hears of a gap only if somebody counts a model: `resyncAll` emits one
event per counted model. `EveryoneHearsOfAGap` says so, and with the instance `WithListener` of
`MCRealtimeClient` the board is such a subscriber.

### `QueryBatch.tla`: query batch, cache scope, cache epoch, useApi

A read stands for its token: "m" a model's metadata (served again from memory), "t" a
list (reused only when the server says `not_modified`). An answer is the server state
it was read from: whose it is, the metadata version, the rows version. `scope` is what
`peekCacheScope` would answer, `lastScope` what the last `cacheScope()` saw; every code
path that calls `cacheScope()` syncs first (`Synced`, `AtSynced`, `TimerSynced`).

| code | action |
|---|---|
| `batchGet`/`loadQueryPart` | `ReadPlain`, `ReadMemory`, `ReadWindow` |
| `flushQueryBatch` before and after its POST | `Flush`; `BatchLands`, `BatchFails` |
| the response interceptor (`observeCacheEpoch`) | part of `BatchLands`, `GetLands`, `WriteSettles`, before the caller sees the answer; of a request that fails it may report the epoch too (`Reported`) |
| `mutating(request)` | `WriteStarts`, `WriteSettles`, `WriteFails` |
| `wireCacheEpochPush`, `syncCacheScope`, `clearQueryBatchCaches` | `PushArrives`, `SyncCacheScope`, `ClearQueryBatchCaches` |
| session and language | `IdentityMoves` (the token moves first, the scope is unknown until `auth_user` agrees), `UserIsKnown` |
| the server | `BatchReads`, `GetReads`, `WriteApplies`, `AddonChanges` |

Read from the use in the code: an etag hashes content, every answer carries the header,
`useCacheEpochSync` is mounted, a GET is sent and read by the server in one step (sending
changes nothing in the client). Entries older than 30 s are ignored by the code: the model
lets `ReadWindow` happen at any time, which covers an expired entry.

A POST that is refused (403, 424) refuses its readers, any other failure sends them to a GET;
a save may be refused by the server, or its answer lost.

`QueryHistory.tla`: batches are read and answered in any order. `overtaken` are the readers whose
batch sent the etag of a list that an older answer took the place of while it travelled: a
`not_modified` part is then answered with the older list.

### `WebSocketProvider.tla`: the React provider

With a `getToken`, so that every `connect` waits: `calls` counts the connects that wait, by
the url they read before the await. A socket is in `sockets` while its handlers are set;
one that was torn down can do nothing more. The url after an unmount is the last one.

| code | action |
|---|---|
| the effect on `url` and its cleanup | `SetUrl`, `Unmount` |
| `connect` before and after its `await` | `Connect` (in `SetUrl`, `Reconnect`, `Timer`), `TokenArrives` |
| `teardownSocket`, `scheduleReconnect` | `Torn`, `Schedule` |
| `disconnect`, `reconnect` | `Disconnect`, `Reconnect` |
| `onopen`, `onclose`, the reconnect timer | `Opened`, `Closed`, `Timer` |

`TokenArrives` has the three ends of the second half of `connect`: `buildUrl` answers null,
a socket is made, the constructor throws. The attempt counter and the timer are the
provider's, not the connect's, and that is what the properties are about.

### `UpdateController.tla`: PWA updates in several tabs

A controller is a pair of a tab and a number: number 1 is the one that runs in that tab, the
others are names for those that were stopped (`ctl`). The local storage (`store`: since,
dismissed, accepted, attempt) and the registration (`waiting`, `skip`) are shared by all.
Workers are numbered by deploy. Whether a moment is safe is chosen at every evaluation.

| code | action |
|---|---|
| `evaluate` with the loop guard and `decideUpdate` | `Evaluate`: `Inherited`, `Guarded`, `Decision`, `Apply` |
| `attach`, `checkVersion` | `Attach`, `CheckVersion` (answers may overtake one another) |
| `applyNow`, `dismiss` from the buttons | `Click`, `Dismiss` |
| `reloadOnce` from the event or the fallback timer | `ControllerChange`, `Fallback` |
| `stop` and another controller (`useServiceWorkerUpdate`) | `Restart`: `Stopped`, which keeps the version checks in flight (`due`) and what the old controller knew |
| the browser: reload, install, activate | `Load`, `Install`, `Activate` (which may never come) |

`stop()` clears the timers and the listener but not a `checkVersion` that awaits its answer: a
stopped controller may still be answered, evaluate, apply and reload, and does in the model.
In the model it keeps the policy and the storage prefix of its successor. A controller is not
replaced between `reload()` and the unload of the page.

The clock never goes back. `tries` (automatic attempts per worker in one burst) and `left` (a
controller stopped while it applied) are ghosts.

### `StorefrontCart.tla`: the cart provider and the carts of the store

The content of a cart is the set of the mutations the server applied to it, so that "the
layer of another mutation left" and "the screen is the store's cart" can be said without
quantities. A request, its treatment and its answer are three steps; either may be lost, and
a cart may be gone at any time.

| code | action |
|---|---|
| `addLines`, `updateLines`, `removeLines`, the setters, `refresh` | `Mutate` (the layer), `Run` (its turn in the queue), `Answer` |
| `confirm`, `persistId`, `finally`, the restart after a 404 | `Confirm`, `Persist`, `Settle`, `Restarted` |
| `clear` | `Clear` (at once, not queued) |
| the mount effect, the loader, a page load | `HydrationAnswer`, `Load` |
| the store | `Serve`, `ServeHydration`, `Expire`; `Lose` |

Ghosts: `left` (carts given up or never heard of), `late` (a hydration applied over a
confirmed mutation), `forgot` (how the last `clear` found the provider). A page load drops
the request in flight; what the store did with it stays.

### `EmbeddedPayment.tla`: the card form, its transport, the routes and the service

One payment of one checkout. `status` is the hook's status (with `blocked` split into
"verifying" and "refused"); `watch` the loop that reads the payment for that status; `call`
the submit in flight with its stage; `net` the requests on their way; `ops` the service's
attempts by key, as its mock answers (`packages/storefront/src/mock/index.ts`).

| code | action |
|---|---|
| the mount effect, `fail`, `enabled`, `syncAmount` | `Mount`, `FormReady`, `FormFails`, `Disable`, `Enable`, `LearnTotal`, `UpdateDone`, `UpdateFails` |
| `submit`, `retry` | `Submit`, `Collected`, `NotCollected`, `Retry` |
| `withNetworkRetry`, `resolveByStatus` | `Transient`, `Repeat`, `ReadStatus` |
| `finish`, `runAction`, `verifyPending` | `Finish`, `RunAction`, `VerifyPending`; `ActionDone` |
| the challenge, review and verify loops, `recheck`, `cancelChallenge` | `PollAnswers`, `WindowCloses`, `Recheck`, `CancelChallenge` |
| a page load | `Reload`: the key and the cookie stay, all else is lost |
| the pay route and the service; the bank; the order | `Arrives`, `BankSettles`, `ChangeTotal` |

A known key is answered with what is stored under it, whatever else the request carries. A
change of total that the form was told is noted also when that form is gone, and the total is
compared once more after every update.

A request may arrive when nobody waits for it any more, and a copy of it may still be on
its way. The arrival of a request and its answer are one step (an answer that comes late
is one that does not come).

`PaymentHistory.tla`: `told` are the keys whose charge was answered to the call that waited for
it; `misread` says that a key was given up on a status read that told another key's attempt.

### `Billing.tla`: webhooks, the trial sweep, the guard and the quota (Go)

One organization. The handlers run at once, and each step of theirs that reaches Stripe or
the database is an action: `WebhookBegins` (the retrieval), `LooksUp`, `Creates` or `Saves`,
`SyncFails`. `Sweep` is one statement. `RequestBegins` is the guard in front of a route of
the host, with `Current` the row `loadSubscription` would read; `RequestSucceeds` is
`IncrementMetric`, `MonthTurns` the period key. Stripe and the clock are external:
`Subscribes`, `TrialElapses`, `StripeMoves`.

From the code's use of its libraries: GORM's `Save` writes every column, so `Saved` resets
`created_at`; primary keys are random, so among rows with one `created_at` the guard may read
any. The statuses Stripe has besides the four of `States` behave like one of them for this
code (`unpaid` like `past_due`, `incomplete_expired` like `canceled`, `incomplete` like
`active`).

The guard admits what it cannot check: a subscription that cannot be read counts as none, a plan
that cannot be read as one without a limit, a count that cannot be read as 0 (`failed` in
`RequestBegins`; `free` counts the requests that no limit was applied to). A request adds up to
`MaxAmount` to the counter. An organization buys again only after its subscription was canceled.

`BillingHistory.tla`: `raced` are the subscriptions of which two webhooks were handled at once,
until one that was alone all the time has written their only row; `together` are the handlers
that had another one of their subscription beside them.

## 3. Runs, bounds and fairness

Every run finishes with 2 workers in less than three minutes. Deadlock is checked in
`update`, where something can always happen, and not elsewhere: those systems may stop (no
caller acts, a bound is reached).

| run | instance | shows |
|---|---|---|
| `payment_charge` | 2 keys, 2 cards, 1 change of total, 3 kinds of open result, 1 repeat, 1 automatic retry, reloads; fair | `NoKeyBesideTheUnknown`, `ApprovedIsPaid`, `OneKeyPerCard`; `UnknownStays`, `LeftStaysLeft`; `NeverStuck` |
| `payment_another_key` | 3 keys, 3 cards, no repeats | violation of `NeverAnotherKey`, section 5 |
| `update` | 2 tabs, or 1 with a controller that was stopped and its successor; 3 builds, 3 instants, 1 click, 1 version check in flight; fair | `OneReload`, `AttemptsAreBounded`, `NeverSilently`; `UpdateSettles` |
| `cart` | 3 mutations, 3 carts, 1 loss, 1 page load; fair | `OneCart`, `QuietIsServer`, `ClearForgetsIdle`, `NothingElseRollsBack`; `QueueDrains` |
| `provider` | 3 urls, 3 attempts, 8 moves, up to 3 connects waiting per url; fair | `OneSocket`, `OpenIsKept`, `OpenIsTrue`; `Recovers` |
| `optimistic_replace` | replacing writes, debounce, 6 calls, two values; fair | `ShowsLatestCall`, `NothingOutstandingWhenSettled`, `LastClickIsLastWrite`; `EveryCallSettles`, `Converges` |
| `optimistic_merge` | field writes, reconcile, 5 calls | `SettledIsServer`, the refinement `ImplementsScreen` |
| `channel` | 2 handlers, 3 sockets, 2 attempts; fair | `OneConnectionPerChannel`, `SubscribersAreHeard`; `IdleSocketCloses`, `SubscribersReconnect` |
| `realtime` | 2 boards with overlapping lists and a duplicate, 1 change, 1 drop, 2 frames, 2 refetches per board; fair | `HubHearsThePage`, `NothingMissed`; `CatchesUp` |
| `query` | 2 readers, 2 identities; two of: a save, an addon change, a move; symmetry | `RememberedIsCurrent`, `RowsAreFresh`, `WindowIsTimed`, `HandedInScope` |
| `billing` | 2 subscriptions one after the other, 2 handlers, 2 requests of 1 or 2, 1 change, 1 failure, 1 request without a limit | `RowsFollowStripe`, `OvershootIsBounded`, `CanceledStays` |
| `billing_latest` | 1 subscription, 1 handler | violation of `GuardReadsLatest`, section 5 |

### Sizes of the runs

Distinct states (every passing run is exhaustive): `query` 2.76 million, `billing` 2.48 million,
`payment_charge` 900 thousand, `realtime` 605 thousand, `channel` 583 thousand, `cart` 540 thousand,
`update` 383 thousand, `provider` 306 thousand, `optimistic_merge` 268 thousand,
`optimistic_replace` 28 thousand. `query`, `realtime` and `update` take the longest.

Why the bounds are enough for the cases they are after:
- Payments: two keys and two cards are a lost charge and the one that would double it; one
  repeat and one retry put a copy of a charge behind its successor; one change of total meets
  a submit in every stage. The mutant of `NoKeyBesideTheUnknown` (a key
  given up without an answer) takes two keys.
- Updates: three builds are the one that runs, one that waits and the one that replaces it;
  two tabs, one of which still remembers the replaced one; in a third tab, checked alone, a
  controller is stopped with one version check in flight (`MaxDue`) and another takes its place;
  the clock passes a dismissal and reaches the TTL of an attempt. `MaxClicks` bounds the buttons.
- Cart: three mutations are one confirmed, one running and one queued; three carts are one
  that expires, one created in its place and one whose creation was lost.
- Provider: eight moves over three urls with several connects waiting reorder every pair.
- `MaxCalls`: a call in the scope, one superseding it, a debounced one, and retries and
  repeats on top; with two values every "equal to the latest" pattern occurs.
- `MaxSockets = 3`, two attempts: a socket and two successors, whose close events and timers
  cross; the counter carries over and reaches its limit.
- `MaxFrames`, `MaxDrops`, `MaxChanges`, `MaxFetches`: a gap and a change on either side of
  it; two frames whose order matters, and two refetches of a board that may overtake one
  another. Guards that only bound the model: `Len(up) < MaxFrames`, `Len(down) < MaxFrames`,
  `drops < MaxDrops`, `version[m] < MaxChanges`, `Len(fetches[b]) < MaxFetches`.
- `MaxWrites`, `MaxEpochs`, `MaxMoves`, `MaxChanges`: any two of a save, an addon change and a
  move of identity, against two readers, hence two batches or a batch and a GET in flight. That
  is enough for a batch to be overtaken (the run meets readers in `overtaken`).
- Billing: two subscriptions are the one that was canceled and its successor; two handlers
  are the webhooks of both, or two of one, at once; two requests of up to two (`MaxAmount`)
  overshoot by three; one change (`MaxChanges`) besides the purchase and the trial's end makes a
  retrieval old; `MaxFree` bounds the requests admitted where no limit was applied.

Fairness, and why the code justifies it: a JavaScript timer that was not cleared fires;
a request is answered or fails (the transport of the cart has a timeout; of the payments only
the repeats and the loops are bounded, `doFetch` and the provider's `collect()` and
`handleAction()` have no timeout of their own, and that the browser and the provider end them is
assumed); callbacks run; a closing handshake ends; a socket that is
being made opens or fails; `getToken` and the provider's form answer or fail; a reload
completes. No fairness is put on users, banks, servers changing rows, drops, deploys,
activations, token changes or failures. Liveness properties excuse exactly what the code
documents as giving up (no token, attempts exhausted, close code 1008, the window of a loop)
or what the model bounds (`made = MaxSockets`, a url refused).

Every property is also run against a mutant of the code that it must reject (the
`Variant:` operators next to the definitions): a dropped guard, a missed reset, a key minted
anew, a scope read at the wrong time.

Some properties the modules define are in no run: they hold by the shape of a theorem
(`KeyIsKept`, `StaysOffIdle`, `AcceptanceIsInert`, `BackoffIsBounded`, `ReconnectingIsTrue`,
`EveryoneHearsOfAGap`, every `TypeOK`), were confirmed with the constants of a run (`Reconnects` with `realtime`;
`FormComesBack` with `payment_charge`; `ShownIsKnown` with `cart`; `EveryReadEnds` with `query` under `FairSpec`, without saves, addon changes and
symmetry), or state a promise the code does not keep (section 5).

## 4. Proofs

Each theorem holds for every value of the constants that satisfies the module's
assumptions: any number of calls, readers, tabs, carts, keys, boards, subscriptions. TLC
checked each invariant below on the instances of section 3 before its proof. Where a theorem
has a hypothesis of its own (only some about the hook and `AloneOneAttempt` have), it is the
constant or the condition section 2 explains, and the run of that property has it too. The
theorems about a history module hold of every behaviour of the component: a history variable
excludes none. Every invariant and every action property of a passing run
is a theorem, and so is the refinement.

`OptimisticMutationProofs.tla`
- `OrderIsInvariant`: `OrderInv`. The properties are not inductive alone: that an answer
  whose `seq` is the newest leaves nothing behind needs the envelopes of the scope to
  carry increasing numbers below `seqRef` (`CallOrder`) and the newest number to be the
  debounced envelope or else the last of the scope (`LatestIsLast`).
- `NothingIsForgotten`: type correctness and `NothingOutstandingWhenSettled`.
- `SettledShowsServer`: with `Reconcile` and without mid-write refetches,
  `SettledIsServer`, from `ServerInv` (no answer in flight is older than the server
  unless a newer write is on its way).
- `LatestCallIsShown`: without mid-write refetches, `ShowsLatestCall`. It assumes
  of `options.optimistic` that showing a call twice changes nothing; a toggle does not
  satisfy that, and for it the property would not mean what it says.
- `LastClickIsAlwaysWritten`: `LastClickIsLastWrite`, without any hypothesis, from `ClickInv`.
  A click that repeats the pending value is ignored, so the last click need not be a call:
  the invariant ties what was clicked last to the pending value, the pending value to the
  debounced envelope or else the last of the scope (`LatestIsPending`), and an answer about to
  be told to the first of the scope, the last write the server saw.
- `HookImplementsScreen`: every behaviour of the hook is one of `WriteScreen`, step by step
  (a call that leaves for the scope is a stutter, for the debounced envelope and the scope
  together are the calls). `ScreenInv` says what the rollback point is: the last value the
  server told, or nothing when nothing was loaded. Three hypotheses, the contract of
  `WriteScreen`: the caller reconciles, no refetch starts during a write, and a patch of a
  resource that is not loaded shows nothing. Without the last, a failed first write has
  nothing to roll back to (section 5).

`QueryBatchProofs.tla`
- `BatchInvariant`: `BatchInv`. That a landing answer is remembered for the right identity
  needs to know, of every POST in flight, that its scope is unknown or the identity it was
  sent for, that an unknown scope sends no etags, and that its readers wait for it
  and for it alone (`PostIsItsOwn`, `PostsAreApart`); a POST that ends must not disturb
  the others' readers. Caches are handled by one notion, `CacheTrue(c, e)`, which every
  way of dropping answers preserves (`DropsAreTrue`).
- `RememberedIsTrue` (`TypeOK`, `RememberedBelongs`, `RememberedIsCurrent`),
  `WindowAlwaysTimed` (`WindowIsTimed`), `HandedToItsOwner` (the action property
  `HandedInScope`). Batches out of order concern the age of rows only, never whose they are.
- `ListsAreFresh`: `RowsAreFresh`, from `AgeInv`. An answer on its way is no older than what its
  readers waited for (`AnswersAreFresh`); but a `not_modified` part is answered with what is
  remembered when it lands, so the invariant needs that, unless the batch was overtaken, no
  remembered list is older than one whose etag is in flight (`HeldIsNewer`).

`WebSocketProofs.tla` holds the theorems about both connections of `packages/websocket`, the
pooled one and the provider's: it extends `ChannelClient` and `WebSocketProvider`.
- The channel pool: `ChannelInv` = `PoolInv` (types, numbering, counters and timers, which no
  crossing disturbs) and, unless the entry was `crossed`, `EntryInv`. A connection that is not
  the entry was given up (`GivenUp`): it is on its way to be closed, no timer of it will
  reconnect, and a socket that still opens is closed by its `open` listener and calls nobody. The
  entry calls exactly the subscribers, and is closed only while the timer that replaces it runs
  (`EntryIsTrue`). Neither half is inductive without the other. Connections are numbered as they
  are made (`Numbered`), which keeps a new handler set apart from every old one. Theorems:
  `OneConnectionAlways`, `SubscribersAlwaysHeard`, `BackoffAlwaysBounded` (`BackoffIsBounded`,
  `ReconnectingIsTrue`).
- The provider: `ProviderInv` adds to the properties that at most one socket has handlers
  (`AtMostOne`), that while one has, no manual close is in force (`AliveIsArmed`), and that a
  provider turned off while nothing waited has nothing left (`IdleIsIdle`). Theorems:
  `ProviderIsTyped` (attempts within their bound, a timer only while one is left),
  `OneSocketAlways`, `OpenIsAlwaysKept`, `OpenIsAlwaysTrue`, `OffStaysOff`.

`RealtimeClientProofs.tla`
- `HubAlwaysHearsThePage`: `TypeOK` and `HubHearsThePage`, for any boards and lists, from
  `PageInv`. The counter of a model is a number and the claim is about sets, so the
  invariant says what is counted: the pairs of a mounted board and a mention of the model in
  its list (`References`), of which the counter is the cardinality. A model is announced with
  its first reference and given up with its last, also when one list names it twice. What the
  hub will forward is the last word about each model among the frames on the wire
  (`WillForward`); the lemmas `AppendForward`, `TailForward`, `FirstForward` say what sending
  and reading a frame do to it.
- `NothingIsEverMissed`: `NothingMissed`, from `CatchUpInv`. A board that lists a model and is not
  `unsure` shows it as it is, or the news is somewhere on its way (`OnItsWay`): a frame, a
  gap that ends in a resync, a running debounce timer, or the last refetch in flight.
- `EveryoneAlwaysHearsOfAGap`: `EveryoneHearsOfAGap`, for a listener without models too, unless
  nobody on the page lists one.

`UpdateControllerProofs.tla`: `UpdateInv`. The loop guard is a statement about a storage that
controllers, of several tabs and stopped ones among them, write over one another, and its
invariant is a count: the attempts of a burst at the waiting worker, plus the controllers that
still remember the worker it replaced (`Behind`), are at most the controllers there are in the
open tabs (`Here`); and an attempt no longer on record was erased by one that is not behind any
more (`Burst`). With that, an acceptance is never younger than its attempt (`StampedTogether`) and
only a controller that applied reloads. Theorems:
`UpdateIsTyped`, `OneReloadAlways`, `NoAttemptLoop` (`AttemptsAreBounded`),
`AloneOneAttempt` (one controller, one attempt), `AcceptanceAppliesNothing`, `NeverAppliedSilently`.

`StorefrontCartProofs.tla`: `CartInv` = `TypeOK`, `Asked` (one request, about the cart it
asked for), `Owned` (a cart that is alive and not given up is the persisted one or that of a
creation under way), `Forgotten` (after an idle `clear` nothing under way can bring a cart
back but an add), `Known` (a layer belongs to a queued mutation; what is confirmed is what
the store has or its answer is under way). Theorems: `CartIsTyped`, `OneCartAlways`,
`ClearForgetsWhenIdle`, `QuietShowsServer`. The action property `NothingElseRollsBack`
(`OthersAreNotRolledBack`) also needs `Grown`: no answer under way holds a line the store's
cart lacks, and that of the running mutation has them all, so that an answer never takes
away what an earlier one confirmed.

`EmbeddedPaymentProofs.tla`: `PayInv` = the page's shape (`PageInv`: a call beyond the
tokenisation has the key of the session storage; no loop runs under a submit; a challenge
that was left is being verified; a charge that may be retried has its key), the service's
(`ServiceType`), `TokenInv` (a card goes, went or may go out under one key, counting the
requests, the attempts, the call and what `retry` would send: `Uses`) and `ChargeInv`. Most
steps of the page share one lemma, that they keep `PageInv`, send no card under another key
and approve only what they read to be paid (`PageStep`). `HistoryInv` says of keys, unless one was
misread, that the key in the storage is the newest, and that every other one on its way was
answered or recorded. Theorems: `PaymentIsTyped`, `NoKeyBesideTheUnknownEver`, `ApprovedIsAlwaysPaid`, `OneKeyPerCardAlways`, `KeyAlwaysKept`,
`UnknownAlwaysStays`, `LeftAlwaysStaysLeft`.

`BillingProofs.tla`: `BaseInv` = types, `Known` (only a subscription Stripe has is spoken of by a
webhook) and `InBounds` (what was counted and what still runs, together, stay under the limit by
what runs and what was let through unchecked), which holds over every interleaving of requests,
failures of the database and of the month. `SyncInv` is about handlers that nobody was beside:
what one looked up is still so when it writes (`OneRow`, `Looked`), and what it retrieved is
Stripe's status unless another webhook is on its way (`Fresh`); those that had company are at a
`raced` subscription (`Crowded`). A row that says canceled says it of a subscription that is
(`Canceled`, `SeenKept`). Theorems: `BillingIsTyped` (`OvershootIsBounded`), `RowsAlwaysFollow`,
`CanceledAlwaysStays`. None has a hypothesis.

Model-checked only: liveness, which is out of TLAPS's reach here (`EveryCallSettles`,
`Converges`, `IdleSocketCloses`, `SubscribersReconnect`, `CatchesUp`, `Recovers`,
`UpdateSettles`, `QueueDrains`, `NeverStuck`), and the two violations of section 5. What
happens outside a hypothesis (`~RefetchMidWrite`, `Reconcile`, one controller) is not covered by
the theorem that has it, and what happens to those a history variable names is not covered by
the property that excuses them: section 5 says what goes wrong there.

## 5. Where the code differs from what it says

Two are runs that TLC ends with a counterexample; `PROJECT.json` "findings" quotes the lines.

1. `payment_another_key`: "a payment whose outcome is unknown is NEVER charged with another
   key" (`resilient-transport.ts:5-6`). The status read after a lost charge tells the
   checkout's last attempt; if that is an earlier refusal, it passes for the answer, the key
   is given up and PAY sends another one while the lost charge may still arrive. Only the service
   keeps the buyer from paying twice then: it refuses an attempt while another is open or paid.
   It is the only way to it: `NoKeyBesideTheUnknown` says so of every other behaviour.
2. `billing_latest`: the second of the two webhooks of a checkout saves the row without its
   `created_at` (`billing.go:473`), and `loadSubscription`, "the org's most recent
   subscription row", returns the row seeded at registration.

The others were found with TLC too, by checking the named property with the constants given
and no run kept:

- Optimistic hook. `SupersededFailureIsMoot` (partial writes, `Reconcile = FALSE`): the patch
  of a rejected older write stays on the screen after the newer write is confirmed
  (`use-optimistic-mutation.ts:138-140`). `RolledBackToConfirmed` fails on the replacing
  instance: a failed write over an entry that was never loaded has no rollback point (`:142`).
- Channel pool. `OneConnectionPerChannel`, `SubscribersAreHeard`, `IdleSocketCloses` and
  `SubscribersReconnect` speak of a channel that is not `crossed`: without that they fail. `onclose` and the timers delete the entry of the channel even if it is
  another connection's (`channels.ts:147`; the header, 5-6 and 10, promises one socket). A
  subscribe or send during the handshake or the backoff makes a connection with an empty handler
  set (`:175`), and earlier subscribers hear nothing more (11, 49-53). When the last handler leaves
  in the last 100 ms of the backoff, the reconnect timer makes a socket for nobody, the close timer
  of before deletes its entry, and nothing closes it (134-144, 203-223).
- Realtime. `NothingMissed` excuses boards that are `unsure`: `fetchData` of the kanban takes a
  generation token but does not compare it before `setRecords` (`dynamic-kanban.tsx:1278`, against
  1082-1084), so an older refetch may land last; what changes before the first open is told by
  nobody and nothing resyncs; a failed refetch is never retried. A subscriber without models does
  not hear of a gap unless somebody else counts a model.
- Query batch. `RowsAreFresh` excuses readers that were `overtaken`: a `not_modified` part is
  answered with whatever is remembered when it lands, not with the copy whose etag was sent
  (`query-batch.ts:354`, against `api-context.tsx:138-139`), and that may be the older answer of a
  batch sent before. The narrowing of `in:` lists never takes effect: its cache is filled only by
  reads that were already narrowed. A read under an unknown scope is answered with no identity
  check but the server's own.
- Updates. `OneAttempt` fails with two controllers (`pwa/README.md:173` says at most one attempt
  per TTL and waiting worker): a tab that remembers the replaced worker erases the attempt another
  tab stored of the new one (`update-controller.ts:206-213`). With one controller it is a theorem.
  `stop()` does not cancel a version check in flight: its late answer makes the stopped controller
  evaluate, and it may apply the update and reload the page (291-306 against 362-374).
  `AcceptanceIsInert`, also a theorem, says that a stored acceptance never applies anything by
  itself, against `update-policy.ts:26-30`. After a reload a replaced worker inherits the age and
  the dismissal of the old one (`seenWaiting` is lost); `stop()` while applying drops the pending
  reload; a reload the user cancels leaves the controller applying for ever.
- Cart. `ClearForgets` ("forgets the cart", `cart.tsx:46`) fails for a `clear` during a
  mutation, whose answer brings the cart back (`:323`), and `CartIdIsPersisted` (`:145`) for a
  hydration that lands after a mutation confirmed another cart (`:259`).
- Provider. `StaysOff` fails: a disconnect, a null url or an unmount while a connect awaits
  its token is overtaken by it (`provider.tsx:167`; the README of the package: "`null`
  disconnects"). A late token of an old url replaces the newer socket; after `reconnect()` a
  url that `buildUrl` refuses shows CLOSED over an open socket.
- Payments. `IdleHasNoForm` (`use-embedded-payment.ts:28`): a form mounted again while the
  submit tokenises leaves "idle" over a form whose PAY is dead. `NoRedirectOverACharge`: a
  form that breaks while the charge is sent falls back to a redirect. A 429 to a repeat ends
  the verification; `dismiss()` (834-837) during the verification ends it too.
- Billing. `RowsFollowStripe` excuses subscriptions that were `raced` ("Upsert by stripe
  subscription ID", `billing.go:442`): the two webhooks of a checkout at once both find no row and
  make two, of which later ones update one; or the older retrieval is written last, and then it
  may also revive a canceled row, which is what `CanceledStays` excuses. A synchronisation that
  fails is answered with 200, so Stripe does not repeat it. `Save` also resets `dunning_stage`
  (`models/subscription.go:44-54` wants a warning not to be sent twice) and `created_by_id`. A
  request is admitted whatever it costs when the database does not answer
  (`middleware/billing.go:63-70`, 266-273), and the counter is bounded only apart from that.

Where a property needs an assumption against one of these, it is no constant of the model: the
behaviours stay in, and the property names those it excuses by a history variable (`crossed`,
`unsure`, `overtaken`, `raced`, `misread`) or a ghost (`~late`, `forgot = "idle"`, `off = "idle"`).
The exceptions are `RefetchMidWrite` and `Reconcile` of the hook, which are choices of its caller.

## 6. What is not modelled

- Of the hook: two instances on one query key, an editor closed and opened again while its
  write is in flight (they share the mutation scope but not their refs). Of the realtime
  bridge: the status feed, the `transportFromHostSocket` adapter, the `*` model and
  addon-qualified names, `useRealtimeInvalidate`. Of the query batch: `in:` lists, token
  parsing, the retry of a request whose addon state was stale. Of the cache scope: decoding
  of tokens and storage events of other tabs beyond their effect on `scope`.
- Of the provider: the dispatch of messages, and a provider without `getToken`, whose connect
  is one step. Of the cart: quantities and prices. Of the payments: vouchers, redirects,
  expired and cancelled outcomes, cash, a blocked session storage, `usePaymentRecovery`,
  `dismiss()`; an unmount and a mount of the section is taken for a reload. Of the updates:
  a clock that goes back, storage that throws.
- Of billing: customers (`EnsureCustomer` looks and then creates, so two checkouts at once may
  make two), checkout and portal sessions, the synchronisation of plans, feature gates, counts
  of resources, the reload of the key.
- Registries and hot swap of add-ons: synchronous maps; what is asynchronous there is the
  module federation runtime, a library. Screens, drawing, generated types and validators (the
  largest files of the repository) hold no protocol state.
- Time: timers are actions and only their order matters, except in `UpdateController`, which
  has a clock.
- The server beyond what the client sees of it, and rendering.

## 7. Plan

Done: the modules of section 2, their runs, and proofs about each of them. Next, in this
order:

1. `Converges` and `SupersededFailureIsMoot` of the hook for callers that reconcile: what a
   refinement of `WriteScreen` says about the screen once calls end.
2. Two instances of the hook on one mutation scope, composed from `OptimisticMutation`.
3. Billing customers and sessions, with the second checkout the code does not prevent.
4. Registries and hot swap: owners and unregistration while a remote is being loaded.
