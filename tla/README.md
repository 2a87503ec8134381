# Verification of the shop service

TLA+ models of the shop (a Go service that sells articles for Ether), with TLC
configurations for small instances and TLAPS proofs. The code is under `src/`;
line numbers below refer to it. `PROJECT.json` maps every definition to the
lines it stands for.

- [1. The system](#1-the-system)
- [2. Modules](#2-modules)
- [3. Runs: what is checked and what it shows](#3-runs)
- [4. Where the code and its comments disagree](#4-where-the-code-and-its-comments-disagree)
- [5. Proofs](#5-proofs)
- [6. Abstractions, bounds and fairness](#6-abstractions-bounds-and-fairness)
- [7. What is not modelled, and the plan](#7-what-is-not-modelled-and-the-plan)

## 1. The system

One Go process (`main.go`) serves pages (`internal/ui`) and a JSON API
(`/api/v1`), every request in a goroutine of its own. Several processes may
share one database. There are two interchangeable backends, chosen by
`SHOP_DB_TYPE`; the handlers only know the two `Repository` interfaces.

| Component | State it keeps | Operations that change it | Talks to |
|---|---|---|---|
| **Stock, Redis** (`orders/repository_redis.go`, `articles/repository_redis.go`) | article documents, `articles:index`, order documents | `orders.Create` (WATCH, GETs, MULTI/EXEC, up to 5 attempts), article `Create`, `Update` (GET then SET), `Delete` (DEL then ZREM) | Redis |
| **Stock, PostgreSQL** (`*/repository_pg.go`, migrations 001, 002) | `articles`, `orders`, `order_items` | the same four; `orders.Create` is a transaction of an INSERT and an UPDATE per item | PostgreSQL: row locks, foreign key, CHECK, deadlock detector |
| **Settlement** (`payment/handler.go` `verify`, `ui.checkoutCancel`, `UpdateStatus` of both backends) | `status`, `tx_hash`; on PostgreSQL the unique index of migration 003, on Redis the reservation keys and pending sets | verify (Get, chain check, UpdateStatus), cancel (Get, UpdateStatus) | the backends, the Ethereum node |
| **Ethereum verification** (`payment/eth.go`) | none of its own: three reads of a chain that moves | `VerifyPayment` | an Ethereum node |
| **Carts** (`cart/cart.go`) | a map in memory from wallet to lines and last update; the gauge its observer sets | `Add`, `Remove`, `Clear`, the janitor's `EvictExpired` | mutex, clock, stop channel |
| **Checkout** (`ui.checkoutCreate`, `orders.Handler.create`) | none of its own: a cart it has read, an order it builds | pending check, cart `Get`, article `Get`s, `orders.Create`, cart `Clear` | carts, repositories |
| **Migrations** (`db/migrate.go`) | `schema_migrations`, an advisory lock, the connection pool | `RunMigrations` | PostgreSQL, the other processes that start |
| **Server lifecycle** (`main.go`, `server/server.go`, `handlers/health.go`) | the ready flag, the listener, the cancelled context | start, `Run`, drain, shutdown, readiness probe | load balancer |
| **Listings** (`List` of the repositories, `ui.adminOrders`) | none: an administrator follows links whose offsets were computed on the page before | reads only | backends |
| **Rate limiter** (`middleware/ratelimit.go`) | a token bucket per host | `Allow`, `Reap` (never called) | mutex, clock |
| **Metrics** (`internal/metrics`) | set and gauge of the visitors of the day; counters, article gauge | `trackVisitor` after every request; updates after repository calls | mutex, clock |
| Other middleware, flash messages, configuration, tracing | none shared | – | – |

Components share state in three places: the article rows or documents (checkouts
and admins), the order (its creation, verify and cancel), and the cart (pages,
API, checkout, verify and janitor). They never lock across calls: a handler
reads through one repository call and writes through a later one.

What is hard, and what correctness means, component by component:

- **Stock.** Checkouts race for the last unit, admins edit and delete under
  them, replies get lost, attempts are retried, transactions deadlock. An order
  must appear together with the exact decrement of its articles, the stock must
  never be oversold, and the answer must be true.
- **Settlement.** Verify looks at the order, spends seconds with the Ethereum
  node, then writes; a cancellation or another verify may come between, or the
  process may stop half-way. A paid order must record a payment verified for it,
  and a payment must settle one order.
- **Ethereum verification.** The chain grows, is reorganised, or is seen by a
  node that lags, between the calls, and the price is converted by a division
  that rounds. What is accepted must be paid for.
- **Carts.** Requests and the janitor interleave, the janitor takes its cutoff
  before the lock. No live cart is evicted, no dead one kept, and the gauge is
  exact.
- **Checkout.** Every call is followed by anything. No empty order, nothing
  cleared unordered, nothing ordered twice.
- **Listings.** The count, the page and the next page are read at different
  times, from a list that grows at its front. Who follows the links must not miss
  an order that was there when he began.
- **Rate limiter and visitors.** Buckets are filled lazily, may be reaped, and
  are shared by the clients of a host; the visitors of a day are counted by
  requests that compute the day before they take the lock. No client may gain
  or lose tokens by being refused or reaped; the gauge must count its day.
- **Migrations and lifecycle.** Processes of different versions start, crash and
  stop together. Each migration runs once, no process serves without its schema,
  no draining process takes traffic, everything that starts or stops ends.

The full list of hazards, each at its line with the properties that would catch
it, is under `hazards` in `PROJECT.json`.

## 2. Modules

```
              ShopData                        SettlementData
          /      |      \                       /        \
   RedisStock PgStock StockLedger        Settlement ..> OrderBook
        \........\.........^               (implements, INSTANCE)
          (implement, INSTANCE)

   Cart ..> CartContents (implements)     Traffic ..> TokenBucket (implements)
                 ^
     Storefront (extends CartContents,    EthVerify        Startup
                 stays within OrderBook)
```

| Module | Models | State and actions |
|---|---|---|
| `ShopData` | rows, edits and baskets | operators only: `Applied` (merge of an edit), `Stocked`, `Taken` |
| `StockLedger` | **abstract**: what the two repositories promise | `shelf`, `known`, `placed`; `Place`, `Change`, `Add`, `Remove`, each atomic |
| `RedisStock` | Redis, one action per command or MULTI | `doc`, `index`, `order`; `dirty` is Redis' flag of a connection whose watched keys were written. `Watch`, `Load` (one GET), `Insufficient`, `Exec`, `TxFailed`, `Fail`; `UpdateGet`/`UpdateSave`, `DeleteDoc`/`Deindex`, `EditorDrops`, `CreateArticle` |
| `PgStock` | PostgreSQL, one action per statement | `row`, `order` are the committed state; locks and uncommitted decrements follow from how far a transaction got (`KeyShare`, `Locked`, `Decremented`). `Begin`, `InsertItem`, `ForeignKeyFails`, `Decrement`, `NoRows`, `Commit`, `DeadlockVictim`, `Fail`; `Update`, `Delete`, `Insert` |
| `SettlementData`, `OrderBook` | **abstract**: the life of an order | `status`, `hash`; `Open`, `Settle`, `Cancel` |
| `Settlement` | verify, cancel and the checkout page on either backend, and `GET /admin/orders` | `backend` says which: PostgreSQL has the unique index, Redis the reservation keys and pending sets. `Create`; `VerifyGet`, `Verified`, `Reserve` (Redis), `Settle` or `Reused`; `CancelGet`, `Cancel`; `FindIds`, `FindGet` (the page looks for a pending order on Redis); `Drop` (an error answer); `Count`, `Page` (the two reads of `List`, and the link to the next page) |
| `EthVerify` | `VerifyPayment`, `USDtoWei` and a chain | `Mine`, `Reorganise`; `TransactionByHash`, `TransactionReceipt`, `BlockNumber`, `RpcFails` |
| `CartContents` | **abstract**: what a cart store promises | `cart`; `AddLine`, `RemoveLine`, `Vanish` |
| `Cart` | `cart.Store` and its janitor | one action per critical section; `TickerFires` (cutoff) and `Sweep` (with the lock) are apart; `Tick` is time |
| `Storefront` | checkout, payment and cancellation over the cart and atomic repositories | per request: `FindPending`, `GetCart`, `GetArticles`, `CreateOrder`, `ClearOrdered` (pages); `ApiGetCart`, `ApiGetArticles` (API); `Pay`, `ClearPaid`, `Cancel`; `Expire`, `Restart` |
| `Startup` | `main.run`, `RunMigrations`, `Server.Run` for several processes | `Start` ... `Unlock`; `Run`, `SetReady`, `Listen`, `Signal`, `Drain`, `Shutdown`, `Return`; `Crash` anywhere |
| `TokenBucket` | **abstract**: what a rate limiter promises | `level`, `verdict`; `Take`, `Refuse`, `Answer`, `Refill`: tokens come back on their own |
| `Traffic` | the limiter of `POST /payment/verify` and `trackVisitor` | `Allowed`, `TooManyRequests`, `Visit` (any other route); `ReadDay` and `Track` (the calendar is read before the lock is taken); `Reap`; `Tick`, `Midnight` |

`MC*.tla` give small values to the constants, which `Cart` does not need beyond
those of its `.cfg`; `*_proofs.tla`, one for each detailed module, hold the
theorems.

Several modules have a variable that never changes and says in which
environment the behaviour takes place: `practice` in `RedisStock` (what the
admins do), `backend` in `Settlement`, `serves` and `clients` (who acts on which
orders or wallets), `image` and `pool` in `Startup`, `tx`, `total` and
`ethPriceUSD` in `EthVerify`, `reaper` in `Traffic`. A property that needs a discipline
of the environment names it in its hypothesis, and the same run also explores
the environments without it, in which every other property is checked.

A definition whose comment begins with *Mutant* is the definition below it with
a plausible bug. Nothing in the specifications uses it. Substituted for that
definition it makes TLC report the property `PROJECT.json` pairs it with, which
shows that the property depends on the code.

## 3. Runs

Run one with `tlc -config X.cfg M`. Times are for two cores.

| Run | Instance | Distinct states |
|---|---|---|
| `redis_stock` | 2 checkouts, 1 admin goroutine, 2 articles, 2 attempts, 3 practices | 739,000 (15 s) |
| `redis_lost_update` | 1 checkout, price edits only | finding |
| `pg_stock` | 2 checkouts, any admin statement, 2 articles, an invalid edit among 3 | 27,000 (5 s) |
| `settlement` | 2 backends, 3 orders, 2 transactions of which one has 2 texts, 2 request goroutines, one or many clients per order, pages of one order | 2,528,000 (54 s) |
| `settlement_cancel` | the same, any client on any order | finding |
| `settlement_spellings` | the same | finding |
| `eth` | heights up to 6, reorganisations of 2 blocks, block numbers of 4 bits, totals from -1 to 2 at 2 rates, 4 Wei to the Ether | 121,000 (2 s) |
| `eth_behind` | the same | finding |
| `cart` | 2 wallets, 2 articles, lines of 2 bits, ttl 1, lag up to 1 | 66,000 (12 s) |
| `storefront` | 1 wallet, 2 articles, 2 request goroutines, 3 orders, 2 units, 1 lost reply | 3,383,000 (69 s) |
| `startup` | 2 processes, 2 migrations, 3 images, pools of 1 or 2 | 60,000 (19 s) |
| `traffic` | 2 requests at a time, 2 senders of one host, 2 tokens, 2 ticks to a token, 2 days, with and without `Reap` | 388,000 (6 s) |

**Stock on Redis.** `PlacedAtomically`: an order appears in the step that takes
exactly its basket from a sufficient stock, and oversells none of its articles,
whatever the admins do.
`AnswerIsRight`: *ok* means stored, *refused* and *contended* mean not stored
(*error* may mean either: the reply to EXEC can be lost).
`LostToRivals`: if nobody edits, an attempt is only lost to another checkout
that did get its order, so that the bounded retry of `createMaxRetries` gives
up only under real contention. `Listed`: what the pages list is what is stored,
although a `Delete` that fails half-way leaves an index entry without a document.
`ImplementsLedger`: the backend refines `StockLedger`. The last two, and only
those, suppose `Disciplined`: edits name every field (as the pages' do) and no
article is both edited and deleted. Without it a decrement may be lost (section
4) and `Update`, which saves what it read before a `Delete`, brings an article
back without an index entry.

**Stock on PostgreSQL.** `LocksProtect`: what an `UPDATE ... AND quantity >= $1`
has checked stays true until COMMIT, by exclusive row locks. `ItemsRefer`: no
item, committed or not, lists a deleted article. `NoOversell`, even against an
edit to a negative quantity. `AnswerIsRight`. `ImplementsLedger`, for all edits
and deletions, unconditionally: here PostgreSQL is the stronger backend.
`CreateReturns` (liveness): checkouts that update two rows in opposite orders
deadlock, and both return, thanks to the deadlock detector.

**Settlement.** `PaidWasVerified`: a paid order records
a transaction accepted for *that* order and on Redis holds its reservation, any
other order records none.
`TextSettlesOne`: no two orders record the same text at a time, which on
PostgreSQL is the unique index; and on Redis a text that has settled an order
settles no other one ever, though the order may have been cancelled or paid again
since. The model keeps that history in `settledBy`, which every write adds to
and nothing but the property reads. On PostgreSQL the second half is not true and
not claimed: a cancellation writes a NULL, and the index forgets the text.
The code records the text of the request and not the hash it checked. `HashOf`
tells the two apart and is any function: in the runs two of the three texts have
the same hash, so that a payment may settle two orders, and does (section 4).
`ImplementsOrderBook`: if
every order is acted on by one client, one request at a time, orders live as
`OrderBook` has it, failures half-way and leftover reservations included.
With two clients they do not (section 4). `FoundIsPending`: under the same
condition the checkout page on Redis, which finds an order in the pending set and
reads it by another command, offers pending orders only.

**Listings.** `WalkMissesNone`: an administrator who follows the links from the
first page to the last has seen every order there was when he began, although
new orders push the others to later pages; unless an order came between the count
of a page and the page itself, which are two commands on Redis and two
snapshots on PostgreSQL (section 4). It is part of the `settlement` run.

**Ethereum.** `AcceptedIsPaid`: while the chain only grows, an accepted
transaction is in a block buried deep enough, now and later, although the block
number is read after the receipt; however the chain moves, the recipient is
right, the amount is less than one Wei short of the order's total at the rate,
and the number of confirmations can be wrong only by the wrap-around of section 4.

**Carts.** `TypeOK`: no empty cart is stored. `ObservedExact`: the observer is told of a new
entry, a last line, a clear, a sweep, and of nothing else, and that is enough
for the gauge to be exact at all times. `RecentSurvive`: a sweep takes only
carts older than the ttl, even those touched while it waited for the lock.
`AbandonedExpires` (liveness): an untouched cart goes. `ImplementsContents`: the
store refines `CartContents`, overflow of a line included.

**Storefront.** `TypeOK`: no order is empty, although pages skip articles they
cannot read.
`ClearedIsOrdered`: what a checkout clears from a cart is in an order with the
same quantity, except (and the exceptions are real) lines added to since the
cart was read, and lines whose article could not be read.
`OnePendingOneByOne`: requests that come one after the other leave one pending
order, even when the reply of Create is lost. `PendingPerRequest`: the pages leave
a wallet no more pending orders than it has requests at a time. The check for a
pending order and the creation are apart, so that two submits at once do create
two (section 4), but no submit that begins while one of them is pending adds a
third; the run has three orders and two goroutines to tell. `NoUnitTwice`: if requests
come one after the other and at most one reply is lost, no unit is both paid for and left in
the cart to be ordered again; it is the `Clear` after a payment that makes this
hold. With two lost replies (Create's and then UpdateStatus's) it fails, which is
why the bound on lost replies is part of the property.

**Startup.** `SerialisedByLock`: what a process read in `schema_migrations` is
still so at the file it is about to run. `RunOnce`: no version runs twice,
crashes and lost commit replies included, and versions run in order when no image
has gaps. `ReadyIsMigrated`: a process that says it is ready has every one of its
files in the database, unedited.
`StartReturns` (liveness): starting ends if all pools have two connections.
With one, which the configuration accepts ("must be > 0", `config.go:103`),
`RunMigrations` holds it for the advisory lock and waits for another for the
migration, for ever, and the other processes wait for its lock. `SignalStops`
(liveness): a signal ends a process wherever it is, even in that wait.

**Traffic.** `ImplementsTokenBucket`: seen from outside, a host has a bucket of
`burst` tokens that fills by itself; that the code fills it only when it is
asked, that a refusal moves `lastFill`, that a full bucket is capped and that
`Reap` may drop it, cannot be told from the answers. This needs `idleExpiry` to be
no shorter than a complete refill, which holds of the server's values.
`VisitorsCounted`: the gauge is the size of the set, all of one day, and complete
for that day unless a request that had read the calendar before midnight took the
lock after one that read it later: the set is then emptied twice, and the new
day's first visitors are forgotten.

## 4. Where the code and its comments disagree

Each is a run that TLC ends with a counterexample.

1. `redis_lost_update`, `UpdateMergesFields`. On Redis an edit of the price
   writes back the quantity it read; a checkout in between is undone.
   `articles/repository_redis.go:138`: "Mirror the Postgres COALESCE/NULLIF
   semantics: only non-zero fields overwrite the stored value".
2. `settlement_cancel`, `OnlyPendingFails`. A cancellation that read a pending
   order marks it failed after it was paid, and erases its tx_hash.
   `ui/ui.go:379`: "marks a pending order as failed". The counterexample is on
   PostgreSQL; on Redis the steps are the same.
3. `eth_behind`, `ConfirmedEnough`. A node whose head is below the receipt's
   block makes `latest - receipt.BlockNumber.Uint64()` wrap, and the check
   passes. `payment/eth.go:72`: "has at least minConfirmations confirmations".
4. `settlement_spellings`, `PaymentSettlesOne`. `verify` checks the hash that
   `HexToHash` makes of the text, which is the same for several texts, and records
   the text. Each text of a transaction settles an order that it covers, on either
   backend and without any overlap of requests. Migration 003, line 1: "Prevent the
   same on-chain payment from settling two orders."

Five more were met while modelling and have no run of their own:

- `ui/ui.go:337`, "idempotent POST — protects against double-submit and
  accidental reload": two submits at once both find no pending order and both
  create one. `PendingPerRequest` is what the check does give.
- `handlers/health.go:48`, "Returns 503 until the server has fully initialised or
  after graceful shutdown begins": the goroutine of `Run` sets the flag
  (`server.go:129`) and `Run` clears it (`:142`) when it is told to stop. If that
  is before the goroutine has run, a draining process is ready until `Shutdown`
  closes the listener. A probe also reads the flag before its ping and
  answers 200 after it (`health.go:51` to `:69`), whatever happens meanwhile. `Startup`
  has the first window (`SetReady` after `Drain`) and not the steps of a probe;
  no property is stated, since one that excepts both windows would say no more
  than that `Run` clears the flag.
- `orders/repository_pg.go:87`, "Use a snapshot transaction so the count and the
  page belong to the same point-in-time view": the transaction is begun
  READ COMMITTED, where each statement has a snapshot of its own. In the model it
  is `torn`, the exception `WalkMissesNone` makes for both backends.
- `middleware/ratelimit.go:18`, "the janitor below trims idle buckets": nothing
  calls `Reap`, so that `buckets` only grows. `Traffic` has behaviours with
  and without it.
- `metrics/middleware.go:11`, visitors are "unique (IP + UA + date) tuples": the
  key has `r.RemoteAddr`, which includes the port, unless a proxy sets
  X-Forwarded-For. `Senders` are such addresses, `Hosts` are what the limiter uses.

## 5. Proofs

`tlapm` proves the following for all values of the constants: any number of
checkouts, admins, requests, articles, orders, texts, processes, attempts and
days. The only assumptions are the `ASSUME`s of the modules (types of the
constants, that sentinels such as `NoArticle` are not data, that sets which are
counted are finite, and `idleExpiry` as above), which TLC evaluates in every run,
and the hypothesis that `Conservation` names itself: baskets are finite.

| Theorem | Says | By |
|---|---|---|
| `RedisStock_proofs!TypeCorrect`, `CheckoutsCoherent` | `TypeOK`, `Coherent` | `IInv` |
| `!Atomicity` | `PlacedAtomically` | `IInv`, at `Exec`: a connection that is not dirty has loaded what is stored |
| `!Answers` | `AnswerIsRight` | `IInv` |
| `!Contention` | `LostToRivals` | `Paced`: if nobody edits, a checkout has lost no more attempts than rivals have placed orders, and fewer while a write to what it watches is still to cost it one |
| `!Listings` | `Listed` | `IInv` and, for disciplined practices, `DraftsStand` |
| `!Refinement` | `ImplementsLedger` | `IInv` and, for disciplined practices, that a draft is of an article that nobody deletes (`DraftsStep`) |
| `!Conservation` | units are sold or in stock: from any time on, while no save writes another quantity of an article (or brings it back), units sold and units left add up to the same number | `Balanced`, beside `IInv`: an EXEC moves exactly its basket |
| `!BoundedCreate` | a checkout of *n* articles returns after at most `createMaxRetries` * (*n* + 2) commands of its own | `AttemptsLeft`; `Remaining`, which its steps lower and nobody raises |
| `PgStock_proofs!TypeCorrect`, `Protection`, `StockStaysPositive`, `References` | `TypeOK`, `LocksProtect`, `NoOversell`, `ItemsRefer` | `IInv` |
| `!Answers` | `AnswerIsRight` | `IInv` |
| `!Refinement` | `ImplementsLedger` | `IInv`; `CommitTakes`: the decrements of a transaction that has all its items are its basket |
| `!Conservation` | the same of PostgreSQL, while no admin writes the quantity of the article; no more is sold than there was | `Balanced`, beside `IInv` |
| `!BoundedCreate`, with `NoDeadlock` | it returns after at most 2*n* + 1 statements, and checkouts that wait for nobody outside their group cannot all be stuck in it | `Remaining`; the deadlock detector |
| `Settlement_proofs!TypeCorrect`, `Verification`, `PendingSets` | `TypeOK`, `PaidWasVerified`, `PendingExact` | `IInv` |
| `!OneOrderPerText` | `TextSettlesOne`, the history of Redis included | `UniqueIndex` and `HeldForever`, parts of `IInv`: an order holds the reservation of every text it was ever settled with |
| `!CompleteWalk` | `WalkMissesNone`, for lists and pages of any length | `Leafed`, part of `IInv`: ranks only grow |
| `!PendingOffered`, `Refinement` | `FoundIsPending`, `ImplementsOrderBook` | `StillPending`: with one client an order stays pending while a request is about it |
| `EthVerify_proofs!Payment` | `AcceptedIsPaid`, for every modulus, price and rate | `Checked`, and `PriceInWei`: the division takes less than one Wei |
| `Cart_proofs!TypeCorrect`, `Observation`, `Survival` | `TypeOK`, `ObservedExact`, `RecentSurvive` | `IInv` |
| `!Refinement` | `ImplementsContents` | `IInv` |
| `Storefront_proofs!TypeCorrect`, `OneAtATime` | `TypeOK`, `OnePendingOneByOne` | `IInv` |
| `!AsManyAsRequests` | `PendingPerRequest`, for any number of requests at a time | `Limited`: the pending orders of a wallet and the requests that may still create one are together no more than the goroutines that serve it |
| `!Clearing` | `ClearedIsOrdered` | `IInv` |
| `!OrderedOnce` | `NoUnitTwice`, for any number of articles, orders and units | `Account`: `IInv`, `Serving` and `Funded` (below) |
| `!CartsAsPromised` | what checkouts, payments and restarts do to carts is in `CartContents`, which `Cart` implements | the steps, one by one |
| `!OrdersAsPromised` | what checkouts, payments, cancellations and restarts do to orders is in `OrderBook`, which `Settlement` implements with one client per order | `OrdersFit`; orders numbered as they are created, and each paid by a transaction of its own, for the storefront has no texts |
| `Startup_proofs!TypeCorrect`, `Once`, `Serialised`, `Readiness` | `TypeOK`, `RunOnce`, `SerialisedByLock`, `ReadyIsMigrated` | `IInv` |
| `!NoDeadlock` | the instance that keeps another from starting, or itself, can go on, if its own pool has two connections | `IInv`: who holds the lock is past waiting for it, and a version it is about to run is not recorded yet |
| `!BoundedStart` | starting takes an instance at most 2 `Last` + 5 steps | `Remaining` |
| `Traffic_proofs!TypeCorrect`, `Visitors` | `TypeOK`, `VisitorsCounted` | `IInv` |
| `!Refinement` | `ImplementsTokenBucket` | types, and that a bucket that may be reaped is full |
| `!Allowance` | counted from any time on, a host is allowed at most the burst and what its bucket has regained since | `Budget`: requests allowed, at their price in `Grain`s, and the level fit in a full bucket and the ticks since |

Why the inductive invariants are what they are:

- *RedisStock.* `TypeOK`, `AttemptsLeft`, `NotPlacedYet`, `BornFirst` and
  `Coherent`. `PlacedAtomically` speaks of the step
  `Exec`, which writes the loaded documents less the basket; that this is the
  basket taken from the *stored* documents is `Coherent`, which every write to
  Redis must preserve by marking the connections that watch the key
  (`WriteKeepsCoherent`, one lemma for all writers). `AnswerIsRight` needs that a
  checkout on its way has not placed its order yet (`NotPlacedYet`), and the
  refinement that a stored document has an identifier that was generated
  (`BornFirst`).
- *PgStock.* `LocksProtect` is preserved by another checkout's COMMIT because what
  that one takes is under its own locks, disjoint from these (`LocksLocal`,
  `LockSets`); `NoOversell` at COMMIT follows from `LocksProtect`, and
  `ItemsRefer` at DELETE from the KEY SHARE lock of the foreign key.
- *Settlement.* A request that is past the chain check carries a text accepted
  for its order; on Redis it also holds the reservation (`Prepared`), which is never
  given up, not even by a cancellation (`HeldForever`). `Leafed` says that every
  known order above the offset has been
  shown: orders only move down the list, and an order that moves across the
  offset is shown again rather than missed.
- *EthVerify.* `Checked`: what the calls so far have established about the block
  of the transaction, for as long as the chain only grows.
- *Storefront.* What each request believes, point by point: its order is made of
  lines of the cart it read (`Chosen`), a line of that cart has changed only by
  additions that `touched` names or by going away (`Since`), its order is there
  before it clears (`Made`), and if the wallet's requests come one by one no other
  order is pending (`Alone`).
  `NoUnitTwice` is a sum over orders. `Units` makes it the cardinality of a set,
  so that the library's facts about finite sets take the place of an induction:
  a new order adds as many elements as it has units, a payment moves
  them, a cancellation removes them. What is ordered, together with what
  may be ordered yet, fits in what was added, and `Funded` says so in three ways, each
  of which fails at some point where another takes over. All orders fit, always
  (`AllFit`). Until a reply is lost, they fit together with the cart, but for
  the moment between a creation and the clearing (`AllFitWithCart`).
  The paid orders fit together with the cart, but for the moment between a
  payment and the clearing (`PaidFitWithCart`), and with the cart a request has
  read (`PaidFitWithRead`), which is what an order is made from, at a time when the wallet has no
  pending order. A payment whose reply is lost, and which therefore clears
  nothing, is the step from the second to the third: the order it pays fitted
  beside the cart. If the reply of its creation was lost as well, it did not,
  which is why two lost replies are too many.
- *Startup.* What each process holds at each point (`Held`), what its loop has
  done and read (`Migrating`), that it is not ready before it has migrated (`Serving`), and that
  `schema_migrations` records exactly what was run (`Recorded`). `Held` makes the
  lock exclusive, without which `Migrating` is not preserved by another's COMMIT;
  and `NoDeadlock` needs that a file was found unapplied when its transaction
  began, so that the primary key of `schema_migrations` never stops it.
- *Conservation* in both stocks. `Balanced` counts the units sold as the
  cardinality of a set of numbered units of orders, which is finite at all times
  because it begins empty and an order adds a basket (`FinitelySold`, which needs
  no bound on the checkouts); the theorem starts at any state of a behaviour and says nothing of
  what was there before. Its hypothesis is about the admins' writes only,
  checkouts are free to do what they do: on Redis the edits
  of section 4 break it, by writing back a quantity they read before a sale.
- *Traffic.* `DaysKept`: a visitor is filed under his own day, and as long as no
  request is late `visitorDay` is the last day that has any.

Only model-checked: the liveness properties `CreateReturns`,
`AbandonedExpires`, `StartReturns` and `SignalStops`, since the prover does not
handle fairness and ENABLED. What they rest on is proved, for any number of
processes: `BoundedCreate` and `BoundedStart` say that nobody goes on for
ever, by a number that each step lowers and no step of another raises, and the
two `NoDeadlock`s that nobody waits for ever, with the guards of the steps
spelled out (`CanGoOn`) in the place of ENABLED. Fairness has to add only that who
can go on does. Every invariant, action property and refinement of
the passing runs is proved. `Conservation`, `Allowance`, `CartsAsPromised`,
`OrdersAsPromised` and these are proved only. The widths are constants of the modules (`Half`,
`Modulus`) of which the proofs use no particular value.

## 6. Abstractions, bounds and fairness

- *Articles.* `price` stands for every field other than the quantity; edits
  treat them alike. A basket has one line per article, since carts are maps, and
  its quantities are positive. A line of a cart that has overflowed may not be
  (`Cart` has such lines): what a checkout of one does to the stock is outside the
  stock modules, and no result of theirs speaks of it.
- *Commands.* A Redis command or MULTI block, a PostgreSQL statement and a
  critical section are atomic. SETNX and the GET that follows it are one step
  because reservation keys are never deleted. A transaction of a migration is
  one step from its statements to COMMIT, the advisory lock keeping others out.
  The lock and the transaction are on two connections (`migrate.go:47`, `:124`),
  which in the model end together, with the process (`Exit`): that PostgreSQL loses
  the connection of the lock alone, and lets another process in, is not modelled.
- *Failures.* A call may fail before it has its effect (`Fail`, `Drop`,
  `EditorDrops`, `RpcFails`), or its effect may stay and the reply be lost (`Exec`,
  `Commit`, `CreateOrder`, `Pay`, `CommitLost`). A handler that fails and a process
  that stops look the same to the database. `Restart` in `Storefront` and
  `Crash` in `Startup` are the process stopping where memory matters.
- *External systems.* Row locks, foreign key, unique index, deadlock detector
  and advisory lock of PostgreSQL, WATCH of Redis and the chain are modelled by
  the documented behaviour the code relies on, and marked external where the
  definition has no counterpart in `src/`.
- *Identifiers* are fresh (`uuid.New`): `born`, `known`.
- *Numbers.* `createMaxRetries` is 5 in the code and 2 in the configuration:
  with two checkouts, a first attempt that fails and a last one are both there.
  `minConfirmations` is 1 as in the code.
  Amounts of dollars are integers in a unit that divides the total and the rate;
  the code computes with exact rationals, so that the unit does not matter.
  Tokens, floating-point in the code, come back in `Grain` steps each, so that a
  bucket may hold part of a token. An age is cut at the first value at which
  nothing distinguishes older ones (`Old`). Widths are 64 in the code; 4 bits hold
  every height of the run, so that only the subtraction wraps, and 2 bits make
  a cart line overflow after two additions. `MaxHead`, `MaxReorg`, `MaxLag`,
  `MaxOrders`, `MaxAdded`, `MaxLost` and `MaxDay` bound what TLC explores and
  appear in guards; the stock and settlement modules need no such bound.
  `Leafing` names the clienteles beside which the list is read: in the run the one
  that only places orders, since the walk sees which orders exist and nothing else
  of them; the proof is for all.
- *Sizes.* Two checkouts are enough for every race of two, and two articles for
  every partial load and every lock order; three orders and two transactions
  let a transaction be tried on a second order it covers and on one it does not,
  and its second text makes texts and hashes different things; three orders are
  one more than two goroutines may create at once;
  two request goroutines are enough for a stale read; two processes are enough
  to wait for each other; pages of one order make a list of three take three
  pages, each of which an order may be placed before; two senders behind one
  host and two days make requests compete for a bucket and overtake each other
  at midnight. The proofs cover the other sizes.
- *Symmetry* is used over checkouts (`redis_stock`) and articles (`storefront`),
  in runs without liveness properties and whose constants treat the permuted
  values alike.
- *Fairness.* `PgStock`: statements are answered and PostgreSQL's deadlock
  detector runs. `Cart`: time passes, the ticker of `StartJanitor` fires and
  `sync.Mutex` is not starved. `Startup`: statements are answered, the queue of
  the advisory lock is served in the order of arrival (hence strong fairness of
  `AdvisoryLock`), `main` goes on; nobody is obliged to start, to stop or to
  crash. Nothing else supposes fairness.
- *Deadlock* is not checked by TLC: in all the models the clients may simply
  stop. Waits for locks and connections are what the liveness properties and the
  two `NoDeadlock` theorems are about.

## 7. What is not modelled, and the plan

Not modelled, because they share no state that a property could relate:

- rendering, flash messages, CSRF and admin cookies, security headers, logging,
  configuration, tracing, connection pools other than the migrations';
- `Get` and `List` apart from the steps that use them. `List` of articles reads a
  page like the list of orders does; on Redis its documents may be gone, which
  `Listing` of `RedisStock` is about. The search filters rows and no more;
- the counters of the metrics and the gauge of articles, which add up what the
  calls returned: per process, and not exact after an error;
- a change of `SHOP_ETH_PRICE_USD` by a restart between the page that names the
  price and the payment: `VerifyPayment` then judges by the new rate, which
  nothing in the repository rules out or promises.

The stocks came first, with their ledger, because they carry the goods and the
money; then settlement, Ethereum verification, carts, storefront and startup;
then the listings, the rate limiter and the visitors, and proofs for every
module. What would come next:

1. Runs of their own for the disagreements of section 4 that have none, the
   snapshot of the list of orders first.
2. *Composition*: `Storefront` over `StockLedger`, as it is over `CartContents`
   and `OrderBook`: with `Conservation` and `OrderedOnce`, from
   the cart to the shelf.
