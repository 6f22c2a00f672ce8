# one-marketplace: TLA+ models, checks and proofs

This directory models the marketplace back end (NestJS, PostgreSQL, Redis,
RabbitMQ) in TLA+. TLC checks the models on small instances and TLAPS proves
the most important statements for every instance. `PROJECT.json` lists the
runs, the mutants that show each property can fail, the source lines behind
every definition, the hazards, the findings and the theorems.

## The system

Paths are relative to the repository's `src/`.

| Component | State it keeps | Operations | What makes it correct |
|---|---|---|---|
| Checkout (`services/checkout.service.ts`, `services/place-order.service.ts`, `repositories/orders.repository.ts`) | PostgreSQL rows: `products.stock`, `users.balance`, `orders`, `order_items`, `jobs`, `outbox` | `POST /orders` | nothing oversold or charged twice, an order is whole or absent, answers tell the truth, no deadlock |
| Outbox relay (`relay.ts`, `messaging/outbox-relay.ts`, `outbox-cleanup.ts`, `order-placed.publisher.ts`) | `outbox.published_at`, `attempts` | poll, publish with confirm, mark, clean up | no event lost, repeats only after crashes, bounded attempts |
| Broker (`messaging/topology.ts`) | queue `shop.order-placed`, `shop.dlq` | route, deliver, return, dead-letter | delivery limit |
| Consumer (`consumer.ts`, `messaging/order-placed.consumer.ts`) | `processed_messages`, `receipts` | deliver, apply, ack, reject | one receipt per order, inbox and receipts agree |
| Sessions (`auth/auth.service.ts`, `auth/token.service.ts`) | `refresh_tokens` | login, refresh, logout | one successor per token, reuse revokes the family |
| Denylist (`auth/access-denylist.ts`, `auth/auth-maintenance.ts`, `auth/access-authenticator.ts`) | Redis keys, `synced`, `generation` per process | authenticate, revoke, sync, clean up | a revoked session is refused, or the check is unavailable |
| Order status and events (`services/order-status.service.ts`, `order-events.service.ts`, `gateways/orders.gateway.ts`, the stream of `controllers/orders.controller.ts`) | `orders.status`, bounded event buffers, rooms, streams | change status, publish, replay, deliver | events of an order arrive in order and to its owner only |
| Product cards (`services/product-card.service.ts`, `redis/lock.ts`, `queue/*`, `worker.ts`) | Redis cache and lock keys, BullMQ jobs | read, load under a lock, refresh | a refreshed card is not older than the sale |
| Job worker (`services/job-worker.service.ts`) | `jobs.status`, `attempts` | claim, run, retry, fail | a job is done once, attempts are bounded, workers end |
| Rate limiter (`services/rate-limiter.service.ts`) | a sorted set per client | hit | never more than the limit in a window |
| Product idempotency (`services/idempotency.service.ts`) | a map in memory | create product | one product per key |
| Transaction retry (`services/with-retry.ts`) | the attempt of a call | run, sleep, throw | nothing applied twice, no update lost |
| Seed (`seed.ts`) | rows with natural keys | insert if missing, find, reset | repeatable, also while another run is under way |
| Browser sessions, configuration, HTTP layer, report, other demos | little or none | | see "Not modelled" |

**Interactions.** A checkout commits the outbox row and the `jobs` row in its
own transaction. The relay reads that outbox row and hands it to the broker,
the consumer turns it into a receipt. After the commit, checkout queues product
card refreshes, which a worker turns into cache writes. A status change
publishes an event in memory, which the SSE streams and the gateway deliver
after asking the access authenticator. The authenticator reads Redis, which the
maintenance task keeps in step with `refresh_tokens`.

**What is hard.** Row locks and re-evaluated `WHERE` clauses at READ COMMITTED,
a unique index as the last line of defence of a key, a crash between a publish
and its mark, redelivery at the same time as a late commit, a process-local
`synced` flag about a shared Redis, in-memory event numbers, and locks with a
TTL. The `hazards` of `PROJECT.json` give each of them with its line.

## Modules

| Module | What it is |
|---|---|
| `OrderLines` | catalogue, the lines of a request, the items they become, their sums, the comparison of a repeat |
| `OrderBook` | abstract: a purchase happens at one instant or not at all |
| `Checkout` | `PlaceOrderService.place` and the checkout transaction, one action per SQL statement |
| `ReceiptLedger` | abstract: a receipt per placed order, once |
| `OutboxMessaging` | relays, broker, consumers, inbox |
| `Marketplace` | `Checkout` and `OutboxMessaging` composed |
| `RefreshTokens` | login, refresh, logout and the cleanup on the table `refresh_tokens` |
| `AccessDenylist` | revoked sessions in Redis, the check of an access token, the sync task |
| `OrderEvents` | status changes, the event bus, SSE streams, socket.io rooms |
| `ProductCardCache` | cache-aside read with its lock, refresh jobs |
| `JobWorker` | the workers of the table `jobs` |
| `RateLimiter` | the sliding window of one address |
| `ProductIdempotency` | `POST /products` and its records in memory |
| `WithRetry` | `withRetry` around the debits of `demo-retry.ts` |
| `Seed` | overlapping and repeated runs of `seed.ts` |
| `Api` | `AccessDenylist`, `OrderEvents` and `ProductCardCache` side by side |
| `Products` | `RateLimiter` and `ProductIdempotency` side by side |
| `Programs` | `JobWorker`, `WithRetry` and `Seed` side by side |
| `CheckoutProofs`, `OutboxMessagingProofs`, `MarketplaceProofs`, `RefreshTokensProofs`, `WithRetryProofs` | theorems about the module of that name |
| `ApiProofs`, `ProductsProofs`, `ProgramsProofs` | theorems about the parts of `Api`, `Products` and `Programs` |
| `MCCheckout`, `MCOutboxMessaging`, `MCMarketplace`, `MCRefreshTokens`, `MCProducts`, `MCPrograms` | instances of the module of that name for TLC |
| `MCApi`, `MCApiLive` | `Api` for TLC: safety, and liveness |

### Checkout

Each request is a process with a program counter `pc[r]`. The variables
`stock`, `balance`, `orders`, `orderItems`, `jobs` and `outbox` hold committed
rows; `tx[r]` holds what the open transaction of `r` wrote (units taken per
product, lines priced so far, amount debited, tables inserted into). A row with
an uncommitted version is locked by its writer. An `UPDATE ... WHERE stock >=
q` whose clause holds on the committed version waits for the lock and is
evaluated again when the lock is free, as READ COMMITTED does; one whose clause
is false matches no row. The unique index on `(user_id, idempotency_key)`
makes `InsertOrder` wait for an uncommitted row with the same key and raise
23505 for a committed one. `Fail` may happen at every point: a failed
statement (a 23505 of another index included: `orders` is also unique on
`(user_id, created_at)`), a lost connection or a dead process; after `Commit` it
is the answer that gets lost.

`FindExisting`, `Validate`, `TakeStock`/`RefuseLine`, `DebitUser`/
`RefuseDebit`, `InsertOrder`, `InsertItems`, `InsertJob`, `InsertOutbox`,
`Commit`, `ReadBack`, `RefreshCards` and `FindWinner` follow the code from top
to bottom. A product id is text in the request and a bigint in the table:
`Number` and `BigintText` model the conversion, `PricedLine` keeps the spelling
of the request (the event carries it) and `Stored` is what the table returns.
The lines are visited in the order of `SortsBefore`, a stable sort by number.

The two tests of the key differ, so they are two operators. `SameKey` and `KeyRows`
are the unique index, to which only a missing key (`NoKey`, stored as NULL) is none.
`HasKey` is the test of `findExisting`, to which an empty key (`EmptyKey`) is none
as well; `FindByIdempotencyKey` asks for nothing then. The NULL is
`idempotencyKey ?? null` of the INSERT, which keeps an empty string.

### OutboxMessaging

A row of `outbox` goes `none`, `unpublished`, `published`, `old` (past the
retention), `deleted`. A relay process is in its loop, its cleanup or one
iteration of `relayBatch`, which is one transaction: `Pick` takes the row lock,
`Publish` hands the message over and gets a confirm or a return, `MarkPublished`
or `MarkFailed` updates the row and commits. A second copy of a message is a
message with a higher `copy`. The broker counts the returns of a message and
dead-letters it when they exceed the limit. A running handler is an element of
`deliveries` with its stage; `MarkProcessed` and `InsertReceipt` wait for an
uncommitted row with the same key, as `ON CONFLICT DO NOTHING` does.
`LoseChannel` leaves handlers running without a channel (`open = FALSE`): what
they commit counts, and the first of them that tries to settle its message ends
the process, because the error leaves `handle` as an unhandled rejection
(`Ending`). `CrashConsumer` ends them all at once.
`CommitUnknown` is a COMMIT whose answer was lost.

`Foreign` messages come from another publisher on the exchange: a repeat of an
event under a new message id, and a body that breaks the contract.

### Marketplace

The API and the relay share the table `outbox` and nothing else.
`CommitOrder` is `Checkout!Commit` and `OutboxMessaging!PlaceOrder` in one
step: the commit makes the row visible to the relay. Every other step is a step
of one side. `outboxRow` is what the relay sees of a row, `outbox` what the
transaction inserted.

### RefreshTokens

`rows` is the table, `req[r]` a request with its open transaction: the token it
was given, `now()` of its first statement, the rows it has still to lock
(`todo`) and has written (`wrote`). `Refresh` is the snapshot of the `UPDATE ...
SET used_at`, `SetUsed` the row lock with the second look at the row (the
columns are read again, the `NOT EXISTS` is not), `CommitRotation` the INSERT of
the successor and the COMMIT, `Lookup` the `findOneBy` that tells a reuse from
an invalid token. `BeginRevoke`, `SetRevoked` and `CommitRevocation` are the one
UPDATE that a reuse and a logout have in common, row by row. `Sign` comes after
the transaction, as in `pair`. `BeginCleanup`, `DeleteRow` and `CommitCleanup`
are one DELETE of the maintenance task with its snapshot and its LIMIT. `Fail`
ends a request anywhere. A hash is the identity of its token.

The ghost variables record what clients did (`held`, `presented`, `repeated`)
and what committed (`closed`, `straddled`: a refresh committed after the token
it took had expired).

### AccessDenylist

`inst[i]` is an API process: its connection (`open`, `broken` before the client
has noticed, `closed`), `synced`, the session key it is writing and its sync
task. `generation` is only compared with the value the task began with, so the
task carries `current`. `Revoke`, `WriteKey` and `WriteFails` are the revocation
after its commit; `Launch`, `FindRecentlyRevokedSessions` and
`RestoreRevokedSessions` the task, started by `Ready`, by the start of the
process and by the interval; `Authenticate` is the check up to the EXISTS,
`Exists` its answer, on the connection that is open by then. `RestartRedis` may
lose the writes since the last second (`saved` is the log on disk). `copied`,
`failed` and `told` are ghosts: a copy was completed on this connection, writes
of this instance that failed, and what was known when a check began.

### OrderEvents

`ChangeStatus` is the conditional UPDATE with its commit, `Publish` the
synchronous `publish`: number of the event, bounded buffer, eviction of the
oldest order, and `subject.next` to every subscriber. `buffers` is the Map in
insertion order: `Has`, `Place`, `Buffer` and `Without` are its `get` and `delete`.
`MissedSince` picks the elements of a buffer by their places (`Filter`, `Nth`), so
that the replay needs no recursion. A stream goes `closed`, `owner` (`findOwnerId` awaited), `open`
and `ended` (the response is over, the subscription lives until `close`); its
`queue` is the `concatMap`, whose head waits for the token check
(`BeginCheck`, `WriteEvent`). The gateway has one such queue, and asks for each
socket of a room (`FetchSockets`, `EmitTo`, `Delivered`). A client keeps what it
received and reconnects with the last id. Of the authenticator only the verdict
is here: `revoked` and `expired`.

### ProductCardCache

`proc[p]` is one call of `get` by a reader or by the worker: read, take the lock
or poll within the budget, read again, fetch, write, release. Keys may expire
or be evicted at any time. `holds` says whether the process still has the lock it
took. A refresh job deletes the card and then calls `get`; it has `ATTEMPTS`
attempts (`queue/product-cards.queue.ts:22`). That an attempt whose worker stalled
counts as one is how BullMQ works, which is not under `src/`. A card is the version
of the row it was made from, so that newer and older can be told apart.

### JobWorker

`Begin` is the snapshot of the claiming SELECT, `ScanRow` visits its rows by id
and skips locked ones (`SKIP LOCKED`) and ones that are no longer pending,
`HandlerEnds`, `HandlerThrows` and `Commit` run the handler and record its
outcome in the same transaction. `CountPending` and `Wake` are the idle loop.
`Crash` rolls back, `CommitAnswerLost` does not. `ran` and `lost` count handler
runs, and those whose transaction was rolled back.

### RateLimiter, ProductIdempotency, WithRetry, Seed

`RateLimiter!Script` is the Lua script, atomic in Redis: trim, count, ZADD and
PEXPIRE, or the time until the oldest entry leaves. `Resend` is ioredis sending
an unanswered command again. `Fail` is the catch, which refuses. Redis keeps what
it has answered: the restart of `redis-queue` that loses the last second of writes
(AOF `everysec`), which `AccessDenylist` models, is left out here (see below).

`ProductIdempotency`: `Receive` is `handleIdempotency` up to its await, `Insert`
the commit, `Save` the rest. A body is what it says and how its members are
ordered; `createFingerprint` drops the order. `Restart` empties the records of an
instance.

`WithRetry`: `Select` takes the snapshot, `Update` waits for the row and fails
with 40001 if it changed, `Caught` is the catch of `withRetry`. Attempts and codes
decide whether it sleeps or throws.

`Seed`: `InsertRow`, `FindRow` and `ResetRow` for each user and product, then one
transaction per order (`InsertOrder`, `InsertItems`). Initial rows may be absent,
changed by a shop that was used, or `taken`: somebody else's row has another
unique value of it (`users.phone`).

## Runs

| Run | Instance | Shows |
|---|---|---|
| `checkout_race` | 3 requests over 10 bodies, 2 products with 2 units, 2 buyers | all safety properties of `Checkout`, that it implements `OrderBook`, that every request is answered |
| `checkout_last_units` (violation) | 2 equal requests for the last units | a concurrent repeat can be refused with 409 |
| `checkout_spelling` (violation) | 2 equal requests for product `01` | the repeat of a byte-identical body can be refused with 422 |
| `outbox_delivery` | 2 relays and 2 rows, or 2 consumers with 2 handlers and 2 foreign messages; 1 crash | nothing lost, repeats need crashes, bounded attempts, one receipt per order, inbox and receipts agree, `ReceiptLedger` is implemented |
| `outbox_three_deliveries` (violation) | 1 message that keeps failing | a fourth delivery before the dead-letter queue |
| `market` | 2 requests, 1 relay, 1 consumer, 1 crash | one receipt per purchase, receipts are for what was sold and paid, a committed purchase gets its receipt or a visible failure |
| `refresh` | 3 requests on one family, 4 tokens; or 2 requests and the cleanup over two lives of a token | one successor, a revoked family is dead, reuse stays detectable, no false alarm |
| `refresh_revival` (violation) | the same | a refresh that outlives its token and a cleanup revive a revoked family |
| `api` | 2 changers, 1 stream, 1 socket, 3 orders of 2 buyers, 1 restart; or 2 instances with a denylist; or 2 readers and a worker on a card | events once, in order and without gaps, none after the token became invalid; a synced denylist is complete and a revoked token refused; one owner of the lock, a refresh sees its change |
| `api_live` | 1 instance with 3 ticks, 2 faults; 1 stream and 1 socket; 1 reader and 1 worker | the denylist over the whole life of a key; it is in sync again, revocations reach Redis, queues drain, reads and jobs end |
| `products` | 4 GETs over 5 ticks with limit 2 and window 3; or 3 POSTs at 2 instances, 2 keys, 3 bodies, 1 restart | never more than the limit in a window, refusal only when full, Retry-After suffices; one product per body, answers match bodies, later repeats are replayed |
| `programs` | 3 workers, 4 jobs, 2 queues; or 4 debits, 3 attempts; or 3 seed runs; 1 crash each | one holder, processed once, nothing left behind; no lost update, applied once; whole orders, runs do not disturb each other; everything ends |

A run checks some properties that are conjunctions of named parts, each stated
with its comment in its module:

| Property | Parts |
|---|---|
| `GoodsAndMoneyConserved` | `StockConserved`, `MoneyConserved` |
| `ReceiptsArePaid` | `OneReceiptPerPurchase` and its own |
| `EventsInOrder` | types and limits of the buffers, `ReplayIsSeamless`, `RoomsKeepOrder` |
| `DenylistHolds`, `DenylistComesBack` | types and TTLs, `SyncedMeansComplete`, `RevokedIsRefused`; `SyncReturns`, `RevocationReachesRedis` |
| `CardsAreSafe` | types and attempts, `LoadersHoldLock`, `RefreshSeesItsChange` |
| `PendingWorkEnds` | `QueuesDrain`, `EveryGetEnds`, `EveryJobEnds` |
| `LimitHolds`, `RefusalsAreFair` | types and Retry-After, `WindowIsBounded`; `RetryAfterSuffices`, `RefusedOnlyWhenFull` |
| `CreatesAreExact` | types, `OneProductPerBody`, `AnswersMatchBodies` |
| `JobsAreSafe` | types, `OneHolder`, `AttemptsAreBounded`, `NoJobLeftBehind`, `ProcessedOnce` |
| `DebitsAreExact` | types, `AppliedOnce`, `NoLostUpdate` |
| `SeedIsRepeatable` | types, `OrdersAreWhole`, `DoneMeansSeeded`, `RunsDoNotDisturb` |
| `ProgramsEnd` | `EveryWorkerEnds`, `EveryDebitEnds`, `EveryRunEnds` |

**A focus.** Parts that share no state are checked in one run: the initial state
chooses a value of `focus` (`part`, `method`, `program`) and only the chosen
part moves. The others keep their initial state, in which the invariants about
them hold trivially; each is checked in the behaviours in which it is chosen.
Within a module a focus restricts which of its steps are taken (three racing
requests early, or two over a long time; many relays, or many consumers). Every
such behaviour is one of the module's `Spec`, or of `ApiSpec`, `ProductsSpec` or
`ProgramsSpec`, in which all parts move; the theorems are about those. What a focus leaves out is the
product of two large parts, and that is a bound like the others. Fairness is
stated under the focus (`WF_v(part = x /\ A)`), and a liveness property says
`part = x => P`: without it, the parts that cannot move would violate it.

**Bounds.** Three checkouts are the fewest in which one waits for a lock, one
holds it and a third commits in between; two products are enough for opposite
lock orders, two units and a balance of six make every refusal happen with some
interleaving, and one input has two lines (and two spellings) of the same
product. In the messaging runs one crash is enough to reach every window
between two steps; `DELIVERY_LIMIT`, batch sizes and attempts are small so that
their limits are met. Queue order is left out, so every order of delivery is
covered.

Three requests on one family are a refresh, a reuse of the same token and a
logout at the same time; `MaxTime` is two lives of a refresh token, so that a
whole family expires after a rotation, and `MaxDuration` lets a transaction
cross an expiry. `api` has no clock for the denylist but two instances, of which
one may lose what the other wrote; `api_live` has the clock, on which a key, a
token and the sync window all end. Buffers of two events and one order overflow
with three changes and a second order. Four requests fill a window of two and
meet its end; `SECOND` is two ticks, so that Retry-After is rounded. Four debits
with three attempts are one more than can all succeed. `MaxCrashes`,
`MaxFaults`, `MaxRestarts` and `MaxThrows` bound faults; `MaxChanges`,
`MaxVersion`, `MaxTokens` and `MaxLogins` bound data.

**Symmetry.** Relays, consumers, requests (of `refresh` and `products`),
instances and readers are interchangeable model values in the runs without
liveness. The runs with liveness (`checkout_race`, `market`, `api_live`,
`programs`) use none. `checkout_race` orders its inputs instead: its requests
take the same steps, so it is enough to look at one order of the inputs. In
`products` the first POST goes to `i1` with `k1` for the same reason.

**Deadlock.** It is checked where the system always has something left to do or
says explicitly that it has ended (`AllEnded`, `AllOver`, `Ended`). Runs that
stop at a bound of time or data say `CHECK_DEADLOCK FALSE`: the state after the
last tick is an end of the model and not of the program. That checkout
transactions never wait for each other in a circle is part of
`EveryRequestAnswered`: in the model nothing obliges PostgreSQL to break a
deadlock by failing a statement.

**Fairness.** All of it is weak.

- `Checkout!Fairness`: each request's next statement. Node's event loop runs
  every continuation whose query has returned and PostgreSQL answers every
  statement that is not waiting for a lock. Nothing makes a lock holder end
  except its own fairness, so the absence of endless waits is a result.
- `Marketplace!MarketFairness`: the relay loop and the consumers, restarts
  included, and the running handlers taken together. That a process is started
  again is an assumption about operations: `npm run relay` and `npm run consume`
  are long-running programs that exit on errors and leave the restart to whoever
  runs them. Requests are not fair: the API may stop after any commit.
- `api_live`: the sync task of an instance (the interval timer starts it again)
  and the reconnect loop of the Redis client; pending promises of streams and of
  the gateway; steps of `get` and of the worker's loop. Nothing is assumed of
  expiries, of Redis coming back or of clients.
- `programs`: the next step of each worker, debit and seed run. A debit that waits
  for a row gets it only if the others leave it; that they do is a result.

## Findings

1. `ConcurrentRepeatIsReplayed`: the README promises that a concurrent second
   request with the same key returns the existing order. Stock and balance are
   taken before the key index is reached, so it can get 409 instead.
2. `SameBodyIsNotReuse`: the lines are compared as text with what the database
   returns, so `"01"` is never equal to the stored `"1"` and a repeat gets 422.
3. `DeadLetteredAfterThirdDelivery`: `x-delivery-limit: 3` allows a fourth
   delivery; the README says three. The integration test expects four.
4. `RevokedFamilyStaysDead`: the README says that a row inserted behind a
   revocation "can never be refreshed". If the refresh committed after its own
   token had expired, the cleanup may delete the revoked rows, and the inserted
   row is then an unrevoked family of its own.

Some properties are stated with an exception, because the code does less than a
reader of the documentation might expect. The exceptions are written at the
property:

| Where | What the code does | Property with the exception |
|---|---|---|
| `place-order.service.ts:82` (openapi.yaml:250) | `findExisting` takes an empty key for none, the INSERT stores it (`checkout.service.ts:123`): the repeat of an order under an empty key is not charged again, but answered with 500 instead of the response of the first | `OnlyEmptyKeysFallThrough` (`EmptyKey`) |
| `auth-maintenance.ts:42` (README.md:583) | the cleanup judges a family by its snapshot; a refresh that outlives its token adds a live row meanwhile, and spent rows of a live family go | `ReuseIsDetectable` (`straddled`) |
| `access-denylist.ts:82` (README.md:565) | `synced` is read before EXISTS and not after: the answer to a command that was sent again after a reconnect is used before the copy is complete | `RevokedIsRefused` (`copied`) |
| `auth.service.ts:139` | a failed write puts only its own instance out of sync; the others accept the token until their interval | `RevokedIsRefused` (`failed here`) |
| `auth.service.ts:148` | an access token signed after the revocation of its family may live a moment longer than the key | `RevokedIsRefused` (tokens signed before it) |
| `order-events.service.ts:27` (README.md:419) | event numbers start again at 1 after an eviction or a restart, so a client with a higher last id gets no replay | `ReplayIsSeamless` (`SameNumbering`) |
| `order-status.service.ts:46` | two overlapping changes may publish in the other order | `EventsFollowCommits` (`mixed`) |
| `orders.controller.ts:216` (README.md:571) | replayed events are written without a check of the token | `NoLateEvent` (`replay`) |
| `product-card.service.ts:99` (README.md:539) | a loader whose lock has expired, or one that has fetched before the refresh deleted, writes an older card over a newer one | `RefreshSeesItsChange` (`raced`) |
| `idempotency.service.ts:85` (openapi.yaml:63) | overlapping creates with one key both reach the INSERT, and the second gets 500 | `LaterRetryIsReplayed` (after the 201) |

`orders.controller.ts:233` is not in the model: a client that hangs up while
`findOwnerId` is awaited leaves a subscription behind, because `close` was
emitted before its listener was there.

## Proofs

Eight modules hold theorems; `PROJECT.json` lists the 34 results that matter with
a sentence on each. Every one is a statement about the specification of a module
for every value of its constants, and about a property that a run checks on a
small instance. The composed modules `Programs`, `Products`, `Api` and `Marketplace`
are the full interleavings of their parts (`ProgramsSpec`, `ProductsSpec`,
`ApiSpec`, `MarketSpec`): the choice of one part that TLC makes is not in the
theorems. `JobsStaySafe`, `StatsStayTrue` and `DenylistStaysTrue` are about the
`Spec` of `JobWorker` and of `AccessDenylist`, whose steps are those of the first
part of `Programs` and of `Api`.

**Assumptions.** Each module names its own (`CheckoutAssumption`,
`MessagingAssumption`, ...): limits, lifetimes and amounts are natural numbers,
positive where the environment schema or the code makes them so, the tables that
tell which queue, owner or price belongs to what are functions, and the value
`None` is none of the ids. Finite are only the sets that are counted: the
requests of the limiter and of POST, the debits, the jobs and workers, the seed
runs. The bounds on
faults, time and data (`MaxCrashes`, `MaxTime`, ...) are any natural numbers, so
they exclude nothing.

**Form.** An invariant seldom follows from itself. Each section defines the
strengthening (`...Inv`, a conjunction of named parts, with a comment on what each
says), proves it for `Init`, then one lemma per action or per group of actions
that touch the same state, and ends with the temporal theorem. Where a proof is
about one of many processes, the parts take the state as arguments, and one lemma
says that what holds of a process survives a step of another.

### CheckoutProofs

| Theorem | Property |
|---|---|
| `TypeCorrect`, `RowsAreSafe` | `TypeOK`, `RowVersionsSafe` |
| `KeyChargedOnce`, `FallThroughsAreEmptyKeys` | `ChargedOncePerKey`, `OnlyEmptyKeysFallThrough` |
| `GoodsAndMoneyAreConserved`, `OrdersAreWhole`, `AnswersStayTrue` | `GoodsAndMoneyConserved`, `OrderIsWhole`, `AnswersAreTrue` |
| `OrderBookImplemented` | `ImplementsOrderBook` (refinement) |

- `RowInv`: types alone are not inductive. `Commit` subtracts, and the result is
  natural only because the uncommitted decrement is covered by the committed value
  (`RowVersionsSafe`), which survives other commits only because a row has at most
  one uncommitted version. The debit is a sum, so the lines priced so far must be
  finite and of known products (`PricedOK`).
- `KeyInv` adds `KeyReserved` (a transaction that has inserted its order row owns
  the key against committed orders and other open transactions), `Phases` (what a
  transaction wrote, from its program counter), `WinnersExist` (behind every 23505
  there is a committed row with the buyer and key) and `OrdersFaithful`. All of it is
  about the rows of the unique index (`KeyRows`), empty keys included; what the
  lookup makes of an empty key comes in only with `OnlyEmptyKeysFallThrough`.
- `OrderInv` adds what an open transaction has recorded (`TxFaithful`, `TxPhase`):
  the units taken are those of the lines priced, the amount debited is their
  total. The sums are cardinalities of sets of units and of cents (`SumsAdd`,
  `StoredSums`): a commit adds a disjoint set, so conservation needs no recursion,
  and the change of spelling in the database is a bijection.
- The refinement: `Commit` is `OrderBook`'s one step (`CommitIsPlace`), every other
  step changes nothing the order book can see (`BookStep`).

### OutboxMessagingProofs

| Theorem | Property |
|---|---|
| `MessagingTypeCorrect`, `RepeatsStayBounded` | `TypeOK`, `RepeatsAreBounded` |
| `EventsAreNotLost` | `NoEventLost` |
| `OneReceiptEach`, `InboxStaysTrue` | `OneReceiptPerOrder`, `InboxMatchesReceipts` |
| `LedgerImplemented` | `ImplementsReceiptLedger` (refinement) |

- `RelayInv`: a relay has a row exactly between its SELECT and its UPDATE, and no
  other relay has it (`RowsHeld`); every copy but the marked one is paid for by a
  crash (`CopiesCounted`).
- `ConsumerInv`: every stage of a handler says something about the committed rows
  (`Handles`), one uncommitted receipt per order (`IssuedOnce`), messages within
  the delivery limit. It is needed because the handlers of one order overlap and
  the last to commit relies on what it saw several statements earlier.
- `BrokerKeeps`: a message that the broker has stays with it until its receipt is
  committed, over every loss of a channel and every crash. `NoEventLost` is this
  with the relay's mark, which comes after the confirm.
- The refinement: the commit of a handler whose stage is `issued` issues the
  receipt, also when its answer is lost; everything else stutters.

### MarketplaceProofs

`ReceiptsStayPaid` (`ReceiptsArePaid`). `MarketInv` is `OrderInv`, the messaging
invariant of the instance with `Orders <- Requests`, and `Joined`: an outbox row
belongs to a committed order. The lemmas of the two halves are used as they are;
new is that neither side makes a row of the other.

### RefreshTokensProofs

| Theorem | Property |
|---|---|
| `TokensTypeCorrect`, `OneSuccessorEach` | `TypeOK`, `OneSuccessor` |
| `ClosedFamiliesStayDead` | `ClosedFamilyIsDead` |
| `ReuseStaysDetectable`, `NoFalseAlarms` | `ReuseIsDetectable`, `NoFalseAlarm` |

`TokensInv`: row locks, the cleanup's included (`Locks`); a used row has been
presented and a successor has a used parent (`Rotation`, `Alarms`); and `Closing`,
which follows a revocation: from the snapshot of the UPDATE on, the family has a
revoked row, or one that the UPDATE will reach, or it has expired as a whole, and
only a refresh that outlives its token (`straddled`) wakes an expired family. That
is the exception of the finding, so the theorem says that there is no other.

### ApiProofs

| Theorem | Property |
|---|---|
| `DenylistStaysTrue` | `DenylistHolds` |
| `EventsStayWithCommits` | `EventsFollowCommits` |
| `EventsStayInOrder` | `EventsInOrder` |
| `NoEventIsLate` | `NoLateEvent` |
| `CardsStaySafe` | `CardsAreSafe` |

- `DenylistInv`: a key outlives every token of its session, so a written key
  settles the revocation until Redis restarts, which breaks every connection.
  `TrustOK` says that what a trusting instance relies on is in Redis, or in the list
  its task is about to write, on this connection; `ListsOK` that the TTLs in that
  list are still long enough when they are written; `CheckOK` carries it from the
  start of a check to the answer of EXISTS.
- `CommitsInv`: of an order that was not mixed up, the committed changes and the
  events differ by at most the one change that is between COMMIT and `publish`, and
  it is the only pending one.
- `EventsInv`: a buffer holds the newest events of its order, numbered one by one
  (`Numbered`), so what `missedSince` returns is a tail of it (`MissedIsTail`). What
  an open stream has written is not enough to go on: an event may have left the
  buffer while it waits in the `concatMap`. The invariant therefore speaks of the
  `Line` of a stream, what it has written and what waits: no two neighbours have an
  event of the buffer between them (`Seams`), and while the stream is open nothing
  in the buffer is newer than its end (`Newest`). `Publish` lengthens the line of
  every open stream and the buffer together (`FreshSeams`), a reconnect joins the
  tail of the buffer to what the client has (`ReplayIsSeam`), closing shortens it to
  a prefix (`SeamsOfPrefix`), an eviction or a restart empties the buffer.
  For the sockets, whatever one has received is older than whatever waits in the
  gateway's queue, except the head once the socket has had its turn (`Ahead`).
- `NoEventIsLate` is in the same invariant: a late event waits only where the owner's
  token is invalid, and behind a check that has begun or among the sockets that
  passed the expiry check the denylist is what will refuse it (`CheckedOK`,
  `GatewayOK`). A stream or room is open only to the owner of its order (`PlaceOK`,
  `SocketOK`), which is what ties the event to the token.
- `CardInv`: an active job has one process (`HoldersOK`), and from the DEL of a
  refresh on, neither the card nor any row about to become one is older than its
  change (`RefreshOK`), unless a reader was about to write one then (`raced`). A job
  has an attempt left when it waits (`JobOK`).

### ProductsProofs

| Theorem | Property |
|---|---|
| `TheLimitHolds`, `RefusalsStayFair` | `LimitHolds`, `RefusalsAreFair` (action property) |
| `CreatesStayExact`, `RetriesAreReplayed` | `CreatesAreExact`, `LaterRetryIsReplayed` (action property) |

- `LimiterInv`: whatever was admitted within the window is still in the sorted set
  and the key has not expired (`Spent`); then every window that ends at a past tick
  is bounded. `Refusals` says that a refusal names an entry that leaves within the
  Retry-After, with the rounding up to seconds (`RetryCovers`).
- `PostInv`: rows have distinct names (`RowsOK`), at most one request claims a row
  (`ClaimsOK`), a record was left by a request answered with 201 for the same body
  (`RecordsOK`), and without a restart the record of an answered key is still there
  (`KeptOK`). `CountOK` bounds the number of rows for the types.

### ProgramsProofs and WithRetryProofs

| Theorem | Property |
|---|---|
| `JobsStaySafe`, `StatsStayTrue` | `JobsAreSafe`, `StatsAccountForAttempts` |
| `DebitsStayExact`, `RetriesHaveWinners` | `DebitsAreExact`, `EveryRetryHasAWinner` |
| `SeedStaysRepeatable` | `SeedIsRepeatable` |

- `JobInv`, `RunsInv`: a worker has claimed a job exactly while the job is with its
  handler, and a lock belongs to it (`Hands`); the runs of a handler are the recorded one,
  the rolled back ones (each paid by a crash) and the one at hand.
- `StatsInv`: the sums over workers and jobs are numbers of units, as in `Checkout`
  (`Units`, `SumOf`). A commit adds one unit to the attempts and one to what its
  worker was told (`AttemptRecorded`), or its answer is lost and pays with a crash;
  that the status agrees needs `JobInv`, by which nobody else settles a held job.
- `RetryInv`: the row has the version of the holder's snapshot (`Snapshots`), and the
  version counts the debits that were applied (`Counted`). `WinnersInv`: each retry
  has a winner that its next snapshot already contains, so the next loss is to a
  new one.
- `SeedInv`: everything before the place of a run is seeded and stays so
  (`ProgressOf`), and an order that a transaction has inserted is not there yet and
  nobody else's (`IndexOK`).

**Only model-checked.**

- Liveness, which is out of the prover's reach: `EveryRequestAnswered`,
  `PaidMeansReceipted`, `DenylistComesBack`, `PendingWorkEnds`, `ProgramsEnd`.
- The four violations, which are counterexamples.

## Not modelled, and why

- Requests the HTTP layer refuses without touching state (ids that are not
  digits, bodies the OpenAPI document rejects), roles and error formatting.
- Changes of the catalogue during a checkout: prices and product ids are fixed.
  The price an order pays is the one its `UPDATE` returned in any case.
- The width of integers: stock, prices and balances are bounded by the CHECKs
  of the schema and by `bigint`, far above what the sums reach.
- Loss of messages by the broker itself: queues are quorum queues and messages
  are persistent.
- A restart of `redis-queue` under the rate limiter. Its AOF is written every second
  (`docker-compose.yml`, README.md:524), so a restart may forget the hits of the last
  second, and the window then lets as many more through. `LimitHolds` and its theorem
  are about a Redis that keeps its writes; for the denylist, where what is lost is
  an authorisation and not a count, the loss is modelled.
- Browser sessions (`services/session.service.ts`): one SET and one GETEX, each
  atomic in Redis. Password hashing: a wrapper around scrypt.
- The denylist key of a single token (`jti`): a logout sets it in one MULTI with
  the key of its session, and it never outlives that one.
- The scheduled refresh of all cards: it calls the modelled refresh in a loop.
- Migrations (DDL), configuration, connections, users repository, report: no state
  of their own, or read-only queries. Constraints of the schema are guards of the
  actions that meet them.
- Demos other than `demo-workers` and `demo-retry`: they drive modelled services
  and print what happened.

## Plan

Everything the components do that changes state is modelled, and every safety
property that a passing run checks is proved; liveness stays with TLC. What would
be next:

1. The check of a token and its verdict composed: `OrderEvents` with the denylist
   of `AccessDenylist` in place of `revoked`, so that `NoLateEvent` would speak of
   Redis and its losses as well.
2. The exceptions of the properties (`mixed`, `raced`, `straddled`, `copied`): when
   the code closes one of them, drop it from the property and from its invariant.
