# Crypto screener: TLA+ models, checks and proofs

The crypto screener listens to eight exchanges, finds spreads between them that
survive taker fees and funding, keeps a *signal* for every profitable route while
it lasts, stores the signals in PostgreSQL and tells subscribed Telegram chats when
one opens, grows and closes. It is one Go process with many goroutines. This
directory models what is hard to test in it: how WebSocket streams, connectors, ticks,
the janitor, the tracker, the persistence worker, the notification and command
workers and the shutdown sequence interleave and fail, and what that does to ticks,
routes, signals, rows, settings and messages.

Paths are relative to the repository root; `src/` stands for it in `PROJECT.json`.

## 1. Inventory

| Component | State | Operations | Modelled in |
|---|---|---|---|
| Exchange adapters (`adapters/*`) | sockets, subscriptions, symbol lists, caches of partial messages | reconnect loops, keep-alives, read loops, conversions | `MarketMessages`, `ExchangeStreams` |
| Retry and heartbeat (`internal/retry`, `internal/wsutil`) | attempt counter, read deadline | `Wait`, `Reset`, `StartHeartbeat` | `ExchangeStreams` |
| Connector manager (`connector_manager.go`) | running connectors, the lifecycle lock | `AddConnector`, `RemoveConnector`, `StopAll` | `ConnectorManager` |
| Ingress coalescer (`ingress/latest.go`), dispatcher, ingestion workers (`app.go`) | newest tick per feed, notification, channels | `Submit`, `run`, `DrainAndStop`, `Forget`, `dispatchTicks`, `ingestionWorker` | `Ingress` |
| Aggregator (`sharded_aggregator.go`) | per shard: latest price of every exchange, symbol and market; active routes with peak and last event | `ProcessTick`, `observe`, `Janitor`, `FlushActive`, `sendEvent`, `RevalidateSignal` | `Aggregator`, `SignalLifecycle` |
| Funding manager (`funding_manager.go`) | latest funding record per exchange and symbol, stream health, configuration | `UpdateFunding`, `SetStreamHealth`, `EvictStale`, `UpdateConfig`, the two evaluations | `FundingManager` |
| Volume engine (`volume_engine.go`) and the volume filters | minute candles per market | `UpdateCandle`, estimates, `Janitor`, two prefilters, the exact check | `VolumeEngine` |
| Tracker (`tracker.go`, `domain/signal.go`) | active signals by route key | `HandleEvent` for OPENED, UPDATED, CLOSED | `SignalLifecycle`, `NotificationRouter`, `PersistenceBuffer` |
| Signal persistence (`signal_persistence_buffer.go`, `adapters/postgres/repo.go`) | newest snapshot and version per signal, wake token; the `signals` table | `Put`, `SnapshotBatch`, `Ack`, `Close`, worker loop, `SaveSignal`, `ReconcileActiveSignals` | `PersistenceBuffer`, `SignalStore` |
| Notification router (`notification_router.go`) | one pending job per key, wake tokens, per-chat update thresholds, invalidated signals | `ProcessSignal`, `ProcessSignalUpdate`, `invalidateSignal`, `dropPending`, workers, `Close` | `NotificationRouter` |
| Telegram transport (`adapters/telegram`) | two send queues and a command queue per bot, chat-to-bot routes | `Broadcast`, `BroadcastReliable`, the send worker with its retries, polling, `Close` | `TelegramBot`; its use by the router in `NotificationRouter` |
| Commands and settings (`app.go`, `domain/user.go`, `domain/config.go`) | users, hard minimum, fees, their tables | `HandleCommand`, the load at start | `UserCommands`; `/sethardspread` against ticks in `SignalLifecycle`; connector commands in `ConnectorManager` |
| Run loop and shutdown (`app.go`, `cmd`) | channels, wait groups, the `accepting` flag | `Run`, `cleanup` | the shutdown part of each module above |
| Configuration, metrics, entry points, symbol cache, seed list, protobuf decoding, the unused legacy persistence worker | | | no (section 8) |

**How they interact.** An adapter runs one loop per feed: it dials, subscribes, keeps
the connection alive and turns messages into ticks, funding records and candles. Ticks go
to the coalescer, which keeps the newest per feed; `dispatchTicks` sends each
to the ingestion worker its symbol hashes to, so one symbol has one worker. The worker
runs `ProcessTick` under the shard lock and, after the unlock, sends the events to
`trackerChan`, blocking while it is full. The janitor goroutine does the same every
30 s. One tracker goroutine applies the events to `activeSignals`, calls `Put` and then
the router. The persistence worker and the four notification workers run on wake
tokens; notification workers wait inside `BroadcastReliable` for the send worker of a
bot. Each bot has command workers of its own that run `HandleCommand`. At shutdown `cleanup`
stops the janitor, the connectors, the coalescer and the workers, flushes the active routes to the
tracker, closes `trackerChan`, waits for the tracker, closes and flushes the buffer; the
router is closed by a deferred call, and `main` closes the bots last.

**What is hard.** A connection may fail at any step, while its siblings go on. A
connector may ignore its cancellation and outlive its stop timeout. Notifications are coalesced
everywhere (coalescer, buffer, router), each a chance to strand the last item. Events leave
the shard lock before they are sent. A tick carries the time it was *received*, and
ticks of two feeds of a symbol may be processed in the other order. The buffer is
read, saved and acknowledged in three steps while the tracker writes to it, and a save
that timed out may still run in the database. Commands read, wait for the database and
write back. Notifications race the CLOSE of their signal, and a mutex is held across network
calls that retry without limit. Every wait of the shutdown depends on somebody else making
progress. `hazards` in `PROJECT.json` lists these places line by line.

## 2. Modules

    FundingManager <- Aggregator <- SignalLifecycle <- MCSignalLifecycle, SignalLifecycleProofs
    SignalStore <= PersistenceBuffer <- MCPersistenceBuffer, PersistenceBufferProofs
    NotificationRouter <- MCNotificationRouter, NotificationRouterProofs
    Ingress <- ConnectorManager <- MCConnectorManager, ConnectorManagerProofs
    MarketMessages <- ExchangeStreams <- MCExchangeStreams, ExchangeStreamsProofs
    VolumeEngine <- MCVolumeEngine, VolumeEngineProofs
    UserCommands <- MCUserCommands, UserCommandsProofs
    TelegramBot <- MCTelegramBot, TelegramBotProofs

`<-` is EXTENDS; `<=` is an abstract specification that is instantiated with a refinement
mapping. `MC*` modules only give sets, functions and symmetries for the configurations; the
theorems are in the `*Proofs` modules. An operator whose comment starts with *Mutation of* is a plausible bug: it is used by
no specification, and putting it in the place of the definition it mutates breaks
the property listed with it under `mutants`.

### PersistenceBuffer

`items` is the map of the buffer, `wake` the one-slot channel, `closed` the flag;
`batch` and `saved` are the worker's local variables between `SnapshotBatch` and
`Ack`; `rows` is the table. A snapshot is a revision number (1 for the OPENED
snapshot, one more for each later change) and whether it is active: the properties
only compare which snapshot is newer and whether it is active. `latest` and `owned`
are the tracker's view. `SaveSignal` is one action per row, so the tracker can `Put`
between any two of them. `SaveFails` ends the flush as the code does, and may leave
the statement in `inDoubt`: the client gave up, the server may execute it later
(`AbandonedStatementRuns`). When such a statement overwrites newer state the history
variable `lateHit` is set; the safety properties are stated for behaviours in which
that has not happened, because the upsert is unconditional and nothing in the code
orders an abandoned statement. `Crash` may happen at any time; `Start` is the next
process, with an empty buffer and `ReconcileActiveSignals` done. The bounded wait
for the worker at the end of `cleanup` gives up after its timeout and ends the
process with the worker still saving; to table and buffer that is a `Crash`.

`SignalStore` is what persistence promises, without buffer, versions or worker: a table
whose rows only move forward to snapshots that were made, a restart that makes every
row inactive, and a process that ends fault-free only when the table has caught up.
`ImplementsStore` is its specification under the mapping `newest <- latest`, `table <- rows`,
`opened <- owned`, `running <- phase # "down"`, `faulty <- failures > 0 \/ crashes > 0`.

### FundingManager, Aggregator, SignalLifecycle

One symbol: shards, route keys and funding records never mix symbols. A route is
`<<buy exchange, sell exchange>>`, equal exchanges meaning spot against futures on one
exchange. Time is a small natural number, 0 is Go's zero time. Spreads, fees and
funding rates are integers in units of `1/Scale`; the division rounds down to that
unit where the code keeps 16 decimal digits. `eligible` is the set of routes that
user and volume filters admit; it changes at any time (`FiltersStep`) to any member of
`FilterSets`.

`ProcessTick`, `Janitor` and `FlushActive` are the critical sections; their events go
to `pend[sender]` and leave it one by one (`SendEvent`) when `trackerChan` has room. The
events of one sender are a set: they concern distinct routes, and most of them come
out of iterations over Go maps, so every order is possible. `WorkerTick` requires the worker's
previous events to be sent, as in the loop of `ingestionWorker`. `JanitorEvicts` and
`JanitorSweeps` are two actions because funding eviction and the sweep take
different locks. `HardSpreadCommand` and `HardSpreadApplied` are the two updates of
`/sethardspread`. `HandleEvent` is one action: commit and `Put` are made by the one
tracker goroutine and nobody else reads what lies between them here (the router,
where it does matter, is modelled separately). The phases are the waits of
`cleanup`; `FlushTimeout` is the 10 s budget of the flush. `lastNow` is a history
variable: the time of the last processed tick. `ignored` is another: the routes of which
the tracker has dropped an event as too old.

Left out: the branch of `HandleEvent` for events without a lifecycle (the aggregator
always sets one) and disabled pairs, which act like an
empty `eligible`. `StopAll` with its timeout is in `ConnectorManager`, the filters behind `eligible` in
`VolumeEngine`.

### NotificationRouter

One signal, all of its chats, the workers and the tracker goroutine. `tpc` is where
`HandleEvent` is between its commit under `Tracker.mu` and its calls to the router;
`pending` maps each kind of job to its chats; `lock` is `lifecycleMu` while it is held
across a transport call (shorter holds are single actions guarded by
`lock = None`). Which chats fit is chosen anew at every evaluation, since users,
volumes and funding change between any two. `online` is Telegram; while it is down a
worker stays inside `BroadcastReliable`, which retries until its context is
cancelled. `got` counts the messages per chat and kind. Telegram may accept a message whose answer is
lost; the send worker then sends it again (`AnswerLost`, `bot.go:175`-`195`), and the history variable `unheard`
counts these. The order of OPEN and UPDATE messages is not
recorded: jobs come out of a map and the code promises none.

### Ingress, ConnectorManager

`Ingress` is the way of a tick of one symbol from `Submit` to the aggregator. A key is an
exchange and a market; its ticks are numbered in the order of the `Submit` calls, and
0 is no tick. `Submit` is three actions, because the registry, the state's lock and the
notification are three synchronisations: `SubmitLoad`, `SubmitStore`, `SubmitNotify`. `RunSelect`,
`FlushNext` and `FlushSend` are the coalescer's goroutine, `DispatchTake`, `DispatchPush`,
`WorkerTake`, `WorkerProcess` the goroutines behind it. A registered state that was forgotten can be
followed by a second one, hence `States`. `panicked` is a send on a closed channel.

`ConnectorManager` adds the connectors (unborn, running, ended; a running one may have
been cancelled and not obey), the commands that add and remove them under `lifecycle`,
and the part of `cleanup` up to the ingestion workers: `StopAllBegin`, `StopAllWait` (which
ends by the connector's return or the timeout), `DrainStop`, `DrainClear`, `CloseQueues`, `ForgetState`.

### MarketMessages, ExchangeStreams

`MarketMessages` is pure: which instruments each adapter subscribes to, the key it files
a message under and the tick it makes. An exchange's ID of an instrument is the sequence of
its parts, separators included, because the normalisations strip separators and
suffixes. Instruments are spot pairs, perpetual, dated and inverse contracts.

`ExchangeStreams` is one venue and one group of feeds that share state. The eight
adapters have one skeleton with differences, so each feed is a record (`BinanceSpot`, ...,
`MexcCandles`) with the steps of its connection in the order of the code (list, dial, sub,
close, beat, control, ping, read, poll, park) and what the loop does around them: whether
the symbol list is loaded once or per round, whether a rejection is fatal, whether pongs are
answered, when funding is marked unhealthy, when the backoff is reset. The actions execute these
steps, with a failure possible at each of them (`MaxFaults` together). Writes have a beginning and
an end, so that two writers of a connection can overlap if nothing prevents them. `conn.why` is
the reason a connection ended; one of them is a message for which the read loop returns an error
(`Malformed`). `out` is the last delivery and its source. `bad` says whether the
exchange rejects one of the instruments.

A quote states the two sides, the last price, and the 24 hour amount and turnover, which the message may leave out or garble.
The caches are per instrument, as the maps in the code: Bybit's merged ticker (a field that is empty leaves
the old one), the volume of a contract for Gate.io futures, that of a symbol for BingX. `conn.sent` is a history of what
the exchange stated last on a connection.

### VolumeEngine

The minute series of one symbol's legs, and the three filters that read it: the
aggregator's symbol and route prefilters and the router's exact check. Time runs in half minutes.
Volumes are fractions, since a projection divides by the number of known minutes; decimal
rounding is left out. `fed` is a history variable with everything ever received. The router's check takes the time
the signal opened and the series it reads: it runs later than the opening, when minutes have been pruned.

### UserCommands

`HandleCommand` in its steps for every command that changes a user, the hard floor or the
fees: read, wait for the database (it answers, it fails, or the client gives up after five seconds and leaves the
statement in `inDoubt`), write the memory. As for signals, such a statement may run at any later time, after later saves and in a
later process (`AbandonedStatementRuns`). The parsed fees are set one by one. The operator's settings are changed in memory first and saved
after. Users' fields are set alike and are two here, one of them `UpdateStep`. `Restart` may come at
any point and loads the tables as `Run` does; the reads of the floor and of the fees fail independently. `raced` are the targets two calls have
competed for, `unsaved` those whose last save failed or was overwritten by an abandoned statement, or whose load
failed: for them the code keeps no promise, and the properties are about all the others. `acked` is a history variable: what the last
acknowledged command of a chat set. `RestartKeepsSettings` compares what a restart loads with `acked`
and not with the memory before it, because these differ in the code: a load raises a user's spread to
the floor in memory and leaves the row alone, so a later start under a lower floor gives the spread of the
row back. (An earlier form of the property, true for one restart, failed its proof for two.)

### TelegramBot

A pool of bots. A call is one `BroadcastReliable` that goes bot by bot and chat by chat and
waits for each result; the send worker prefers the reliable queue, keeps its interval,
sends, and retries what failed or was throttled. Telegram may accept a message and lose
the answer. Best-effort messages only take up room. Polling is the source of commands, whose
answers go to the same queue. The end is `main`'s: the router cancels its calls, then the
bots are closed.

## 3. Runs

Every run finishes within a few minutes on two workers; the counts are of distinct states.
*violation* runs state what a comment of the repository says and show a behaviour of the
code against it.

| Run | States, time | Checks | Shows |
|---|---|---|---|
| `persistence` | 492 000, 130 s | `NoSnapshotLost`, `NoOrphanedActiveRow`, `FinalFlushComplete`, `RowNeverRegresses`, `ImplementsStore`, `EventuallyFlushed`, `ShutdownTerminates` | the buffer loses nothing and rows only move forward, with failing saves, abandoned statements, shutdown and a crash anywhere; dropped wake tokens and failed saves delay a snapshot but never strand it; all of it implements `SignalStore` |
| `lifecycle_ticks` | 521 000, 80 s | `NoForgottenRoute`, `TrackerFollows`, `PeakAgrees`, `NoActiveRowAfterShutdown` | ticks in and out of order: no route keeps a stale leg, the tracker and its rows follow the aggregator, shutdown closes what the tracker did not ignore |
| `lifecycle_janitor` | 87 000, 80 s | `NoForgottenRoute`, `TrackerFollows`, `NoActiveRowAfterShutdown`, `ShutdownCompletes` | the janitor closes routes in parallel with the worker, and the tracker follows every route of which it ignored no event; cleanup ends although `trackerChan` is full most of the time and its flush may time out |
| `lifecycle_operator` | 1 253 000, 135 s | `FundingFailClosed` | spot feeds, fees, wide and crossed books, users coming and going, `/sethardspread` half applied, funding that is lost, evicted, incomplete or too old: a tick leaves nothing open without valid funding |
| `notifications` | 174 000, 170 s | `OnlyLostAnswersRepeat`, `CloseIsLast`, `NoJobStranded`, `ShutdownCompletes` | no OPEN or UPDATE reaches a chat after the CLOSE, and nothing reaches it twice but what Telegram accepted without being heard; wake tokens suffice; the router ends when outages end |
| `connectors` | 37 000, 25 s | `NeverSendsToClosed`, `ConnectorsSupervised`, `DeliveredInOrder`, `NewestArrives`, `CleanupCompletes` | connectors are replaced, removed and outlive their timeout: ticks stay in order, only replaced ones are lost, no exchange has two connectors, no late tick reaches a closed channel, cleanup ends |
| `streams` | 90 000, 150 s | `OneWriter`, `OnlyFaultsReconnect`, `KeysJoin`, `TickIsTheBook`, `OutageInvalidatesFunding`, `FeedsRecover`, `StopsWhenCancelled` | all feeds of the eight adapters with two failures at any steps: one writer per connection, reconnects in the listed cases only, right keys and ticks, funding invalid in an outage, recovery, an end after cancellation |
| `volume` | 120 000, 55 s | `EstimateIsReference`, `PrefiltersConservative` | an estimate is what the full history of candles gives; the upper bound rejects no route that is eligible, and the router's later looks decide as the full history would |
| `commands` | 1 647 000, 75 s | `FloorsAgree`, `RestartKeepsSettings` | two workers, a failing database, a statement that runs late, two restarts at any point: the copies of the floor agree, acknowledged settings survive |
| `telegram` | 407 000, 65 s | `AckIsDelivery`, `TransportStops` | success is reported for delivered messages only; everything ends once the router is closed |
| `late_tick_orphan` | violation | `ShutdownLeavesNoActiveRow` | a late tick's CLOSED event is older than the signal and ignored; the row stays active |
| `shutdown_outage` | violation | `ShutdownCompletes` | with Telegram down for good, cleanup waits for the tracker, the tracker for the lock, its holder for `Close`, and `Close` for cleanup |

The findings in `PROJECT.json` quote the sentence each violation run is about.

**Exceptions in the properties.** They are where the code promises nothing, and each is
named in the property's comment:

- `NoSnapshotLost`, `NoOrphanedActiveRow`, `RowNeverRegresses`: not after an abandoned statement overwrote
  newer state (`lateHit`).
- `TrackerFollows`, `PeakAgrees`, `NoActiveRowAfterShutdown`: not for routes of which the tracker ignored an
  event (the first finding, and an OPENED that overtakes the janitor's CLOSED, section 7), and not after the 10 s of the flush ran out (`flushTimedOut`): those rows
  are made inactive by the next start (`PersistenceBuffer`).
- `OnlyLostAnswersRepeat`: one repetition for each answer that was lost after Telegram had accepted the message.
- `TickIsTheBook`: a side that Bybit leaves empty is shown as it was (`bybit.go:318`), so that such a tick mixes two books; no turnover
  is compared where the code multiplies an amount with a price (OKX swaps, MEXC futures) or the message has none.
- `OnlyFaultsReconnect`, `KeysJoin` (`ForeignKeys`), `OutageInvalidatesFunding`: the adapters listed in section 7.
- `FloorsAgree`: not while or after two `/sethardspread` compete. `RestartKeepsSettings`: not for `raced` and `unsaved` targets
  (an abandoned statement that ran late makes its target `unsaved` until the next save), and not the update step.

## 4. Bounds

- `Signals` = 2, `BatchLimit` = 1, `MaxRev` = 2: one signal more than a batch holds, so the final
  flush has to go round; two revisions let a `Put` fall between snapshot and
  acknowledgement. `MaxFailures` = 1 and `MaxCrashes` = 1: one failed save inside a batch and
  one restart over rows of a dead process. The theorems of section 6 need none of
  these bounds.
- `Exchanges` = 2 with their futures feeds give two opposite routes; spot feeds add
  the route of one exchange. Three exchanges add routes but no new interaction: routes
  meet only in the close loop and in the channel, and two suffice for both.
- `Quotes`: two quotes open and close a route, three let a spread rise to a second
  peak, `BookQuotes` has a book with a spread of its own and a crossed one, which
  `validTick` refuses.
- `PriceTTL` 0 or 1, `MaxTime` 1 or 2, `FundingMaxAge` 0, 1 or 2, `EvictFactor` 1: enough for a price or a
  record to be fresh, stale and evicted within a run. `StaleActiveRouteTTL` is 0 where the
  janitor is the subject and out of reach (4) elsewhere; the code's ratio of route TTL to
  price TTL is larger, which makes the janitor's closes rarer, not different. In
  `lifecycle_operator` a record is too old one unit of time after it came (`FundingMaxAge` = 0, `MaxTime` = 2), so that funding
  ages under an open route, before the janitor evicts it or instead.
- `MaxLag` is 0 (ticks in the order of receipt) or 1; the coalescer keeps the order of a feed
  (`DeliveredInOrder`) and promises none between two feeds. `late_tick_orphan` needs 1.
- `MaxSendDelay` bounds how long an event of the worker may wait for the channel: a worker blocked on the
  channel for longer than the 10 minutes of `staleActiveRouteTTL` while the janitor's later event
  passes it is excluded, because Go serves blocked senders in the order they arrived.
- `StreamEvents` 2 or 3 bounds funding updates and losses together; `EventTimes` = {0} is a
  stream without event times. `ChanCap` 1 keeps `trackerChan` full most of the time,
  the case in which its order and its blocking matter.
- `Users` 1, `Workers` 2, `Step` 2 with `MaxPeak` 4 (two thresholds), or 1 with 1: two UPDATEs and a race need a
  pair of workers; `MaxLost` 1: one answer is lost, of any of the messages; chats of one signal meet only in a job, which is a set.
- `Connectors` = 3 of one exchange: an original, a replacement, and the replacement of that one;
  two markets share the notification of the coalescer; two ticks, so that one may replace the other;
  channels of one slot, which are often full.
- `MaxFaults` = 2: a failure and a second one while the feed recovers from it. `Conns` = 2: Bybit's
  feeds and OKX funding are split over several connections, and the first failure ends all of them. One
  instrument of every kind and a second USDT pair and contract, so that two instruments share a cache; quotes with a side that
  is gone, with a book that an older side would cross, and with an absent or malformed volume.
- `Timeframes` {1, 2} minutes with the code's `Slack` of two, `MaxNow` 11 half minutes: past the retention,
  with candles one minute late and on both sides of the pruning edge; three candles fill,
  repeat or leave a gap in a window of two.
- `Chats` 2, `Workers` 2, three commands, one abandoned statement and two restarts: two calls for one target, a third party
  they must not disturb, and a restart over what an earlier one loaded. `MaxSpread` 2 is a floor that rises above a user's spread.
- `Bots` 2, three chats (one of each bot and one routed to a bot that is gone), one call, queues of one slot.

Deadlock is checked in the runs of `PersistenceBuffer`, `SignalLifecycle` and `NotificationRouter`. The
others say `CHECK_DEADLOCK FALSE`: commands, connectors, streams and bots really stop
(`StopsWhenCancelled`, `CleanupCompletes` and `TransportStops` say that they reach their end), and
`VolumeEngine` and `UserCommands` stop at the bounds of clock, candles and commands.

## 5. Fairness

- `PersistenceBuffer!FairSpec`: the ticker keeps firing, so its branch is taken (WF); a flush
  that has begun proceeds (WF); `FinalFlush` is strongly fair because `select` chooses
  fairly between `ctx.Done()` and ready ticks; shutdown steps are weakly fair. Saves
  fail a bounded number of times. The tracker, crashes and starts are not fair.
- `SignalLifecycle!FairSpec`: a send that is possible again and again happens (SF, the FIFO
  queue of blocked senders), the tracker receives (WF), a sweep that began ends (WF). `StopWorkers` and
  `FlushRoutes` are strongly fair: after the stop channel closes, the janitor's and the
  worker's `select` may still prefer a ready ticker or tick, but not forever.
- `NotificationRouter!FairSpec`: goroutines run, and a mutex is not withheld from a waiter
  forever (SF, Go's starvation mode). Nothing is assumed of Telegram; `RecoverySpec` adds that
  every outage ends (WF of `TelegramUp`), which is an assumption on the environment
  and the exact difference between `notifications` and `shutdown_outage`.
- `ConnectorManager!Spec`: the goroutines of the tick path, a `Submit` that has begun, a command
  that holds the lock and cleanup once begun proceed (WF; the timers of the stop timeout are
  among these). No tick, command or shutdown has to come, and a connector need not obey.
- `ExchangeStreams!Spec`: loops and connections proceed, timers fire and the read deadline of a
  silent connection passes (WF), a write ends and `closeOnCtx` runs (WF), `writeMu` is not withheld
  (SF). Messages, failures and cancellation are not fair.
- `TelegramBot!Spec`: callers, send workers and command workers proceed, since HTTP calls have
  timeouts (WF), and so does the shutdown of `main`. Telegram may fail forever.
- `VolumeEngine` and `UserCommands` have safety properties only.

## 6. What is proved

TLAPS proves each of these for every value of the constants under the assumptions named in the
modules. Those give types (numbers are natural, batch and channel capacities are positive, `Signals` and the
notification `Workers` are finite, feeds are pairs of an exchange and a market, floors and ticks' prices are numbers, there
is an exchange, a market, a first bot and a default fee) and keep names apart (a mutex that is free is not a worker, a
chat is not a setting). No bound of section 4 is used but `MaxLate`: clocks, ticks, failures, restarts, capacities, instruments,
quotes, timeframes and candles are arbitrary. Three assumptions say more than a type:

- `LatenessAssumption` (`VolumeEngine`): the longest timeframe has at least two minutes, and a candle is late by less than the
  retention. The constants of `volume_engine.go` are four hours and four hours and two minutes; the streams send
  candles of the running minute and of the one that just closed. Nothing in the code refuses an older candle: one that came
  hours late, beside a minute that has been dropped, would be averaged without its neighbour.
- `NamesAssumption` (`MarketMessages`): no part of an ID is a separator, no asset is called `XBT` but Bitcoin, and an inverse
  contract, quoted in USD, has no perpetual contract with the same base and quote. Names are the exchanges' own, and
  the adapters rely on them in the same way: `normalizeSymbol` of KuCoin renames every `XBT`.
- `MessageAssumption`: prices, amounts and turnovers of a quote are natural numbers, with 0 for a price that is absent or
  malformed, and its volume field is readable, absent or malformed.

| Module | Theorem | States |
|---|---|---|
| `PersistenceBufferProofs` | `TypeCorrect`, `NothingLost`, `NoOrphans`, `FinalFlushEmpties`, `RowsOnlyAdvance` | `TypeOK`, `NoSnapshotLost`, `NoOrphanedActiveRow`, `FinalFlushComplete`, `RowNeverRegresses` |
| | `BufferImplementsStore` | `ImplementsStore`: the buffer refines `SignalStore` |
| `SignalLifecycleProofs` | `TypeCorrect`, `NoRouteIsForgotten`, `PeaksAgree`, `ShutdownClosesRows`, `TrackerFollowsAggregator` | `TypeOK`, `NoForgottenRoute`, `PeakAgrees`, `NoActiveRowAfterShutdown`, `TrackerFollows` |
| | `FundingIsFailClosed` | the action property `FundingFailClosed` |
| `NotificationRouterProofs` | `TypeCorrect`, `NeverQueuedTwice`, `CloseComesLast` | `TypeOK`, `OnlyLostAnswersRepeat`, `CloseIsLast` |
| `ConnectorManagerProofs` | `EveryConnectorSupervised`, `ClosedChannelIsSafe`, `TicksArriveInOrder` | `ConnectorsSupervised`, `NeverSendsToClosed`, `DeliveredInOrder` |
| `UserCommandsProofs` | `FloorsStayTogether`, `RestartKeepsAcknowledged` | `FloorsAgree`, `RestartKeepsSettings` |
| `TelegramBotProofs` | `AcknowledgedIsDelivered` | `AckIsDelivery` |
| `ExchangeStreamsProofs` | `TypeCorrect`, `NeverTwoWriters`, `HealthyConnectionsStay`, `OutagesInvalidateFunding` | `TypeOK`, `OneWriter`, `OnlyFaultsReconnect`, `OutageInvalidatesFunding` |
| | `TicksShowTheBook`, `KeysAlwaysJoin` | `TickIsTheBook`, `KeysJoin` |
| `VolumeEngineProofs` | `EstimatesAreReference`, `PrefiltersAreConservative` | `EstimateIsReference`, `PrefiltersConservative` |

None of the invariants is inductive as it stands. In every module there is a strengthening (checked with TLC on the
instances of the runs before it was proved), a lemma per action or group of actions with a step per conjunct,
and temporal steps by PTL.

**PersistenceBuffer.** Whether an acknowledgement may drop an entry depends on how batch, buffer and table
relate while the tracker keeps writing. `IInv` adds:

- `LatestInv`, `PhaseInv`: a signal of the process has a revision; buffer and final
  flush follow the phases of the shutdown; nothing of a dead process survives;
- `ItemsInv`: a buffered entry is the newest snapshot of a signal of this process;
- `KnownSnapshot`, used for batch (`BatchInv`), abandoned statements (`DoubtInv`) and rows
  (`RowsInv`): a copy is the newest snapshot or an older, *active* one, so a closed
  snapshot is always the newest and no older copy can be mistaken for it;
- `BatchInv`: the version of a batch entry is at most that of the buffered entry, equal
  versions mean equal snapshots, and neither the row nor an abandoned statement is
  newer than the batch entry. This is where the one worker matters: versions start
  again after an acknowledgement, and a batch is only compared with entries that
  were there when it was taken;
- `SavedInv`: a saved entry whose version is unchanged is the newest snapshot and in
  the table. `Ack` then drops only what the table holds.

The refinement uses `IInv` and `FaultInv` (an abandoned statement is the trace of a failed save or a
crash): the tracker's actions are steps of the store, a save is its `Write`, an abandoned statement its
`LateWrite`, and the worker's other steps are stutters.

**SignalLifecycle.** `PriceInv` (a stored price has a positive ask) makes every spread a number. With the
types it proves `NoForgottenRoute`: an active route after a tick is one of `CurrentKeys`, hence a candidate with
fresh legs. `FundingFailClosed` follows from the same facts about one tick.

That the tracker follows needs the whole way of an event. `ConvergeInv` says: let the tracker handle what is in the
channel (`Walks`, a history of the route's signal, one entry per event) and then what the senders hold
(`Settles`); either an event gets ignored (`Lost`), or the signal is what the aggregator's route calls for, peak
included. It says so for *both* orders of worker and janitor, which makes it stable under every send. It
holds of the race between them only with two more facts: while the janitor holds the CLOSED of a route its signal is there
to be closed, so an OPENED that overtakes it is ignored; and a pending OPENED is for a route that had been closed. `PhaseInv`
adds who is still running in each phase of `cleanup`, `EventInv` that a sender holds one event per route, `SnapshotInv` that the
row agrees with the signal. A walk is an existentially quantified function: a send extends it, a `HandleEvent`
shifts it, and no induction over the channel is needed.

**NotificationRouter.** `Count(kind, chat)` adds what is delivered, pending and held by workers. `CountInv`
bounds it by where the tracker is and by the answers that were lost: a worker raises a count only by such a resend, which `unheard`
counts too, so how often a chat can be told is decided where the tracker enqueues. For updates the bound is the number of thresholds below the peak (`Level`). `LockInv`: a
worker in the transport holds `lifecycleMu`, and after the invalidation its job is the CLOSE.

**ConnectorManager.** `ManagerInv`: a command in progress holds the lock, an entry is a connector of its
exchange, StopAll waits for or has reported whoever lives. `TickPathInv`: there is one state, it is
forgotten only when StopAll met no timeout and so no connector is left to make a second one, and it is
stopped and its goroutine has ended before the channel is closed. `OrderInv`: a tick has nine places from
`Submit` to the aggregator, and of one key a tick further on is never newer than one further back.

**UserCommands.** `LoneInv`: a call marked as alone has its target for itself, any other one's target is
raced. `FloorInv` and `StoredInv` say between which steps memory and tables may differ for a call that is alone; an
abandoned statement needs no more, since it makes its target `unsaved`.

**TelegramBot.** `PlaceInv`: a request is in one place, with the bot of its chat. `FreshInv`: what
was not enqueued was never accepted. `CloseInv`: the bots are closed after the router cancelled its calls, which is
why a send worker never reports a request it gave up as delivered.

**ExchangeStreams.** `Sound` collects what the argument needs of an adapter's description (the last step is the one
that lasts, subscriptions come before the keep-alive's start, who answers the exchange holds `writeMu`); a lemma per venue
proves it of the descriptions. The rest is one argument for all eight. `ConnOK`: who writes to a connection and which
of its steps are behind it, so that without the mutex a subscription and a keep-alive cannot meet. `LoopOK`: a connection that
is done leaves an error in its round or was cancelled, hence a round that ends otherwise marks the outage. `HealthOK`: which
states of the loop go with an unhealthy stream; that nobody revives it needs `ConnOK` again, for the feeds of the
same group. An adapter whose description is not `Sound` (a keep-alive started first, as in the mutant of `KucoinCandles`) has no
such proof.

What is delivered needs two more arguments. `CacheInv`: what a connection keeps of each instrument (Bybit's merged ticker, the
volume of Gate.io futures and BingX) follows what the exchange stated last about it on *this* connection, field by field; a
reconnect forgets both. Overlaying what changed on it gives what is stated now but for a side that is empty, so a tick shows
the book after any number of deltas and reconnects; `TickFacts` goes through the conversions. For the keys, `IDs` gives the shape of each exchange's ID,
`WithoutPair` and `WithoutTriple` compute `strings.ReplaceAll` on it (a recursive function on sequences of known length,
unrolled, so that no induction is needed), `CutIDs` the suffixes and prefixes that are cut off. `TickKeys`, `FundingKeys` and `CandleKeys`
are then a case per adapter: a key is base and quote, or the contract is dated and its key is longer than any pair.

**VolumeEngine.** The engine answers from a pruned series, the reference from everything it was ever given. `LostInv`: a
minute that was received and is gone is older than the retention, or it is the minute at its edge with nothing after it. The second
case is real: the janitor drops a silent series altogether, whose last candle may have been of the minute *after* the one
it came in (`AheadInv`), and then no window ends in it. `KeptInv`: what is kept is what was received; `AbsentInv`: a series
without a last write has no buckets. Given these, the minutes known to the engine and to the reference are the same run of
minutes up to the end of the window (`KnownIsRun`, `ReferenceRun`) and so are their sums (`TotalsAgree`). `TotalVolume` is
the running total of the loop, a function defined by recursion on the minutes; two totals over series that agree are compared by
a least minute at which they differ. The prefilters are conservative because a route's volume is that of its weaker leg: what
it reaches, each leg reaches; and the router's later looks are those of the full history because every estimate of a window it may ask
for is (`SameEstimate`).

**Only model-checked.**

- Liveness (`EventuallyFlushed`, `NoJobStranded`, `NewestArrives`, `FeedsRecover`, the properties of shutdown):
  fairness and ENABLED are out of the prover's reach.

## 7. Observed in the code, without a run of its own

The models show these behaviours too; where one concerns a property, it is an
exception there.

- The janitor's CLOSED of a stale route is sent after its unlock and may be overtaken by the
  worker's OPENED of the same route (`sharded_aggregator.go:582`): the tracker refuses the OPENED as a
  duplicate and then closes the signal, so the route is active without one until it closes.
- A tick evaluates the spot/futures route of its own exchange only (`sharded_aggregator.go:141`), and the close loop closes those of
  the other exchanges, whose prices, funding and filters are as good as before; their own next tick opens them again as new signals.
  `ARCHITECTURE.md:37` promises "only meaningful lifecycle changes".
- A statement that was given up and runs late overwrites a newer row, of a signal or of a user or setting, until the next save of
  that row (`repo.go:206`, `:257`).
- A side that Bybit leaves empty stays in the cached ticker (`bybit.go:318`), so that a tick may join the new ask to an old bid, if
  the two do not cross. KuCoin makes a tick with volume zero of a message without a volume (`kucoin.go:285`).
- A pending UPDATE job is replaced by a later one, also if that one is for other chats
  (`notification_router.go:157`); their thresholds count as notified.
- `NotifiedChatIDs` are the chats the OPEN was *queued* for (`notification_router.go:363`), so a chat whose OPEN was
  discarded still gets the CLOSE. A comment in `sendJob` says an UPDATE can never be sent after the
  tracker committed the signal to CLOSED; a worker that takes `lifecycleMu` between the commit and
  `invalidateSignal` does send it (before the CLOSE: `CloseIsLast` holds). `invalidated` keeps the ID of every
  closed signal (`:423`).
- OKX funding (`okx.go:225`) and swap candles (`okx.go:675`) are filed under `BTCUSDTSWAP`, while ticks use
  `BTCUSDT`; KuCoin's futures candles keep `XBTUSDTM`. The funding manager and the volume engine
  do not find them.
- A rejected instrument ends the connection, round after round, for Bitget tickers and the
  candles of six adapters; Bybit logs it and goes on. One message that cannot be read ends the candle connection of MEXC
  (`mexc.go:761`) for all its instruments, an error code that of Bybit (`bybit.go:600`), and funding without an instrument that of OKX and the
  futures stream of Bitget (`okx.go:225`, `bitget.go:236`). BingX candles never answer the exchange's Ping (`bingx.go:302`), nor do
  MEXC's futures candles, whose endpoint pings the futures tickers (`mexc.go:338`); Binance spot installs no pong handler, so a quiet market looks like a dead one.
- `ConnectFunding` of Bybit and Bitget returns at once after cancellation, and the futures stream may handle
  one more message, which marks the exchange healthy after `connector_manager.go:47` marked it unhealthy.
- `scanUser` reads `update_step` and never assigns it (`repo.go:345`): every user's step is zero after a restart.
- `waitRetryContext` ended by `sendStop` reports `ctx.Err()`, which is nil, as a delivery
  (`bot.go:183`, `:192`, `:214`); only the order of the shutdown in `main` prevents it. `AckIsDelivery` fails if the bots are
  closed first.
- `README.md:27` of the repository says that funding is implemented for Binance only and that for the other exchanges it "является optional
  и не блокирует raw spot/futures detection" (is optional and does not block it). All eight adapters have it, and a route without it is
  refused on every exchange (`funding_manager.go:329`), as `ARCHITECTURE.md:33` says: "Funding is route-aware and fail-closed".
  `FundingFailClosed` states the second sentence and contradicts the first.

## 8. Not modelled

- `persistence_worker.go`: not used by the application.
- The symbol cache, Bybit's seed list and the decoding of JSON, gzip and protobuf: a file with a
  time to live that makes the load of a list succeed, constant data, and bytes; no protocol state.
  Malformed fields are values of `Quotes`.
- Configuration, metrics, HTTP endpoints and entry points, but for the order of the shutdown in `main`.
- Read-only commands and the wording of messages.
- The size of subscription batches, and durations beyond their order.
- The parts of `cleanup` are in the modules of what they stop and are not composed in one
  specification: each waits only for its own part, and the product would be out of TLC's reach.

## 9. Plan

The components of the plan are modelled, and every safety invariant and safety action property of the passing runs is
proved. What is left:

1. The waits of `cleanup` in one specification, from `main` to the bots, over abstract parts that only promise to stop.

The type invariants are stated in the modules and listed by no configuration. Those of `PersistenceBuffer`, `SignalLifecycle`,
`NotificationRouter` and `ExchangeStreams` are proved; the proofs about `ConnectorManager`, `UserCommands` and `TelegramBot`
have their own parts of theirs.
