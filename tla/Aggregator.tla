----------------------------- MODULE Aggregator -----------------------------
(***************************************************************************)
(* ShardedAggregator for one symbol: the latest price of every (exchange,  *)
(* market), the active routes, and how a tick, the janitor and a           *)
(* controlled shutdown turn them into lifecycle events. Everything here    *)
(* happens under the shard's lock; the events are sent after the unlock,   *)
(* which is the business of the module that composes this one with its     *)
(* consumer.                                                               *)
(*                                                                         *)
(* A route is the pair <<buy exchange, sell exchange>>: equal exchanges    *)
(* mean SPOT BUY -> FUTURES SELL on one exchange, distinct ones futures    *)
(* against futures. That is the information of routeKey.                   *)
(***************************************************************************)
EXTENDS FundingManager, FiniteSets

CONSTANTS
    Feeds,               \* the <<exchange, market>> pairs that deliver ticks
    Quotes,              \* the <<best bid, best ask>> pairs a tick may carry
    Fee,                 \* FeeFor: taker fee of one side, per exchange
    Scale,               \* one in the unit of spreads, fees and rates
    PriceTTL,            \* priceTTL; 0 is less than one unit of time
    EvictFactor,         \* the janitor keeps prices for EvictFactor * PriceTTL
    StaleActiveRouteTTL  \* staleActiveRouteTTL, likewise

Markets == {"SPOT", "FUTURES"}
Routes == Exchanges \X Exchanges

ASSUME AggregatorAssumption ==
    /\ Feeds \subseteq Exchanges \X Markets
    /\ \A q \in Quotes : q[1] \in Nat /\ q[2] \in Nat
    /\ Fee \in [Exchanges -> Nat]
    /\ Scale \in Nat /\ PriceTTL \in Nat /\ EvictFactor \in Nat /\ StaleActiveRouteTTL \in Nat

VARIABLES
    prices,    \* Shard.prices, of the one symbol
    active,    \* Shard.active: peak and last observation of every active route
    eligible,  \* the routes that pass the user and volume filters now
    hardMin,   \* ScreenerConfig.hardMinSpread
    lastNow    \* history: now of the last tick that was processed

shardVars == <<prices, active, lastNow>>

PriceState == [bid : Nat, ask : Nat, at : Time]
NoPrice == [bid |-> 0, ask |-> 0, at |-> 0]
RouteState == [peak : Int, ts : Time]
NoRoute == [peak |-> 0, ts |-> 0]
IsActive(r) == active[r].ts # 0

Event == [kind : {"OPENED", "UPDATED", "CLOSED"}, route : Routes, spread : Int, ts : Time]

AggregatorInit ==
    /\ prices = [f \in Exchanges \X Markets |-> NoPrice]
    /\ active = [r \in Routes |-> NoRoute]
    /\ eligible = Routes
    /\ lastNow = 0

-----------------------------------------------------------------------------
(* Candidates *)

\* validTick: prices are positive and the bid does not exceed the ask.
ValidTick(q) == q[1] > 0 /\ q[2] > 0 /\ q[1] <= q[2]

\* Mutation of Fresh: a price from the future of now counts as fresh.
FreshOrFuture(state, now) == state.at # 0 /\ now - state.at <= PriceTTL

\* fresh: the price exists, is not from the future of now and is within the TTL.
Fresh(state, now) == state.at # 0 /\ state.at <= now /\ now - state.at <= PriceTTL

Intra(r) == r[1] = r[2]
BuyLeg(p, r) == p[<<r[1], IF Intra(r) THEN "SPOT" ELSE "FUTURES">>]
SellLeg(p, r) == p[<<r[2], "FUTURES">>]

\* The executable spread of a route after the taker fees of both sides.
FeeAdjusted(p, r) ==
    LET ask == BuyLeg(p, r).ask
        bid == SellLeg(p, r).bid
    IN ((bid - ask) * Scale) \div ask - Fee[r[1]] - Fee[r[2]]

\* The spread an event carries: net of fees and funding.
NetSpread(p, r) ==
    IF Intra(r) THEN SpotFuturesNet(r[1], FeeAdjusted(p, r))
                ELSE FuturesPairNet(r[1], r[2], FeeAdjusted(p, r))

FundingProfitable(p, r, now) ==
    IF Intra(r) THEN SpotFuturesProfitable(r[1], FeeAdjusted(p, r), now)
                ELSE FuturesPairProfitable(r[1], r[2], FeeAdjusted(p, r), now)

\* What crossCandidates and intraCandidate ask of one route.
Candidate(p, r, now) ==
    /\ Fresh(BuyLeg(p, r), now) /\ Fresh(SellLeg(p, r), now)
    /\ BuyLeg(p, r).ask < SellLeg(p, r).bid
    /\ FeeAdjusted(p, r) > 0
    /\ FundingProfitable(p, r, now)

\* The routes one tick of exchange e looks at: every futures pair, but the
\* spot/futures route of e alone.
Evaluated(e) == {r \in Routes : ~Intra(r) \/ r[1] = e}

\* currentKeys: the candidates that pass the volume filters.
CurrentKeys(p, e, now) ==
    {r \in Evaluated(e) \cap eligible : Candidate(p, r, now)}

-----------------------------------------------------------------------------
(* observe, and the close loop of ProcessTick *)

\* The step of one route's lifecycle at a tick, "NONE" when nothing is emitted.
Lifecycle(p, keys, r) ==
    IF r \in keys
    THEN CASE ~IsActive(r) /\ NetSpread(p, r) >= hardMin -> "OPENED"
           [] IsActive(r) /\ 2 * NetSpread(p, r) <= hardMin -> "CLOSED"
           [] IsActive(r) /\ 2 * NetSpread(p, r) > hardMin /\ NetSpread(p, r) > active[r].peak -> "UPDATED"
           [] OTHER -> "NONE"
    ELSE IF IsActive(r) THEN "CLOSED" ELSE "NONE"

\* Mutation of ActiveAfter: routes that are no longer candidates are kept.
ActiveWithoutCloseLoop(p, keys, now) ==
    [r \in Routes |->
        IF r \in keys /\ Lifecycle(p, keys, r) \in {"OPENED", "UPDATED"}
        THEN [peak |-> NetSpread(p, r), ts |-> now]
        ELSE active[r]]

\* Shard.active after the tick: an observed route has now as its last
\* timestamp, a route that closed is gone.
ActiveAfter(p, keys, now) ==
    [r \in Routes |->
        CASE Lifecycle(p, keys, r) \in {"OPENED", "UPDATED"} -> [peak |-> NetSpread(p, r), ts |-> now]
          [] Lifecycle(p, keys, r) = "CLOSED" -> NoRoute
          [] Lifecycle(p, keys, r) = "NONE" /\ IsActive(r) -> [active[r] EXCEPT !.ts = now]
          [] OTHER -> NoRoute]

\* Mutation of TickEvents: a route that vanished is dropped without an event.
EventsWithoutCloseLoop(p, keys, now) ==
    {[kind |-> Lifecycle(p, keys, r), route |-> r, spread |-> NetSpread(p, r), ts |-> now] :
        r \in {x \in keys : Lifecycle(p, keys, x) # "NONE"}}

\* The events of the tick, at most one per route. A route that merely vanished
\* from the candidates closes with spread zero.
TickEvents(p, keys, now) ==
    {[kind |-> Lifecycle(p, keys, r), route |-> r,
      spread |-> IF r \in keys THEN NetSpread(p, r) ELSE 0, ts |-> now] :
        r \in {x \in Routes : Lifecycle(p, keys, x) # "NONE"}}

PriceStored(f, q, at) == [prices EXCEPT ![f] = [bid |-> q[1], ask |-> q[2], at |-> at]]

\* ProcessTick up to the unlock: the tick of feed f received at `at`. A tick
\* older than the stored price is dropped and changes nothing.
ProcessTick(f, q, at) ==
    /\ ValidTick(q)
    /\ at >= prices[f].at
    /\ LET p == PriceStored(f, q, at)
           keys == CurrentKeys(p, f[1], at)
       IN /\ prices' = p
          /\ active' = ActiveAfter(p, keys, at)
    /\ lastNow' = at
    /\ UNCHANGED <<eligible, hardMin>>

EventsOfTick(f, q, at) ==
    LET p == PriceStored(f, q, at) IN TickEvents(p, CurrentKeys(p, f[1], at), at)

-----------------------------------------------------------------------------
(* Janitor and FlushActive *)

CloseEvent(r) == [kind |-> "CLOSED", route |-> r, spread |-> 0, ts |-> clock]

StaleRoutes == {r \in Routes : IsActive(r) /\ clock - active[r].ts > StaleActiveRouteTTL}

\* Janitor up to the unlock: old prices go, and routes nobody observed for
\* StaleActiveRouteTTL are closed.
Janitor ==
    /\ prices' = [f \in DOMAIN prices |->
                    IF prices[f].at < clock - EvictFactor * PriceTTL THEN NoPrice ELSE prices[f]]
    /\ active' = [r \in Routes |-> IF r \in StaleRoutes THEN NoRoute ELSE active[r]]
    /\ UNCHANGED <<eligible, hardMin, lastNow>>

\* Mutation of JanitorEvents: a stale route is deleted without an event.
JanitorSilent == {}

JanitorEvents == {CloseEvent(r) : r \in StaleRoutes}

\* FlushActive: every route that is still open is closed for the shutdown.
FlushActive ==
    /\ active' = [r \in Routes |-> NoRoute]
    /\ UNCHANGED <<prices, eligible, hardMin, lastNow>>

FlushEvents == {CloseEvent(r) : r \in {x \in Routes : IsActive(x)}}

-----------------------------------------------------------------------------
\* Users subscribe, unsubscribe or change their volume filters, or the volumes
\* of the markets change: HasUsers, symbolMayPassVolume and
\* routeVolumeEligible together admit another set of routes.
FiltersChange(routes) ==
    /\ eligible' = routes
    /\ UNCHANGED <<shardVars, hardMin>>

SetHardMinSpread(v) ==
    /\ hardMin' = v
    /\ UNCHANGED <<shardVars, eligible>>
=============================================================================
