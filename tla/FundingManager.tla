--------------------------- MODULE FundingManager ---------------------------
(***************************************************************************)
(* The funding side of the arbitrage engine: the latest funding record and *)
(* the stream health of every exchange (FundingManager), and the           *)
(* fail-closed evaluation the aggregator asks for. One symbol, because     *)
(* every record and every evaluation is about one symbol at a time.        *)
(*                                                                         *)
(* Times are small naturals; 0 is Go's zero time.Time. Spreads and rates   *)
(* are integers in units of 1/Scale.                                       *)
(***************************************************************************)
EXTENDS Integers

CONSTANTS
    Exchanges,          \* the connected exchanges
    FundingRates,       \* the funding rates a stream may deliver
    FundingMaxAge,      \* FundingConfig.MaxDataStaleness; 0 is less than one unit of time
    MaxTime             \* bound: the clock stops here

ASSUME FundingAssumption ==
    /\ FundingRates \subseteq Int
    /\ FundingMaxAge \in Nat
    /\ MaxTime \in Nat \ {0}

VARIABLES
    clock,     \* time.Now() of the process
    rates,     \* FundingManager.rates, of the one symbol
    health,    \* FundingManager.health
    minSpread  \* FundingManager.config.MinSpread

fundingVars == <<rates, health, minSpread>>

Time == 0..MaxTime

\* nextKnown is NextFundingTime # 0; at is LocalReceivedAt.
FundingRecord == [rate : FundingRates \cup {0}, nextKnown : BOOLEAN, event : Time, at : Time]
NoRecord == [rate |-> 0, nextKnown |-> FALSE, event |-> 0, at |-> 0]

FundingInit ==
    /\ rates = [e \in Exchanges |-> NoRecord]
    /\ health = [e \in Exchanges |-> FALSE]

\* Mutation of IsStale: a record does not age.
NeverStale(record, now) == record.at = 0

\* FundingRecord.IsStale: a record from the future of now is not stale.
IsStale(record, now) == record.at = 0 \/ now - record.at > FundingMaxAge

\* validRecord: a missing, unhealthy, incomplete or stale record is refused.
ValidRecord(e, now) ==
    /\ rates[e].at # 0
    /\ health[e]
    /\ rates[e].nextKnown
    /\ ~IsStale(rates[e], now)

CalcNetSpread(spread, buyRate, sellRate) == spread + sellRate - buyRate

\* EvaluateFuturesPair: the records of both exchanges count.
FuturesPairNet(buyEx, sellEx, spread) == CalcNetSpread(spread, rates[buyEx].rate, rates[sellEx].rate)

FuturesPairProfitable(buyEx, sellEx, spread, now) ==
    /\ spread >= 0
    /\ ValidRecord(buyEx, now) /\ ValidRecord(sellEx, now)
    /\ FuturesPairNet(buyEx, sellEx, spread) >= minSpread

\* EvaluateSpotFutures: buying spot has no funding, only the short leg counts.
SpotFuturesNet(e, spread) == CalcNetSpread(spread, 0, rates[e].rate)

SpotFuturesProfitable(e, spread, now) ==
    /\ spread >= 0
    /\ ValidRecord(e, now)
    /\ SpotFuturesNet(e, spread) >= minSpread

-----------------------------------------------------------------------------
\* UpdateFunding: a record older than the stored one is dropped; any other one
\* is stored and marks the stream of its exchange healthy.
UpdateFunding(e, rate, nextKnown, event) ==
    /\ ~(rates[e].at # 0 /\ event # 0 /\ rates[e].event # 0 /\ event < rates[e].event)
    /\ rates' = [rates EXCEPT ![e] =
                    [rate |-> rate, nextKnown |-> nextKnown, event |-> event, at |-> clock]]
    /\ health' = [health EXCEPT ![e] = TRUE]
    /\ UNCHANGED minSpread

\* SetStreamHealth(exchange, false): the funding stream ended.
StreamLost(e) ==
    /\ health' = [health EXCEPT ![e] = FALSE]
    /\ UNCHANGED <<rates, minSpread>>

\* EvictStale: the janitor drops every record past its staleness budget.
EvictStale ==
    /\ rates' = [e \in Exchanges |-> IF IsStale(rates[e], clock) THEN NoRecord ELSE rates[e]]
    /\ UNCHANGED <<health, minSpread>>

\* UpdateConfig, as /sethardspread uses it.
UpdateConfig(v) ==
    /\ minSpread' = v
    /\ UNCHANGED <<rates, health>>
=============================================================================
