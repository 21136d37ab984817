--------------------------- MODULE MarketMessages ---------------------------
(***************************************************************************)
(* What the eight exchange adapters make of a message: which instruments   *)
(* they ask for, the symbol key they file a tick, a funding rate or a      *)
(* candle under, and the tick itself with its volume in quote currency.    *)
(*                                                                         *)
(* An instrument's exchange ID is the sequence of its parts, separators    *)
(* included: OKX's BTC-USDT-SWAP is <<"BTC", "-", "USDT", "-", "SWAP">>.   *)
(* A quote is what the exchange states: the best bid and ask and the last  *)
(* price (0: none, or malformed), the base amount and the turnover in      *)
(* quote currency of 24 hours, and whether the message's volume field is   *)
(* readable, absent or malformed.                                          *)
(***************************************************************************)
EXTENDS Integers, Sequences, SequencesExt

CONSTANTS
    Quotes,        \* the quotes an exchange may send
    Instruments,   \* [base, quote, kind, live], kind in Kinds
    ContractSize   \* the base amount of one MEXC contract

Kinds == {"spot", "perp", "dated", "inverse"}
Venues8 == {"BINANCE", "BYBIT", "OKX", "BITGET", "GATEIO", "KUCOIN", "BINGX", "MEXC"}

ASSUME MessageAssumption ==
    /\ ContractSize \in Nat \ {0}
    /\ \A q \in Quotes : q \in [bid : Nat, ask : Nat, last : Nat, base : Nat, turnover : Nat,
                               vol : {"ok", "absent", "bad"}]
    /\ \A i \in Instruments : i.kind \in Kinds /\ i.live \in BOOLEAN

\* The separators in the exchanges' IDs.
Underscore == "_"
Separators == {Underscore, "-"}

\* The parts of an ID are no separators, Bitcoin's old name is no other asset's, and
\* an inverse contract, quoted in dollars, has no perpetual one beside it with the
\* same base and quote.
ASSUME NamesAssumption ==
    /\ \A i \in Instruments : i.base \notin Separators \cup {"XBT"} /\ i.quote \notin Separators
    /\ \A i, j \in Instruments :
            i.kind = "inverse" /\ j.kind = "perp" => <<i.base, i.quote>> # <<j.base, j.quote>>

-----------------------------------------------------------------------------
(* The exchanges' own IDs. *)

\* KuCoin futures keep Bitcoin's old name.
OldName(base) == IF base = "BTC" THEN "XBT" ELSE base

NativeID(v, i) ==
    CASE v \in {"BINANCE", "BYBIT"} /\ i.kind = "dated" -> <<i.base, i.quote, Underscore, "DATE">>
      [] v = "OKX" /\ i.kind # "spot" -> <<i.base, "-", i.quote, "-", "SWAP">>
      [] v = "KUCOIN" /\ i.kind = "dated" -> <<OldName(i.base), "M", "DATE">>
      [] v = "KUCOIN" /\ i.kind \in {"perp", "inverse"} -> <<OldName(i.base), i.quote, "M">>
      [] v = "BINGX" \/ (v \in {"OKX", "KUCOIN"} /\ i.kind = "spot") -> <<i.base, "-", i.quote>>
      [] v = "GATEIO" \/ (v = "MEXC" /\ i.kind # "spot") -> <<i.base, Underscore, i.quote>>
      [] OTHER -> <<i.base, i.quote>>

\* The instruments of market m in the answer of venue v's REST endpoint: Bitget
\* and Gate.io are asked for USDT contracts only, and only some venues list dated
\* contracts beside the perpetual ones.
Listed(v, m) ==
    {i \in Instruments :
        IF m = "spot" THEN i.kind = "spot" ELSE
        CASE v \in {"BINANCE", "BYBIT", "KUCOIN"} -> i.kind \in {"perp", "dated", "inverse"}
          [] v \in {"BITGET", "GATEIO"} -> i.kind = "perp" /\ i.quote = "USDT"
          [] OTHER -> i.kind \in {"perp", "inverse"}}

\* strings.ReplaceAll(id, sep, "") for each separator, and strings.HasSuffix.
Without(id, seps) ==
    LET rest[k \in 0..Len(id)] ==
            IF k = 0 THEN <<>> ELSE IF id[k] \in seps THEN rest[k - 1] ELSE Append(rest[k - 1], id[k])
    IN  rest[Len(id)]
EndsWith(id, suffix) == IsSuffix(suffix, id)

-----------------------------------------------------------------------------
(* The instruments each adapter subscribes to. *)

\* binanceSymbols: status TRADING and quote asset USDT.
BinanceSymbols(m) == {i \in Listed("BINANCE", m) : i.live /\ i.quote = "USDT"}

\* fetchSymbols: status Trading and an ID that ends in USDT.
BybitSymbols(m) ==
    {i \in Listed("BYBIT", m) : i.live /\ EndsWith(NativeID("BYBIT", i), <<"USDT">>)}

\* okxTickerInstIDs, and okxRawSwapSymbols for funding.
OkxTickerInstIDs(m) ==
    {i \in Listed("OKX", m) :
        /\ i.live
        /\ IF m = "spot" THEN i.quote = "USDT"
                         ELSE EndsWith(NativeID("OKX", i), <<"-", "USDT", "-", "SWAP">>)}
OkxRawSwapSymbols ==
    {i \in Listed("OKX", "futures") :
        i.live /\ EndsWith(NativeID("OKX", i), <<"-", "USDT", "-", "SWAP">>)}

\* okxSymbols, the candles' list: swaps are not filtered by quote currency.
OkxSymbols(m) == {i \in Listed("OKX", m) : i.live /\ (m # "spot" \/ i.quote = "USDT")}

\* fetchSpotSymbols: online and quoted in USDT.
BitgetSpotSymbols == {i \in Listed("BITGET", "spot") : i.live /\ i.quote = "USDT"}

\* fetchFuturesSymbols: status normal.
BitgetFuturesSymbols == {i \in Listed("BITGET", "futures") : i.live}

\* getSymbols: spot by quote and status, futures by type direct and status.
GateSymbols(m) ==
    {i \in Listed("GATEIO", m) : i.live /\ IF m = "spot" THEN i.quote = "USDT" ELSE i.kind # "inverse"}

\* kucoinCandleSymbols: futures contracts are not filtered by status.
KucoinCandleSymbols(m) ==
    {i \in Listed("KUCOIN", m) : i.quote = "USDT" /\ (m = "spot" => i.live)}

\* bingxCandleSymbols and, with the -USDT filter, bingxTickerSymbols.
BingxCandleSymbols(m) == {i \in Listed("BINGX", m) : i.live}
BingxTickerSymbols(m) ==
    {i \in BingxCandleSymbols(m) : EndsWith(NativeID("BINGX", i), <<"-", "USDT">>)}

\* mexcCandleSymbols.
MexcCandleSymbols(m) == {i \in Listed("MEXC", m) : i.live /\ i.quote = "USDT"}

\* ensureContractSizes: the contracts whose size is known.
MexcContractSizes == {i \in Listed("MEXC", "futures") : i.live /\ i.quote = "USDT"}

-----------------------------------------------------------------------------
(* Symbol keys. *)

\* normalizeSymbol of the OKX adapter; <<>> is its second result false.
OkxNormalizeSymbol(id, m) ==
    CASE m = "spot" -> IF EndsWith(id, <<"-", "USDT">>) THEN Without(id, {"-"}) ELSE <<>>
      [] OTHER -> IF EndsWith(id, <<"-", "USDT", "-", "SWAP">>)
                  THEN Without(SubSeq(id, 1, Len(id) - 2), {"-"}) ELSE <<>>

\* Mutation of KucoinNormalizeSymbol: Bitcoin keeps its old name.
KucoinKeepsXBT(id, m) ==
    CASE m = "spot" -> Without(id, {"-"})
      [] m # "spot" /\ (EndsWith(id, <<"USDT", "M">>) \/ EndsWith(id, <<"USD", "M">>)) -> SubSeq(id, 1, Len(id) - 1)
      [] OTHER -> <<>>

\* normalizeSymbol of the KuCoin adapter: only perpetual contracts have a key,
\* without the trailing M and with Bitcoin's usual name.
KucoinNormalizeSymbol(id, m) ==
    CASE m = "spot" -> Without(id, {"-"})
      [] m # "spot" /\ (EndsWith(id, <<"USDT", "M">>) \/ EndsWith(id, <<"USD", "M">>)) ->
            [SubSeq(id, 1, Len(id) - 1) EXCEPT ![1] = IF @ = "XBT" THEN "BTC" ELSE @]
      [] OTHER -> <<>>

\* The ID in a candle message: Gate.io's names the interval first ("1m_BTC_USDT").
CandleID(v, i) == IF v = "GATEIO" THEN <<"1m", Underscore>> \o NativeID(v, i) ELSE NativeID(v, i)

\* The ID in a funding message: KuCoin's unified API, the only one with "-".
FundingID(v, i) == IF v = "KUCOIN" THEN <<i.base, "-", i.quote>> ELSE NativeID(v, i)

-----------------------------------------------------------------------------
(* Ticks. A conversion yields the set of the ticks it makes: one, or none    *)
(* where the code returns false.                                             *)

Mid(q) == (q.bid + q.ask) \div 2
Price(q) == IF q.last > 0 THEN q.last ELSE Mid(q)

\* The turnover a message states; zero where the code goes on without one.
Turnover(q) == IF q.vol = "ok" THEN q.turnover ELSE 0

Tick(key, q, vol) == [key |-> key, bid |-> q.bid, ask |-> q.ask, vol |-> vol]

\* The checks all the conversions share: both prices parse, none is zero and the
\* book is not crossed.
TwoSided(q) == q.bid # 0 /\ q.ask # 0 /\ q.bid <= q.ask

\* toMarketTick of the Binance adapter.
BinanceTick(id, m, q) ==
    {t \in {Tick(id, q, Turnover(q))} : EndsWith(id, <<"USDT">>) /\ TwoSided(q) /\ q.vol = "ok"}

\* toMarketTick of the Bybit adapter: a turnover that does not parse counts as
\* zero. The quote is the connection's merged one.
BybitTick(id, m, q) ==
    {t \in {Tick(id, q, Turnover(q))} : TwoSided(q)}

\* toMarketTick of the OKX adapter: volCcy24h is the turnover of a spot pair and
\* the base volume of a swap, which is multiplied by the last price.
OkxTick(id, m, q) ==
    LET key == OkxNormalizeSymbol(id, m)
    IN  {t \in {Tick(key, q, IF m = "spot" THEN Turnover(q) ELSE q.base * Price(q))} :
            key # <<>> /\ TwoSided(q) /\ q.vol = "ok"}

\* toMarketTick of the Bitget adapter.
BitgetTick(id, m, q) ==
    {t \in {Tick(Without(id, Separators), q, Turnover(q))} : TwoSided(q) /\ q.vol = "ok"}

\* spotTickerToTick and bookTickerToTick of the Gate.io adapter: a futures tick
\* gets the volume the connection keeps for its contract.
GateSpotTick(id, m, q) ==
    {t \in {Tick(Without(id, Separators), q, Turnover(q))} : TwoSided(q) /\ q.vol = "ok"}
GateBookTick(id, q, vol) == {t \in {Tick(Without(id, Separators), q, vol)} : TwoSided(q)}

\* toMarketTick of the KuCoin adapter: a message without a volume makes a tick
\* whose volume is zero, one with a malformed volume makes none.
KucoinTick(id, m, q) ==
    LET key == KucoinNormalizeSymbol(id, m)
    IN  {t \in {Tick(key, q, Turnover(q))} : key # <<>> /\ TwoSided(q) /\ q.vol # "bad"}

\* bboToTick of the BingX adapter: the volume is the one kept for the symbol.
BingxTick(id, q, vol) ==
    LET key == Without(id, {"-"})
    IN  {t \in {Tick(key, q, vol)} : EndsWith(key, <<"USDT">>) /\ TwoSided(q)}

\* spotToTick of the MEXC adapter.
MexcSpotTick(id, m, q) ==
    {t \in {Tick(id, q, Turnover(q))} : EndsWith(id, <<"USDT">>) /\ TwoSided(q) /\ q.vol = "ok"}

\* futuresToTick: volume24 counts contracts; no contract size, no tick.
MexcFuturesTick(id, i, q) ==
    LET key == Without(id, Separators)
    IN  {t \in {Tick(key, q, (q.base \div ContractSize) * ContractSize * Price(q))} :
            /\ EndsWith(key, <<"USDT">>) /\ TwoSided(q) /\ q.vol = "ok"
            /\ i \in MexcContractSizes}
=============================================================================
