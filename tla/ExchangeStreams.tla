--------------------------- MODULE ExchangeStreams ---------------------------
(***************************************************************************)
(* The streams of one exchange connector: the reconnect loops of its       *)
(* adapter, the WebSocket connections they own, the keep-alive goroutines, *)
(* and what the messages do to the tick, candle and funding sinks.         *)
(*                                                                         *)
(* The eight adapters have the same skeleton with differences that matter: *)
(* what is started before what, what ends a connection, what a lost        *)
(* connection does to the funding health. Every adapter's feed is a record *)
(* (its description) whose "steps" are the steps of its connection in the  *)
(* order of the code; the actions below execute any of them.               *)
(*                                                                         *)
(* A behaviour is about one venue and one group of feeds: feeds of         *)
(* different groups share no state. Bybit and Bitget futures carry their   *)
(* exchange's funding and are in one group with it.                        *)
(***************************************************************************)
EXTENDS MarketMessages, FiniteSets

CONSTANTS
    Venues,      \* the exchanges checked
    Samples,     \* the messages on each connection: [inst, q] records
    MaxFaults    \* bound: failures of the network or of the exchange

ASSUME StreamAssumption ==
    /\ Venues \subseteq Venues8
    /\ MaxFaults \in Nat
    /\ \A i \in {1, 2} : \A s \in Samples[i] : s.inst \in Instruments /\ s.q \in Quotes

Feeds == {"spot", "futures", "funding", "spotCandles", "futuresCandles"}
Groups(v) ==
    {{"spot"}, {"spotCandles"}, {"futuresCandles"}}
    \cup (IF v \in {"BYBIT", "BITGET"} THEN {{"futures", "funding"}} ELSE {{"futures"}, {"funding"}})
Conns == {1, 2}

VARIABLES
    venue,      \* the exchange of this connector
    group,      \* the group of feeds this behaviour is about
    bad,        \* TRUE iff the list holds an instrument whose subscription the
                \* exchange rejects; FALSE where a rejection changes nothing
    cancelled,  \* the connector's context is done
    ready,      \* the adapter's fundingReady is closed
    loop,       \* [feed |-> its reconnect loop]
    conn,       \* [feed |-> [i |-> its i-th connection]]
    health,     \* FundingManager.health of this exchange
    faults,     \* failures so far
    out         \* what the last step delivered to the sinks

vars == <<venue, group, bad, cancelled, ready, loop, conn, health, faults, out>>

-----------------------------------------------------------------------------
(* The feeds' descriptions. steps: "list" asks REST for symbols or a token,  *)
(* "dial" connects, "sub" writes the subscriptions, "close" starts           *)
(* closeOnCtx, "beat" starts protocol pings whose pongs move the read        *)
(* deadline, "control" protocol pings whose pongs do not, "ping" the         *)
(* application's own pings, "read" is the read loop, "poll" a REST poll,     *)
(* "park" waits for the context.                                             *)

Defaults == [
    steps  |-> <<"dial", "close", "beat", "read">>,
    list   |-> "none",    \* the loop loads a list: "none", "once" or each "round"
    safe   |-> FALSE,     \* that load has a fallback and cannot fail
    joint  |-> FALSE,     \* several connections: one failing cancels the others
    reset  |-> FALSE,     \* Backoff.Reset after a round of 30 seconds
    reject |-> "ignored", \* a rejected subscription: "ignored", "fatal", "none"
    mutex  |-> FALSE,     \* data frames are written under the adapter's writeMu
    asks   |-> FALSE,     \* the exchange pings and drops who does not answer
    pong   |-> FALSE,     \* the read loop answers
    breaks |-> FALSE,     \* a message the read loop cannot use ends the connection
    marks  |-> "never",   \* SetStreamHealth(false): "round", "dial" or "never"
    sink   |-> FALSE,     \* waits for fundingReady first
    stores |-> FALSE]     \* stores the funding sink and closes fundingReady

\* runSpotFeed, runSpotShard, readSpotShard: the list is loaded until it is
\* there, then every shard reconnects on its own. No pong handler is installed.
BinanceSpot == [Defaults EXCEPT !.steps = <<"dial", "close", "control", "read">>, !.list = "once",
                !.reset = TRUE, !.reject = "none"]

\* listen and connectAndRead: the all-market ticker stream.
BinanceFutures == [Defaults EXCEPT !.reset = TRUE, !.reject = "none"]

\* listenFunding, connectAndReadFunding: unhealthy from the (re)dial on.
BinanceFunding == [Defaults EXCEPT !.marks = "dial", !.reject = "none"]

\* runCandleFeed, runBinanceCandleShard, readBinanceCandleShard.
BinanceCandles == [Defaults EXCEPT !.steps = <<"dial", "beat", "close", "read">>, !.list = "once",
                   !.reject = "none"]

\* listen, connectAndRead, readTickerShard.
BybitTickers(f) == [Defaults EXCEPT !.steps = <<"dial", "sub", "close", "ping", "read">>, !.list = "round",
                    !.safe = TRUE, !.joint = TRUE, !.reset = TRUE,
                    !.marks = IF f = "futures" THEN "round" ELSE "never",
                    !.sink = (f = "futures")]

\* ConnectFunding of Bybit and Bitget: funding rides on the futures stream.
FundingRider == [Defaults EXCEPT !.steps = <<"park">>, !.stores = TRUE]

\* Mutation of BybitCandles: a rejected subscription ends the connection.
BybitCandlesRejectFatal ==
    [Defaults EXCEPT !.steps = <<"dial", "beat", "close", "sub", "read">>, !.list = "round",
                     !.safe = TRUE, !.joint = TRUE, !.reject = "fatal", !.breaks = TRUE]

\* runCandleFeed, readCandleShard, readCandleConnection: an answer with an error
\* code that is not about a subscription ends the connection.
BybitCandles == [Defaults EXCEPT !.steps = <<"dial", "beat", "close", "sub", "read">>, !.list = "round",
                 !.safe = TRUE, !.joint = TRUE, !.breaks = TRUE]

\* listen, connectAndRead.
OkxTickers(f) == [Defaults EXCEPT !.steps = <<"dial", "list", "sub", "close", "ping", "read">>,
                  !.reset = TRUE, !.sink = (f = "futures")]

\* listenFunding, connectFundingWS, readFundingShard: UpdateFunding refuses a
\* record without an instrument, and its error ends the connection.
OkxFunding == [Defaults EXCEPT !.steps = <<"dial", "sub", "close", "ping", "read">>, !.list = "round",
               !.joint = TRUE, !.reset = TRUE, !.marks = "round", !.stores = TRUE,
               !.breaks = TRUE]

\* runCandleFeed, readCandleShard.
OkxCandles == [Defaults EXCEPT !.steps = <<"dial", "beat", "close", "sub", "read">>, !.list = "round",
               !.reject = "fatal"]

\* listen, connectAndRead: a rejected subscription ends the ticker connection, and
\* so does a futures ticker whose funding UpdateFunding refuses.
BitgetTickers(f) == [Defaults EXCEPT !.steps = <<"dial", "sub", "close", "ping", "read">>, !.list = "round",
                     !.reset = TRUE, !.reject = "fatal", !.sink = (f = "futures"),
                     !.breaks = (f = "futures")]

\* runCandleFeed, readCandleShard.
BitgetCandles == [Defaults EXCEPT !.steps = <<"dial", "beat", "close", "sub", "read">>, !.list = "round",
                  !.reject = "fatal"]

\* Mutation of GateSpot: nothing closes the connection when the context ends.
GateSpotNeverClosed == [Defaults EXCEPT !.steps = <<"dial", "list", "sub", "ping", "read">>]

\* listenSpot, connectSpot.
GateSpot == [Defaults EXCEPT !.steps = <<"dial", "list", "sub", "close", "ping", "read">>]

\* listenFutures, connectFutures.
GateFutures == [Defaults EXCEPT !.steps = <<"dial", "list", "sub", "close", "ping", "read">>]

\* ConnectFunding, pollFunding of Gate.io, KuCoin and BingX.
FundingPoll == [Defaults EXCEPT !.steps = <<"poll">>]

\* runCandleFeed, readCandleShard.
GateCandles == [Defaults EXCEPT !.steps = <<"dial", "beat", "close", "sub", "read">>, !.list = "round",
                !.reject = "fatal"]

\* listen, connectAndRead: the endpoint and its token are asked for every round.
KucoinTickers == [Defaults EXCEPT !.steps = <<"dial", "sub", "close", "ping", "read">>, !.list = "round",
                  !.reset = TRUE]

\* Mutation of KucoinCandles: the keepalive starts before the subscriptions.
KucoinCandlesPingFirst ==
    [Defaults EXCEPT !.steps = <<"list", "dial", "beat", "close", "ping", "sub", "read">>, !.list = "once",
     !.reject = "fatal"]

\* runCandleFeed, runKuCoinCandleShard, readCandleShard.
KucoinCandles == [Defaults EXCEPT !.steps = <<"list", "dial", "beat", "close", "sub", "ping", "read">>,
                  !.list = "once", !.reject = "fatal"]

\* runTickerFeed, runTickerShard, readTickerShard: the exchange pings.
BingxTickers == [Defaults EXCEPT !.steps = <<"dial", "close", "sub", "read">>,
                 !.list = "once", !.reset = TRUE, !.mutex = TRUE, !.asks = TRUE, !.pong = TRUE]

\* runCandleFeed, runBingXCandleShard, readCandleShard: no ping is answered.
BingxCandles == [Defaults EXCEPT !.steps = <<"dial", "beat", "close", "sub", "read">>, !.list = "once",
                 !.reject = "fatal", !.mutex = TRUE, !.asks = TRUE]

\* listenSpot, connectSpot.
MexcSpot == [Defaults EXCEPT !.steps = <<"dial", "sub", "close", "ping", "read">>, !.mutex = TRUE]

\* Mutation of MexcFutures: a failed first load of the contract sizes ends the
\* stream, as an earlier version of the code did.
MexcFuturesOneTry == [Defaults EXCEPT !.steps = <<"dial", "sub", "close", "ping", "read">>, !.list = "try",
                      !.mutex = TRUE, !.asks = TRUE, !.pong = TRUE]

\* ConnectFutures (the contract sizes), listenFutures, connectFutures.
MexcFutures == [Defaults EXCEPT !.steps = <<"dial", "sub", "close", "ping", "read">>, !.list = "once",
                !.mutex = TRUE, !.asks = TRUE, !.pong = TRUE]

\* ConnectFunding, pollOneFunding: the symbols first, then ten per second.
MexcFunding == [Defaults EXCEPT !.steps = <<"poll">>, !.list = "once"]

\* runCandleFeed, runMEXCCandleShard, readCandleShard: the futures candles come from
\* the endpoint that pings MexcFutures, and this loop answers no ping; a message
\* that does not parse, or whose amount does not, ends the connection.
MexcCandles(f) == [Defaults EXCEPT !.steps = <<"dial", "close", "sub", "ping", "read">>, !.list = "once",
                   !.reject = "fatal", !.mutex = TRUE, !.asks = (f = "futuresCandles"),
                   !.breaks = TRUE]

Candles == {"spotCandles", "futuresCandles"}
Market(f) == IF f \in {"spot", "spotCandles"} THEN "spot" ELSE "futures"

Description(v, f) ==
    CASE v = "BINANCE" -> CASE f = "spot" -> BinanceSpot
                            [] f = "futures" -> BinanceFutures
                            [] f = "funding" -> BinanceFunding
                            [] OTHER -> BinanceCandles
      [] v = "BYBIT" -> CASE f \in {"spot", "futures"} -> BybitTickers(f)
                          [] f = "funding" -> FundingRider
                          [] OTHER -> BybitCandles
      [] v = "OKX" -> CASE f \in {"spot", "futures"} -> OkxTickers(f)
                        [] f = "funding" -> OkxFunding
                        [] OTHER -> OkxCandles
      [] v = "BITGET" -> CASE f \in {"spot", "futures"} -> BitgetTickers(f)
                           [] f = "funding" -> FundingRider
                           [] OTHER -> BitgetCandles
      [] v = "GATEIO" -> CASE f = "spot" -> GateSpot
                           [] f = "futures" -> GateFutures
                           [] f = "funding" -> FundingPoll
                           [] OTHER -> GateCandles
      [] v = "KUCOIN" -> CASE f \in {"spot", "futures"} -> KucoinTickers
                           [] f = "funding" -> FundingPoll
                           [] OTHER -> KucoinCandles
      [] v = "BINGX" -> CASE f \in {"spot", "futures"} -> BingxTickers
                          [] f = "funding" -> FundingPoll
                          [] OTHER -> BingxCandles
      [] v = "MEXC" -> CASE f = "spot" -> MexcSpot
                         [] f = "futures" -> MexcFutures
                         [] f = "funding" -> MexcFunding
                         [] OTHER -> MexcCandles(f)

Descriptions == [v \in Venues8 |-> [f \in Feeds |-> Description(v, f)]]
D(f) == Descriptions[venue][f]
Has(f, step) == \E k \in 1..Len(D(f).steps) : D(f).steps[k] = step
Shards(f) == IF D(f).joint THEN Conns ELSE {1}

-----------------------------------------------------------------------------
(* The state. *)

NoQuote == [bid |-> 0, ask |-> 0, last |-> 0, base |-> 0, turnover |-> 0, vol |-> "absent"]

\* A map from instruments to quotes, as the read loops keep one: m[x] of an entry or
\* of none, and m[x] = q.
Known(m, x) == IF x \in DOMAIN m THEN m[x] ELSE NoQuote
With(m, x, q) == [y \in DOMAIN m \cup {x} |-> IF y = x THEN q ELSE m[y]]

\* A new connection: of no instrument has the exchange stated a quote ("sent") and
\* keeps the read loop one ("cache").
NoQuotes == [x \in {} |-> NoQuote]
NoConn == [st |-> "idle", at |-> 0, closer |-> FALSE, pinger |-> FALSE, writing |-> {},
           silent |-> FALSE, asked |-> FALSE, sent |-> NoQuotes, cache |-> NoQuotes,
           why |-> "none"]
Dialing == [NoConn EXCEPT !.st = "live", !.at = 1]
Nothing == [src |-> {}, to |-> {}]

FirstPC(f) == IF D(f).stores THEN "store" ELSE IF D(f).sink THEN "sink"
              ELSE IF D(f).list \in {"once", "try"} THEN "once" ELSE "round"

Init ==
    /\ venue \in Venues /\ group \in Groups(venue)
    /\ bad \in {FALSE} \cup {\E f \in group : D(f).reject = "fatal"}
    /\ ready = ("funding" \notin group)  \* ConnectFunding, of another group, stores it at once
    /\ cancelled = FALSE /\ health = FALSE /\ faults = 0
    /\ loop = [f \in Feeds |-> [pc |-> IF f \in group THEN FirstPC(f) ELSE "off",
                               attempt |-> 0, lived |-> FALSE, failed |-> FALSE, listed |-> FALSE]]
    /\ conn = [f \in Feeds |-> [i \in Conns |-> NoConn]]
    /\ out = Nothing

StepOf(f, i) == D(f).steps[conn[f][i].at]
Live(f, i) == loop[f].pc = "run" /\ conn[f][i].st = "live"
At(f, i, step) == Live(f, i) /\ StepOf(f, i) = step

\* The context of a connection: the connector's, and in a group of connections
\* the round's, cancelled by the first one that fails.
CtxDone(f) == cancelled \/ (D(f).joint /\ loop[f].failed)

NoDelivery == out' = Nothing
Fault == faults < MaxFaults /\ faults' = faults + 1
SetLoop(f, r) == loop' = [loop EXCEPT ![f] = r]
SetConn(f, i, r) == conn' = [conn EXCEPT ![f][i] = r]

\* A connection's goroutine returns: its deferred cancel and Close run. An error
\* counts unless its context is done already; the first one cancels the round.
EndConn(f, i, why) ==
    /\ SetConn(f, i, [NoConn EXCEPT !.st = "done", !.why = why])
    /\ loop' = [loop EXCEPT ![f].failed = @ \/ (why # "cancel" /\ ~CtxDone(f))]

-----------------------------------------------------------------------------
(* Backoff. *)

MaxAttempt == 4  \* the delay has reached its maximum: 3, 6, 12, 24, 30 seconds

\* Reset after a round of at least 30 seconds, where the loop has it, and the
\* attempt Wait counts.
AfterRound(f) ==
    LET attempt == IF D(f).reset /\ loop[f].lived THEN 0 ELSE loop[f].attempt
    IN  IF attempt < MaxAttempt THEN attempt + 1 ELSE MaxAttempt

-----------------------------------------------------------------------------
(* The reconnect loop of a feed. *)

Returned(f) == IF f = "funding" THEN "returned" ELSE "ended"

\* ConnectFunding of Bybit, OKX and Bitget: the sink is stored.
StoreSink(f) ==
    /\ loop[f].pc = "store"
    /\ ready' = TRUE
    /\ SetLoop(f, [loop[f] EXCEPT !.pc = "round"])
    /\ NoDelivery /\ UNCHANGED <<venue, group, bad, cancelled, conn, health, faults>>

\* ConnectFutures of the same adapters waits for it, or returns.
AwaitSink(f) ==
    /\ loop[f].pc = "sink" /\ (ready \/ cancelled)
    /\ \/ ready /\ SetLoop(f, [loop[f] EXCEPT !.pc = "round"])
       \/ cancelled /\ SetLoop(f, [loop[f] EXCEPT !.pc = Returned(f)])
    /\ NoDelivery /\ UNCHANGED <<venue, group, bad, cancelled, ready, conn, health, faults>>

\* A list that is loaded once, before the connections: until it succeeds.
LoadOnce(f) ==
    /\ loop[f].pc = "once"
    /\ IF cancelled
       THEN /\ SetLoop(f, [loop[f] EXCEPT !.pc = Returned(f)])
            /\ UNCHANGED faults
       ELSE \/ /\ SetLoop(f, [loop[f] EXCEPT !.pc = "round", !.listed = TRUE, !.attempt = 0])
               /\ UNCHANGED faults
            \/ /\ Fault
               /\ SetLoop(f, [loop[f] EXCEPT !.pc = IF D(f).list = "try" THEN Returned(f) ELSE "wait",
                                             !.attempt = AfterRound(f)])
    /\ NoDelivery /\ UNCHANGED <<venue, group, bad, cancelled, ready, conn, health>>

\* The head of the loop: the list of the round, then its connections. The
\* Binance funding stream is unhealthy from here until its next record.
StartRound(f) ==
    /\ loop[f].pc = "round"
    /\ IF cancelled
       THEN /\ SetLoop(f, [loop[f] EXCEPT !.pc = Returned(f)])
            /\ UNCHANGED <<conn, health, faults>>
       ELSE /\ health' = (health /\ D(f).marks # "dial")
            /\ \/ /\ SetLoop(f, [loop[f] EXCEPT !.pc = "run", !.lived = FALSE, !.failed = FALSE])
                  /\ conn' = [conn EXCEPT ![f] =
                        [i \in Conns |-> IF i \in Shards(f) THEN Dialing
                                         ELSE [NoConn EXCEPT !.st = "done"]]]
                  /\ UNCHANGED faults
               \/ /\ D(f).list = "round" /\ ~D(f).safe
                  /\ Fault
                  /\ SetLoop(f, [loop[f] EXCEPT !.pc = "run", !.lived = FALSE, !.failed = TRUE])
                  /\ conn' = [conn EXCEPT ![f] = [i \in Conns |-> [NoConn EXCEPT !.st = "done"]]]
    /\ NoDelivery /\ UNCHANGED <<venue, group, bad, cancelled, ready>>

\* Mutation of MarksAfterRound: a lost connection leaves the stream healthy.
NeverMarksAfterRound(f) == FALSE

\* Bybit marks the stream unhealthy after any error, OKX if its context is alive.
MarksAfterRound(f) ==
    D(f).marks = "round" /\ loop[f].failed /\ (venue = "OKX" => ~cancelled)

\* wg.Wait returned: all the connections of the round are done.
EndRound(f) ==
    /\ loop[f].pc = "run"
    /\ \A i \in Conns : conn[f][i].st = "done"
    /\ health' = (health /\ ~MarksAfterRound(f))
    /\ SetLoop(f, IF cancelled THEN [loop[f] EXCEPT !.pc = Returned(f)]
                  ELSE [loop[f] EXCEPT !.pc = "wait", !.attempt = AfterRound(f)])
    /\ conn' = [conn EXCEPT ![f] = [i \in Conns |-> NoConn]]
    /\ NoDelivery /\ UNCHANGED <<venue, group, bad, cancelled, ready, faults>>

\* Backoff.Wait: the timer, or the end of the context.
BackoffWait(f) ==
    /\ loop[f].pc = "wait"
    /\ \/ /\ cancelled
          /\ SetLoop(f, [loop[f] EXCEPT !.pc = Returned(f)])
       \/ SetLoop(f, [loop[f] EXCEPT !.pc =
                        IF D(f).list = "once" /\ ~loop[f].listed THEN "once" ELSE "round",
                                     !.failed = FALSE, !.lived = FALSE])
    /\ NoDelivery /\ UNCHANGED <<venue, group, bad, cancelled, ready, conn, health, faults>>

\* The connector's funding goroutine: SetStreamHealth(false) when
\* ConnectFunding has returned.
FundingReturned(f) ==
    /\ loop[f].pc = "returned"
    /\ health' = FALSE
    /\ SetLoop(f, [loop[f] EXCEPT !.pc = "ended"])
    /\ NoDelivery /\ UNCHANGED <<venue, group, bad, cancelled, ready, conn, faults>>

\* The context ends: RemoveConnector, a replacement or StopAll.
Cancel ==
    /\ ~cancelled /\ cancelled' = TRUE
    /\ NoDelivery /\ UNCHANGED <<venue, group, bad, ready, loop, conn, health, faults>>

\* A round has lasted 30 seconds.
LiveLong(f) ==
    /\ loop[f].pc = "run" /\ D(f).reset /\ ~loop[f].lived
    /\ \E i \in Shards(f) : At(f, i, "read")
    /\ SetLoop(f, [loop[f] EXCEPT !.lived = TRUE])
    /\ NoDelivery /\ UNCHANGED <<venue, group, bad, cancelled, ready, conn, health, faults>>

-----------------------------------------------------------------------------
(* A connection, one step at a time. *)

\* A step that cannot block: closeOnCtx and the keep-alives are started.
StartHelper(f, i) ==
    /\ \E step \in {"close", "beat", "control", "ping"} : At(f, i, step)
    /\ SetConn(f, i, [conn[f][i] EXCEPT !.at = @ + 1,
                                        !.closer = @ \/ StepOf(f, i) = "close",
                                        !.pinger = @ \/ StepOf(f, i) = "ping"])
    /\ NoDelivery /\ UNCHANGED <<venue, group, bad, cancelled, ready, loop, health, faults>>

\* A dial or a REST request of the connection: it succeeds, fails, or its
\* context ends it.
Request(f, i) ==
    /\ At(f, i, "dial") \/ At(f, i, "list")
    /\ \/ /\ SetConn(f, i, [conn[f][i] EXCEPT !.at = @ + 1])
          /\ UNCHANGED <<loop, faults>>
       \/ Fault /\ EndConn(f, i, "fault")
       \/ CtxDone(f) /\ EndConn(f, i, "cancel") /\ UNCHANGED faults
    /\ NoDelivery /\ UNCHANGED <<venue, group, bad, cancelled, ready, health>>

\* a.writeMu of the adapter: one data frame at a time over all its connections.
MayWrite(f) ==
    D(f).mutex => \A g \in group, j \in Conns : D(g).mutex => conn[g][j].writing = {}

\* The subscriptions are written, batch by batch; between the batches Bybit
\* looks at the context.
BeginSubscribe(f, i) ==
    /\ At(f, i, "sub") /\ "main" \notin conn[f][i].writing
    /\ MayWrite(f)
    /\ SetConn(f, i, [conn[f][i] EXCEPT !.writing = @ \cup {"main"}])
    /\ NoDelivery /\ UNCHANGED <<venue, group, bad, cancelled, ready, loop, health, faults>>

EndSubscribe(f, i) ==
    /\ At(f, i, "sub") /\ "main" \in conn[f][i].writing
    /\ \/ /\ SetConn(f, i, [conn[f][i] EXCEPT !.writing = @ \ {"main"}, !.at = @ + 1])
          /\ UNCHANGED <<loop, faults>>
       \/ Fault /\ EndConn(f, i, "fault")
       \/ /\ CtxDone(f) /\ (venue = "BYBIT" \/ conn[f][i].closer)
          /\ EndConn(f, i, "cancel") /\ UNCHANGED faults
    /\ NoDelivery /\ UNCHANGED <<venue, group, bad, cancelled, ready, health>>

\* The application's keep-alive goroutine writes its ping. That of the second
\* connection is left out: connections share no writer but the mutex.
BeginPing(f, i) ==
    /\ i = 1 /\ Live(f, i) /\ conn[f][i].pinger /\ "pinger" \notin conn[f][i].writing
    /\ MayWrite(f) /\ ~CtxDone(f)
    /\ SetConn(f, i, [conn[f][i] EXCEPT !.writing = @ \cup {"pinger"}])
    /\ NoDelivery /\ UNCHANGED <<venue, group, bad, cancelled, ready, loop, health, faults>>

EndPing(f, i) ==
    /\ Live(f, i) /\ "pinger" \in conn[f][i].writing
    /\ SetConn(f, i, [conn[f][i] EXCEPT !.writing = @ \ {"pinger"}])
    /\ NoDelivery /\ UNCHANGED <<venue, group, bad, cancelled, ready, loop, health, faults>>

Reading(f, i) == At(f, i, "read") /\ "main" \notin conn[f][i].writing

\* The exchange's own ping; a reader that answers writes a frame.
ServerPing(f, i) ==
    /\ Reading(f, i) /\ D(f).asks /\ ~conn[f][i].asked /\ ~conn[f][i].silent
    /\ SetConn(f, i, [conn[f][i] EXCEPT !.asked = TRUE])
    /\ NoDelivery /\ UNCHANGED <<venue, group, bad, cancelled, ready, loop, health, faults>>

BeginPong(f, i) ==
    /\ Reading(f, i) /\ D(f).pong /\ conn[f][i].asked /\ MayWrite(f)
    /\ SetConn(f, i, [conn[f][i] EXCEPT !.writing = @ \cup {"main"}])
    /\ NoDelivery /\ UNCHANGED <<venue, group, bad, cancelled, ready, loop, health, faults>>

EndPong(f, i) ==
    /\ At(f, i, "read") /\ "main" \in conn[f][i].writing
    /\ SetConn(f, i, [conn[f][i] EXCEPT !.writing = @ \ {"main"}, !.asked = FALSE])
    /\ NoDelivery /\ UNCHANGED <<venue, group, bad, cancelled, ready, loop, health, faults>>

\* What ends the read loop. The network fails, a frame exceeds the read limit, the
\* peer falls silent and the read deadline passes, the exchange drops a client that
\* owes it a pong, the market is quiet and no pong moves the deadline, closeOnCtx
\* closes, or a message makes the loop return.
NetworkFails(f, i) ==
    /\ Reading(f, i) /\ Fault
    /\ \/ EndConn(f, i, "fault")
       \/ ~conn[f][i].silent /\ SetConn(f, i, [conn[f][i] EXCEPT !.silent = TRUE]) /\ UNCHANGED loop
    /\ NoDelivery /\ UNCHANGED <<venue, group, bad, cancelled, ready, health>>

ReadDeadline(f, i) ==
    /\ Reading(f, i)
    /\ \/ conn[f][i].silent /\ EndConn(f, i, "fault")
       \/ Has(f, "control") /\ EndConn(f, i, "quiet")
       \/ conn[f][i].asked /\ ~D(f).pong /\ EndConn(f, i, "unanswered")
    /\ NoDelivery /\ UNCHANGED <<venue, group, bad, cancelled, ready, health, faults>>

CloseOnCtx(f, i) ==
    /\ Live(f, i) /\ CtxDone(f)
    /\ \/ At(f, i, "read") /\ conn[f][i].closer
       \/ At(f, i, "poll") \/ At(f, i, "park")
    /\ EndConn(f, i, "cancel")
    /\ NoDelivery /\ UNCHANGED <<venue, group, bad, cancelled, ready, health, faults>>

\* The exchange rejects the subscription of one instrument of the first shard.
\* Where that is at most logged nothing changes.
Rejected(f, i) ==
    /\ bad /\ i = 1 /\ Reading(f, i) /\ D(f).reject = "fatal"
    /\ EndConn(f, i, "rejected")
    /\ NoDelivery /\ UNCHANGED <<venue, group, bad, cancelled, ready, health, faults>>

\* The exchange sends a message that the read loop returns an error for. The
\* other feeds skip what they cannot use.
Malformed(f, i) ==
    /\ Reading(f, i) /\ ~conn[f][i].silent /\ ~(conn[f][i].asked /\ D(f).pong)
    /\ D(f).breaks /\ Fault
    /\ EndConn(f, i, "malformed")
    /\ NoDelivery /\ UNCHANGED <<venue, group, bad, cancelled, ready, health>>

-----------------------------------------------------------------------------
(* Messages. *)

\* The instruments a feed gets messages about: those it subscribed to, or all
\* of the market for the streams that cover it.
Subscribed(f) ==
    LET m == Market(f)
    IN  CASE venue = "BINANCE" -> IF m = "futures" /\ f \notin Candles THEN Listed(venue, m)
                                                                     ELSE BinanceSymbols(m)
          [] venue = "BYBIT" -> BybitSymbols(m)
          [] venue = "OKX" -> IF f \in Candles THEN OkxSymbols(m)
                              ELSE IF f = "funding" THEN OkxRawSwapSymbols ELSE OkxTickerInstIDs(m)
          [] venue = "BITGET" -> IF m = "spot" THEN BitgetSpotSymbols ELSE BitgetFuturesSymbols
          [] venue = "GATEIO" -> IF f = "funding" THEN Listed(venue, m) ELSE GateSymbols(m)
          [] venue = "KUCOIN" -> IF f \in Candles THEN KucoinCandleSymbols(m)
                                 ELSE {i \in Listed(venue, m) : f = "funding" => i.kind # "dated"}
          [] venue = "BINGX" -> IF f \in Candles THEN BingxCandleSymbols(m)
                                ELSE IF f = "funding" THEN Listed(venue, m) ELSE BingxTickerSymbols(m)
          [] venue = "MEXC" -> IF f \in {"spot", "futures"} THEN Listed(venue, m)
                                                            ELSE MexcCandleSymbols(m)

\* The ticks of a message. cache is what the connection keeps of the instrument:
\* its merged quote (Bybit) or its volume (Gate.io futures, BingX).
Ticks(f, i, q, cache) ==
    LET id == NativeID(venue, i)
        m  == Market(f)
        v  == Turnover(cache)
    IN  CASE venue = "BINANCE" -> BinanceTick(id, m, q)
          [] venue = "BYBIT" -> BybitTick(id, m, cache)
          [] venue = "OKX" -> OkxTick(id, m, q)
          [] venue = "BITGET" -> BitgetTick(id, m, q)
          [] venue = "GATEIO" -> IF m = "spot" THEN GateSpotTick(id, m, q) ELSE GateBookTick(id, q, v)
          [] venue = "KUCOIN" -> KucoinTick(id, m, q)
          [] venue = "BINGX" -> BingxTick(id, q, v)
          [] venue = "MEXC" -> IF m = "spot" THEN MexcSpotTick(id, m, q) ELSE MexcFuturesTick(id, i, q)

\* The key of a funding record: the ID without its separators. Bybit and Bitget
\* take the ID of the futures ticker as it is.
FundingKey(i) ==
    LET id == FundingID(venue, i)
    IN  CASE venue \in {"BINANCE", "BYBIT", "BITGET"} -> id
          [] venue \in {"OKX", "KUCOIN", "BINGX"} -> Without(id, {"-"})
          [] OTHER -> Without(id, {Underscore})

\* The key of a candle; Gate.io cuts the interval off first.
CandleKey(i) ==
    LET id == CandleID(venue, i)
    IN  CASE venue \in {"BINANCE", "BYBIT", "BITGET"} -> id
          [] venue \in {"OKX", "KUCOIN", "BINGX"} -> Without(id, {"-"})
          [] venue = "GATEIO" -> Without(SubSeq(id, 3, Len(id)), {Underscore})
          [] OTHER -> Without(id, Separators)

\* The funding streams: Binance's and OKX's own, the polls, and the futures
\* tickers of Bybit and Bitget.
CarriesFunding(f) == f = "funding" \/ (f = "futures" /\ venue \in {"BYBIT", "BITGET"})

\* Binance drops the records of contracts that are not USDT perpetuals.
FundingAccepted(i) == venue = "BINANCE" => EndsWith(NativeID(venue, i), <<"USDT">>)

Deliveries(f, i, q, cache) ==
    (IF f \in {"spot", "futures"}
     THEN {[sink |-> "tick", key |-> t.key, tick |-> t] : t \in Ticks(f, i, q, cache)} ELSE {})
    \cup
    (IF CarriesFunding(f) /\ FundingAccepted(i)
     THEN {[sink |-> "funding", key |-> FundingKey(i), tick |-> Tick(<<>>, NoQuote, 0)]} ELSE {})
    \cup
    (IF f \in Candles
     THEN {[sink |-> "candle", key |-> CandleKey(i), tick |-> Tick(<<>>, NoQuote, 0)]} ELSE {})

\* Bybit: a message has the fields that changed since the last one about its
\* symbol, in a snapshot all there are. A side that is gone is an empty field,
\* like one that did not change, or a zero.
Fields(sent, q) ==
    LET changed == {x \in {"bid", "ask", "vol"} :
                        CASE x = "bid" -> q.bid # sent.bid
                          [] x = "ask" -> q.ask # sent.ask
                          [] OTHER -> q.vol # "absent"
                                        /\ <<q.turnover, q.vol>> # <<sent.turnover, sent.vol>>}
        gone == {x \in {"bid", "ask"} : IF x = "bid" THEN q.bid = 0 ELSE q.ask = 0}
    IN  {changed \ empty : empty \in SUBSET gone}

\* Mutation of Overlay: an ask counts only in a message that has a bid too.
OverlayAskWithBid(cache, fields, q) ==
    [cache EXCEPT !.bid = IF "bid" \in fields THEN q.bid ELSE @,
                  !.ask = IF {"bid", "ask"} \subseteq fields THEN q.ask ELSE @,
                  !.turnover = IF "vol" \in fields THEN q.turnover ELSE @,
                  !.vol = IF "vol" \in fields THEN q.vol ELSE @]

\* readTickerShard: the fields a message has replace those of the symbol's cached
\* ticker.
Overlay(cache, fields, q) ==
    [cache EXCEPT !.bid = IF "bid" \in fields THEN q.bid ELSE @,
                  !.ask = IF "ask" \in fields THEN q.ask ELSE @,
                  !.turnover = IF "vol" \in fields THEN q.turnover ELSE @,
                  !.vol = IF "vol" \in fields THEN q.vol ELSE @]

\* Bybit's ticker connections merge; Gate.io futures and BingX get ticks and their
\* volumes on two channels.
MergesTicker(f) == venue = "BYBIT" /\ f \notin Candles
MergesVolume(f) == (venue = "GATEIO" /\ f = "futures") \/ (venue = "BINGX" /\ f \in {"spot", "futures"})

\* What such a volume message leaves: one that cannot be read, nothing; one without
\* a volume, nothing at Gate.io and a zero at BingX.
StoredVolume(cache, q) ==
    IF q.vol = "bad" \/ (q.vol = "absent" /\ venue = "GATEIO") THEN cache
    ELSE [cache EXCEPT !.turnover = q.turnover, !.vol = q.vol]

Deliver(f, s, cache) ==
    /\ out' = [src |-> {s}, to |-> Deliveries(f, s.inst, s.q, cache)]
    /\ health' = (health \/ \E d \in out'.to : d.sink = "funding")
    /\ UNCHANGED <<venue, group, bad, cancelled, ready, loop, faults>>

\* Connection c after a message about x that states q and leaves kept.
Keeping(c, x, q, kept) ==
    [c EXCEPT !.sent = With(@, x, q), !.cache = With(@, x, kept)]

\* The read loop handles a message about an instrument of the feed; also after a
\* cancellation, until the connection is closed.
Message(f, i) ==
    /\ Reading(f, i) /\ ~conn[f][i].silent /\ ~(conn[f][i].asked /\ D(f).pong)
    /\ \E s \in Samples[i] :
        /\ s.inst \in Subscribed(f)
        /\ LET c == conn[f][i]
               cached == Known(c.cache, s.inst)
           IN  \/ /\ MergesTicker(f)
                  /\ \E fields \in Fields(Known(c.sent, s.inst), s.q) :
                        LET merged == Overlay(cached, fields, s.q)
                        IN  /\ Deliver(f, s, merged)
                            /\ SetConn(f, i, Keeping(c, s.inst, s.q, merged))
               \/ ~MergesTicker(f) /\ Deliver(f, s, cached) /\ UNCHANGED conn
               \/ /\ MergesVolume(f)
                  /\ SetConn(f, i, Keeping(c, s.inst, s.q, StoredVolume(cached, s.q)))
                  /\ NoDelivery
                  /\ UNCHANGED <<venue, group, bad, cancelled, ready, loop, health, faults>>

\* A poll of the funding endpoint. One that fails changes nothing.
Poll(f, i) ==
    /\ At(f, i, "poll")
    /\ \E s \in Samples[i] : s.inst \in Subscribed(f) /\ Deliver(f, s, NoQuote)
    /\ UNCHANGED conn

-----------------------------------------------------------------------------
LoopStep(f) ==
    \/ StoreSink(f) \/ AwaitSink(f) \/ LoadOnce(f) \/ StartRound(f) \/ EndRound(f)
    \/ BackoffWait(f) \/ FundingReturned(f)

ConnStep(f, i) ==
    \/ StartHelper(f, i) \/ Request(f, i) \/ BeginSubscribe(f, i) \/ EndSubscribe(f, i)

Next ==
    \/ Cancel
    \/ \E f \in Feeds :
        \/ LoopStep(f) \/ LiveLong(f)
        \/ \E i \in Conns :
            \/ ConnStep(f, i) \/ BeginPing(f, i) \/ EndPing(f, i)
            \/ ServerPing(f, i) \/ BeginPong(f, i) \/ EndPong(f, i)
            \/ CloseOnCtx(f, i) \/ NetworkFails(f, i) \/ ReadDeadline(f, i)
            \/ Rejected(f, i) \/ Malformed(f, i) \/ Message(f, i) \/ Poll(f, i)

Progress(f) ==
    \/ LoopStep(f)
    \/ \E i \in Conns : ConnStep(f, i) \/ (conn[f][i].silent /\ ReadDeadline(f, i))

\* The goroutines of the funding stream and those of the other stream of a group
\* run, timers fire and the deadline of a silent connection passes; a write ends;
\* sync.Mutex is fair, so a goroutine that wants writeMu again and again gets it;
\* closeOnCtx runs. Nothing else is certain: no message, failure or cancellation.
Fairness ==
    /\ WF_vars(\E f \in Feeds \ {"funding"} : Progress(f))
    /\ WF_vars(Progress("funding"))
    /\ WF_vars(\E f \in Feeds : EndPing(f, 1))
    /\ WF_vars(\E f \in Feeds, i \in Conns : CloseOnCtx(f, i))
    /\ SF_vars(\E f \in Feeds : BeginSubscribe(f, 1) \/ BeginPong(f, 1) \/ EndPong(f, 1))

Spec == Init /\ [][Next]_vars /\ Fairness

-----------------------------------------------------------------------------
(* Properties. *)

LoopPCs == {"off", "store", "sink", "once", "round", "run", "wait", "returned", "ended"}

\* Type correctness of the loops and connections; attempts stay within MaxAttempt.
TypeOK ==
    /\ venue \in Venues /\ group \in Groups(venue) /\ faults \in 0..MaxFaults
    /\ {bad, cancelled, ready, health} \subseteq BOOLEAN
    /\ \A f \in Feeds : loop[f].pc \in LoopPCs /\ loop[f].attempt \in 0..MaxAttempt
                        /\ {loop[f].lived, loop[f].failed, loop[f].listed} \subseteq BOOLEAN
    /\ \A f \in Feeds, i \in Conns :
        /\ conn[f][i].st \in {"idle", "live", "done"}
        /\ conn[f][i].at \in 0..Len(D(f).steps)
        /\ conn[f][i].writing \subseteq {"main", "pinger"}
        /\ conn[f][i].why \in {"none", "fault", "quiet", "unanswered", "rejected", "malformed",
                               "cancel"}

\* gorilla/websocket allows one concurrent writer of data frames: the
\* subscriptions, the keep-alive goroutine and the pong of the read loop never
\* write to one connection at the same time (the comment at kucoin.go:554).
OneWriter == \A f \in group, i \in Conns : Cardinality(conn[f][i].writing) <= 1

\* The feeds that one rejected instrument takes down, round after round.
RejectionEnds(f) == D(f).reject = "fatal"

\* A connection that the network and the peer keep alive stays: neither a
\* rejected instrument, nor a ping of the exchange, nor a quiet market, nor a
\* message that is of no use ends it. Known exceptions: a rejection is fatal to
\* the tickers of Bitget and to the candles of six adapters (not Bybit's,
\* bybit.go:592); BingX candles and MEXC's futures candles answer no ping of the
\* exchange; Binance spot installs no pong handler; and the read loops of MEXC's
\* and Bybit's candles, of OKX's funding and of Bitget's futures return an error
\* for some messages, which ends the connection for all its instruments.
OnlyFaultsReconnect ==
    \A f \in group, i \in Conns :
        /\ conn[f][i].why = "rejected" =>
              f \in Candles \/ venue = "BITGET"
        /\ conn[f][i].why = "rejected" => venue # "BYBIT"
        /\ conn[f][i].why = "unanswered" =>
              (venue = "BINGX" /\ f \in Candles) \/ (venue = "MEXC" /\ f = "futuresCandles")
        /\ conn[f][i].why = "quiet" => venue = "BINANCE" /\ f = "spot"
        /\ conn[f][i].why = "malformed" =>
              \/ venue \in {"MEXC", "BYBIT"} /\ f \in Candles
              \/ venue = "OKX" /\ f = "funding"
              \/ venue = "BITGET" /\ f = "futures"

Canonical(i) == <<i.base, i.quote>>

\* The key names the instrument: the one of a spot pair or a perpetual contract
\* is its base and quote, the same on every exchange, and no other contract is
\* filed under the key of one.
Joins(key, i) ==
    IF i.kind \in {"spot", "perp"} THEN key = Canonical(i)
    ELSE \A j \in Instruments : j.kind = "perp" => key # Canonical(j)

\* The streams that file swaps under a key of their own: OKX funding and swap
\* candles keep the suffix SWAP, KuCoin's futures candles the old name and the M.
ForeignKeys(sink) == \/ venue = "OKX" /\ (sink = "funding" \/ "futuresCandles" \in group)
                     \/ venue = "KUCOIN" /\ "futuresCandles" \in group

\* Every other tick, funding record and candle is filed under the key by which
\* the aggregator, the funding manager and the volume engine look it up
\* (the normalizations of the adapters agree with one another).
KeysJoin ==
    \A s \in out.src : \A d \in out.to : ForeignKeys(d.sink) \/ Joins(d.key, s.inst)

\* What the exchange stated last of the volume of a message's instrument: in the
\* message or, where volumes have a channel of their own, on that.
Stated(s) ==
    IF \E f \in group : MergesVolume(f) THEN {Known(conn[f][1].sent, s.inst) : f \in group} ELSE {s.q}

\* The volumes that are a product with a price, not a stated turnover.
Estimated == venue \in {"OKX", "MEXC"} /\ "futures" \in group

\* A side of a tick is the one the exchange states; Bybit's cache keeps the older
\* one when the side is gone and its field empty (bybit.go:318-323).
ShowsSide(shown, stated) == shown = stated \/ (venue = "BYBIT" /\ stated = 0)

\* A tick shows the exchange's current book, uncrossed, and the turnover the
\* exchange stated last for that very instrument, although Bybit sends only what
\* changed and Gate.io futures and BingX send volumes on a channel of their own,
\* for all the instruments of a connection in any order.
TickIsTheBook ==
    \A s \in out.src : \A d \in out.to :
        d.sink = "tick" =>
            /\ ShowsSide(d.tick.bid, s.q.bid) /\ ShowsSide(d.tick.ask, s.q.ask)
            /\ 0 < d.tick.bid /\ d.tick.bid <= d.tick.ask
            /\ \A q \in Stated(s) : q.vol = "ok" /\ ~Estimated => d.tick.vol = q.turnover

\* While the stream that carries the funding is down and its loop waits to
\* reconnect, the exchange's funding is not healthy: a sibling connection that
\* delivers while the round is being torn down does not revive it. For the
\* adapters that mark an outage (Bybit, OKX; Binance marks it at the next dial).
\* Nor is it once the connector's goroutines have returned, the promise of
\* connector_manager.go:47, where ConnectFunding owns the stream: that of Bybit and
\* Bitget returns at once, and the futures stream may handle one more message.
OutageInvalidatesFunding ==
    /\ "funding" \in group /\ venue \notin {"BYBIT", "BITGET"}
            /\ (\A f \in group : loop[f].pc = "ended") => ~health
    /\ venue = "BYBIT" /\ loop["futures"].pc = "wait" => ~health
    /\ venue = "OKX" /\ loop["funding"].pc = "wait" => ~health
    /\ venue = "BINANCE" /\ loop["funding"].pc = "run"
            /\ ~At("funding", 1, "read") /\ conn["funding"][1].st = "live" => ~health

Up(f) == \A i \in Shards(f) : \E step \in {"read", "poll", "park"} : At(f, i, step)

\* A feed comes back after every failure, as long as its connector runs; a feed
\* that a rejection ends does if nothing is rejected.
FeedsRecover ==
    \A f \in Feeds :
        []<>(\/ f \notin group \/ cancelled \/ Up(f) \/ (bad /\ RejectionEnds(f)))

\* A cancelled connector stops: no read, no wait and no load outlives it.
StopsWhenCancelled == cancelled ~> \A f \in group : loop[f].pc = "ended"
=============================================================================
