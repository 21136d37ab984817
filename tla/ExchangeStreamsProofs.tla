------------------------ MODULE ExchangeStreamsProofs ------------------------
(* For every set of venues, instruments and messages and any number of      *)
(* faults: no connection has two concurrent writers, only what the code     *)
(* lists ends a healthy connection, an outage of the funding stream         *)
(* invalidates the exchange's funding, a tick shows the exchange's book,    *)
(* and what is delivered is filed under the key of its instrument.          *)
EXTENDS ExchangeStreams, FiniteSetTheorems, SequenceTheorems, TLAPS

-----------------------------------------------------------------------------
(* The descriptions of the feeds. *)

Steps == {"list", "dial", "sub", "close", "beat", "control", "ping", "read", "poll", "park"}
Desc == [steps : Seq(Steps), list : {"none", "once", "round"}, safe : BOOLEAN, joint : BOOLEAN,
         reset : BOOLEAN, reject : {"ignored", "fatal", "none"}, mutex : BOOLEAN,
         asks : BOOLEAN, pong : BOOLEAN, breaks : BOOLEAN, marks : {"round", "dial", "never"},
         sink : BOOLEAN, stores : BOOLEAN]

\* A connection ends in the step that lasts, and its subscriptions are written
\* before its keep-alive goroutine is started.
Ordered(s) ==
    /\ Len(s) > 0
    /\ \A k \in 1..Len(s) : s[k] \in {"read", "poll", "park"} <=> k = Len(s)
    /\ \A j, k \in 1..Len(s) : s[j] = "ping" /\ s[k] = "sub" => k < j
HasStep(s, step) == \E k \in 1..Len(s) : s[k] = step

\* What the invariant needs of the description d of feed f of venue v.
Sound(v, f, d) ==
    /\ d \in Desc /\ Ordered(d.steps)
    /\ d.pong => d.mutex
    /\ d.reject = "fatal" => v # "BYBIT" /\ (f \in Candles \/ v = "BITGET")
    /\ d.asks /\ ~d.pong => (v = "BINGX" /\ f \in Candles) \/ (v = "MEXC" /\ f = "futuresCandles")
    /\ d.breaks => \/ v \in {"MEXC", "BYBIT"} /\ f \in Candles
                   \/ v = "OKX" /\ f = "funding"
                   \/ v = "BITGET" /\ f = "futures"
    /\ HasStep(d.steps, "control") => v = "BINANCE" /\ f = "spot"
    /\ (v = "BYBIT" /\ f = "futures") \/ (v = "OKX" /\ f = "funding") =>
            d.marks = "round" /\ d.list = "round"
    /\ v = "BYBIT" /\ f = "funding" => d.steps = <<"park">>
    /\ v = "BINANCE" /\ f = "funding" =>
            d.marks = "dial" /\ ~d.joint /\ ~HasStep(d.steps, "poll") /\ ~HasStep(d.steps, "park")

-----------------------------------------------------------------------------
(* The inductive invariant. *)

Quote == [bid : Nat, ask : Nat, last : Nat, base : Nat, turnover : Nat, vol : {"ok", "absent", "bad"}]
Maps == UNION {[S -> Quote] : S \in SUBSET Instruments}
ConnRec == [st : {"idle", "live", "done"}, at : Nat, closer : BOOLEAN, pinger : BOOLEAN,
            writing : SUBSET {"main", "pinger"}, silent : BOOLEAN, asked : BOOLEAN,
            sent : Maps, cache : Maps,
            why : {"none", "fault", "quiet", "unanswered", "rejected", "malformed", "cancel"}]
LoopRec == [pc : LoopPCs, attempt : 0..MaxAttempt, lived : BOOLEAN, failed : BOOLEAN,
            listed : BOOLEAN]

Typed ==
    /\ venue \in Venues /\ group \in Groups(venue) /\ faults \in 0..MaxFaults
    /\ cancelled \in BOOLEAN /\ health \in BOOLEAN /\ ready \in BOOLEAN /\ bad \in BOOLEAN
    /\ loop \in [Feeds -> LoopRec]
    /\ conn \in [Feeds -> [Conns -> ConnRec]]

\* The i-th connection c of a feed with description d, whose loop is at pc: it
\* lives within a round only, its keep-alive goroutine writes after its "ping"
\* step was done, its reader while it subscribes or answers the exchange, under
\* the mutex not both at once, and it ended for a reason its description has.
ConnOK(d, pc, c, i) ==
    /\ c.st = "live" => pc = "run" /\ c.at \in 1..Len(d.steps) /\ (i = 1 \/ d.joint)
    /\ c.st # "live" => ~c.pinger /\ c.writing = {} /\ c.at = 0
    /\ c.pinger => \E k \in 1..(c.at - 1) : d.steps[k] = "ping"
    /\ "pinger" \in c.writing => c.pinger
    /\ "main" \in c.writing => d.steps[c.at] = "sub" \/ (d.steps[c.at] = "read" /\ d.pong)
    /\ d.mutex => ~({"main", "pinger"} \subseteq c.writing)
    /\ c.why = "rejected" => d.reject = "fatal"
    /\ c.why = "unanswered" => d.asks /\ ~d.pong
    /\ c.why = "quiet" => HasStep(d.steps, "control")
    /\ c.why = "malformed" => d.breaks
    /\ c.asked => d.asks

\* The loop l of feed f: it runs iff the feed is in the group, and a connection
\* that is done leaves an error behind, or was cancelled.
LoopOK(f, d, l, c) ==
    /\ l.pc = "off" <=> f \notin group
    /\ l.pc = "once" => d.list = "once"
    /\ l.pc = "run" /\ c.st = "done" => l.failed \/ cancelled

\* The funding is healthy only while its stream may deliver.
HealthOK ==
    /\ venue \notin {"BYBIT", "BITGET"} /\ loop["funding"].pc = "ended" => ~health
    /\ venue = "BYBIT" /\ loop["futures"].pc = "wait" => ~health
    /\ venue = "OKX" /\ loop["funding"].pc = "wait" => ~health
    /\ venue = "BINANCE" /\ conn["funding"][1].st = "live"
            /\ D("funding").steps[conn["funding"][1].at] # "read" => ~health

IInv ==
    /\ Typed
    /\ \A f \in Feeds, i \in Conns : ConnOK(D(f), loop[f].pc, conn[f][i], i)
    /\ \A f \in Feeds : LoopOK(f, D(f), loop[f], conn[f][1])
    /\ HealthOK
-----------------------------------------------------------------------------
(* The descriptions are sound. *)

StepSeqs ==
    {<<"dial", "close", "control", "read">>,
     <<"dial", "close", "beat", "read">>,
     <<"dial", "beat", "close", "read">>,
     <<"dial", "sub", "close", "ping", "read">>,
     <<"dial", "beat", "close", "sub", "read">>,
     <<"dial", "list", "sub", "close", "ping", "read">>,
     <<"list", "dial", "beat", "close", "sub", "ping", "read">>,
     <<"dial", "close", "sub", "read">>,
     <<"dial", "close", "sub", "ping", "read">>,
     <<"park">>,
     <<"poll">>}

\* The order of the steps of every adapter.
LEMMA StepOrder ==
    ASSUME NEW s \in StepSeqs
    PROVE  s \in Seq(Steps) /\ Ordered(s)
<1>1. CASE s = <<"dial", "close", "control", "read">>
  BY <1>1 DEF Steps, Ordered
<1>2. CASE s = <<"dial", "close", "beat", "read">>
  BY <1>2 DEF Steps, Ordered
<1>3. CASE s = <<"dial", "beat", "close", "read">>
  BY <1>3 DEF Steps, Ordered
<1>4. CASE s = <<"dial", "sub", "close", "ping", "read">>
  BY <1>4 DEF Steps, Ordered
<1>5. CASE s = <<"dial", "beat", "close", "sub", "read">>
  BY <1>5 DEF Steps, Ordered
<1>6. CASE s = <<"dial", "list", "sub", "close", "ping", "read">>
  BY <1>6 DEF Steps, Ordered
<1>7. CASE s = <<"list", "dial", "beat", "close", "sub", "ping", "read">>
  BY <1>7 DEF Steps, Ordered
<1>8. CASE s = <<"dial", "close", "sub", "read">>
  BY <1>8 DEF Steps, Ordered
<1>9. CASE s = <<"dial", "close", "sub", "ping", "read">>
  BY <1>9 DEF Steps, Ordered
<1>10. CASE s = <<"park">>
  BY <1>10 DEF Steps, Ordered
<1>11. CASE s = <<"poll">>
  BY <1>11 DEF Steps, Ordered
<1> QED
  BY <1>1, <1>2, <1>3, <1>4, <1>5, <1>6, <1>7, <1>8, <1>9, <1>10, <1>11 DEF StepSeqs

\* The steps that only some feeds have.
LEMMA RareSteps ==
    ASSUME NEW s \in StepSeqs
    PROVE  /\ HasStep(s, "control") => s = <<"dial", "close", "control", "read">>
           /\ s = <<"dial", "close", "beat", "read">> => ~HasStep(s, "poll") /\ ~HasStep(s, "park")
<1>1. CASE s = <<"dial", "close", "control", "read">>
  BY <1>1 DEF HasStep
<1>2. CASE s = <<"dial", "close", "beat", "read">>
  BY <1>2 DEF HasStep
<1>3. CASE s = <<"dial", "beat", "close", "read">>
  BY <1>3 DEF HasStep
<1>4. CASE s = <<"dial", "sub", "close", "ping", "read">>
  BY <1>4 DEF HasStep
<1>5. CASE s = <<"dial", "beat", "close", "sub", "read">>
  BY <1>5 DEF HasStep
<1>6. CASE s = <<"dial", "list", "sub", "close", "ping", "read">>
  BY <1>6 DEF HasStep
<1>7. CASE s = <<"list", "dial", "beat", "close", "sub", "ping", "read">>
  BY <1>7 DEF HasStep
<1>8. CASE s = <<"dial", "close", "sub", "read">>
  BY <1>8 DEF HasStep
<1>9. CASE s = <<"dial", "close", "sub", "ping", "read">>
  BY <1>9 DEF HasStep
<1>10. CASE s = <<"park">>
  BY <1>10 DEF HasStep
<1>11. CASE s = <<"poll">>
  BY <1>11 DEF HasStep
<1> QED
  BY <1>1, <1>2, <1>3, <1>4, <1>5, <1>6, <1>7, <1>8, <1>9, <1>10, <1>11 DEF StepSeqs

\* The values of a description; flags are the names of the true ones.
Is(d, steps, list, reject, marks, flags) ==
    /\ d \in Desc /\ d.steps = steps /\ d.list = list /\ d.reject = reject /\ d.marks = marks
    /\ (d.joint <=> "joint" \in flags) /\ (d.mutex <=> "mutex" \in flags)
    /\ (d.asks <=> "asks" \in flags) /\ (d.pong <=> "pong" \in flags)
    /\ (d.breaks <=> "breaks" \in flags)

\* What the descriptions have in common.
LEMMA DefaultsValues ==
    Is(Defaults, <<"dial", "close", "beat", "read">>, "none", "ignored", "never", {})
  BY DEF Defaults, Is, Desc, Steps

\* The descriptions of the BINANCE adapter.
LEMMA BinanceSound ==
    ASSUME NEW f \in Feeds PROVE Sound("BINANCE", f, Description("BINANCE", f))
<1>1. Is(BinanceSpot, <<"dial", "close", "control", "read">>, "once", "none", "never", {})
  BY StepOrder, DefaultsValues DEF BinanceSpot, Is, Desc, StepSeqs
<1>2. Is(BinanceFutures, <<"dial", "close", "beat", "read">>, "none", "none", "never", {})
  BY StepOrder, DefaultsValues DEF BinanceFutures, Is, Desc, StepSeqs
<1>3. Is(BinanceFunding, <<"dial", "close", "beat", "read">>, "none", "none", "dial", {})
  BY StepOrder, DefaultsValues DEF BinanceFunding, Is, Desc, StepSeqs
<1>4. Is(BinanceCandles, <<"dial", "beat", "close", "read">>, "once", "none", "never", {})
  BY StepOrder, DefaultsValues DEF BinanceCandles, Is, Desc, StepSeqs
<1> QED
  BY <1>1, <1>2, <1>3, <1>4, StepOrder, RareSteps DEF Description, Sound, Is, Feeds, Candles, StepSeqs

\* The descriptions of the BYBIT adapter.
LEMMA BybitSound ==
    ASSUME NEW f \in Feeds PROVE Sound("BYBIT", f, Description("BYBIT", f))
<1>1. Is(BybitTickers(f), <<"dial", "sub", "close", "ping", "read">>, "round", "ignored",
         IF f = "futures" THEN "round" ELSE "never", {"joint"})
  BY StepOrder, DefaultsValues DEF BybitTickers, Is, Desc, StepSeqs
<1>2. Is(FundingRider, <<"park">>, "none", "ignored", "never", {})
  BY StepOrder, DefaultsValues DEF FundingRider, Is, Desc, StepSeqs
<1>3. Is(BybitCandles, <<"dial", "beat", "close", "sub", "read">>, "round", "ignored", "never",
         {"joint", "breaks"})
  BY StepOrder, DefaultsValues DEF BybitCandles, Is, Desc, StepSeqs
<1> QED
  BY <1>1, <1>2, <1>3, StepOrder, RareSteps DEF Description, Sound, Is, Feeds, Candles, StepSeqs

\* The descriptions of the OKX adapter.
LEMMA OkxSound ==
    ASSUME NEW f \in Feeds PROVE Sound("OKX", f, Description("OKX", f))
<1>1. Is(OkxTickers(f), <<"dial", "list", "sub", "close", "ping", "read">>, "none", "ignored", "never", {})
  BY StepOrder, DefaultsValues DEF OkxTickers, Is, Desc, StepSeqs
<1>2. Is(OkxFunding, <<"dial", "sub", "close", "ping", "read">>, "round", "ignored", "round",
         {"joint", "breaks"})
  BY StepOrder, DefaultsValues DEF OkxFunding, Is, Desc, StepSeqs
<1>3. Is(OkxCandles, <<"dial", "beat", "close", "sub", "read">>, "round", "fatal", "never", {})
  BY StepOrder, DefaultsValues DEF OkxCandles, Is, Desc, StepSeqs
<1> QED
  BY <1>1, <1>2, <1>3, StepOrder, RareSteps DEF Description, Sound, Is, Feeds, Candles, StepSeqs

\* The descriptions of the BITGET adapter.
LEMMA BitgetSound ==
    ASSUME NEW f \in Feeds PROVE Sound("BITGET", f, Description("BITGET", f))
<1>1. Is(BitgetTickers(f), <<"dial", "sub", "close", "ping", "read">>, "round", "fatal", "never",
         IF f = "futures" THEN {"breaks"} ELSE {})
  BY StepOrder, DefaultsValues DEF BitgetTickers, Is, Desc, StepSeqs
<1>2. Is(FundingRider, <<"park">>, "none", "ignored", "never", {})
  BY StepOrder, DefaultsValues DEF FundingRider, Is, Desc, StepSeqs
<1>3. Is(BitgetCandles, <<"dial", "beat", "close", "sub", "read">>, "round", "fatal", "never", {})
  BY StepOrder, DefaultsValues DEF BitgetCandles, Is, Desc, StepSeqs
<1> QED
  BY <1>1, <1>2, <1>3, StepOrder, RareSteps DEF Description, Sound, Is, Feeds, Candles, StepSeqs

\* The descriptions of the GATEIO adapter.
LEMMA GateSound ==
    ASSUME NEW f \in Feeds PROVE Sound("GATEIO", f, Description("GATEIO", f))
<1>1. Is(GateSpot, <<"dial", "list", "sub", "close", "ping", "read">>, "none", "ignored", "never", {})
  BY StepOrder, DefaultsValues DEF GateSpot, Is, Desc, StepSeqs
<1>2. Is(GateFutures, <<"dial", "list", "sub", "close", "ping", "read">>, "none", "ignored", "never", {})
  BY StepOrder, DefaultsValues DEF GateFutures, Is, Desc, StepSeqs
<1>3. Is(FundingPoll, <<"poll">>, "none", "ignored", "never", {})
  BY StepOrder, DefaultsValues DEF FundingPoll, Is, Desc, StepSeqs
<1>4. Is(GateCandles, <<"dial", "beat", "close", "sub", "read">>, "round", "fatal", "never", {})
  BY StepOrder, DefaultsValues DEF GateCandles, Is, Desc, StepSeqs
<1> QED
  BY <1>1, <1>2, <1>3, <1>4, StepOrder, RareSteps DEF Description, Sound, Is, Feeds, Candles, StepSeqs

\* The descriptions of the KUCOIN adapter.
LEMMA KucoinSound ==
    ASSUME NEW f \in Feeds PROVE Sound("KUCOIN", f, Description("KUCOIN", f))
<1>1. Is(KucoinTickers, <<"dial", "sub", "close", "ping", "read">>, "round", "ignored", "never", {})
  BY StepOrder, DefaultsValues DEF KucoinTickers, Is, Desc, StepSeqs
<1>2. Is(FundingPoll, <<"poll">>, "none", "ignored", "never", {})
  BY StepOrder, DefaultsValues DEF FundingPoll, Is, Desc, StepSeqs
<1>3. Is(KucoinCandles, <<"list", "dial", "beat", "close", "sub", "ping", "read">>,
         "once", "fatal", "never", {})
  BY StepOrder, DefaultsValues DEF KucoinCandles, Is, Desc, StepSeqs
<1> QED
  BY <1>1, <1>2, <1>3, StepOrder, RareSteps DEF Description, Sound, Is, Feeds, Candles, StepSeqs

\* The descriptions of the BINGX adapter.
LEMMA BingxSound ==
    ASSUME NEW f \in Feeds PROVE Sound("BINGX", f, Description("BINGX", f))
<1>1. Is(BingxTickers, <<"dial", "close", "sub", "read">>,
         "once", "ignored", "never", {"mutex", "asks", "pong"})
  BY StepOrder, DefaultsValues DEF BingxTickers, Is, Desc, StepSeqs
<1>2. Is(FundingPoll, <<"poll">>, "none", "ignored", "never", {})
  BY StepOrder, DefaultsValues DEF FundingPoll, Is, Desc, StepSeqs
<1>3. Is(BingxCandles, <<"dial", "beat", "close", "sub", "read">>,
         "once", "fatal", "never", {"mutex", "asks"})
  BY StepOrder, DefaultsValues DEF BingxCandles, Is, Desc, StepSeqs
<1> QED
  BY <1>1, <1>2, <1>3, StepOrder, RareSteps DEF Description, Sound, Is, Feeds, Candles, StepSeqs

\* The descriptions of the MEXC adapter.
LEMMA MexcSound ==
    ASSUME NEW f \in Feeds PROVE Sound("MEXC", f, Description("MEXC", f))
<1>1. Is(MexcSpot, <<"dial", "sub", "close", "ping", "read">>, "none", "ignored", "never", {"mutex"})
  BY StepOrder, DefaultsValues DEF MexcSpot, Is, Desc, StepSeqs
<1>2. Is(MexcFutures, <<"dial", "sub", "close", "ping", "read">>,
         "once", "ignored", "never", {"mutex", "asks", "pong"})
  BY StepOrder, DefaultsValues DEF MexcFutures, Is, Desc, StepSeqs
<1>3. Is(MexcFunding, <<"poll">>, "once", "ignored", "never", {})
  BY StepOrder, DefaultsValues DEF MexcFunding, Is, Desc, StepSeqs
<1>4. Is(MexcCandles(f), <<"dial", "close", "sub", "ping", "read">>, "once", "fatal", "never",
         IF f = "futuresCandles" THEN {"mutex", "asks", "breaks"} ELSE {"mutex", "breaks"})
  BY StepOrder, DefaultsValues DEF MexcCandles, Is, Desc, StepSeqs
<1> QED
  BY <1>1, <1>2, <1>3, <1>4, StepOrder, RareSteps DEF Description, Sound, Is, Feeds, Candles, StepSeqs

\* Every feed of the connector has a sound description.
LEMMA DescriptionSound ==
    ASSUME venue \in Venues, NEW f \in Feeds
    PROVE  Sound(venue, f, D(f))
<1>1. venue \in Venues8 /\ D(f) = Description(venue, f)
  BY StreamAssumption DEF D, Descriptions
<1> QED
  BY <1>1, BinanceSound, BybitSound, OkxSound, BitgetSound, GateSound, KucoinSound, BingxSound,
     MexcSound DEF Venues8

\* The group of the funding feed, and of Bybit's futures.
LEMMA GroupFacts ==
    ASSUME group \in Groups(venue)
    PROVE  /\ group \subseteq Feeds
           /\ "funding" \in group /\ venue \notin {"BYBIT", "BITGET"} => group = {"funding"}
           /\ "futures" \in group /\ venue = "BYBIT" => group = {"futures", "funding"}
  BY DEF Groups, Feeds

\* The values of a connection before a round.
LEMMA Values ==
    /\ NoConn \in ConnRec /\ NoConn.st = "idle" /\ NoConn.at = 0 /\ ~NoConn.pinger
    /\ NoConn.writing = {} /\ NoConn.why = "none" /\ ~NoConn.asked
<1>1. NoQuotes \in [{} -> Quote]
  BY DEF NoQuotes
<1>2. NoQuotes \in Maps
  BY <1>1, Zenon DEF Maps
<1> QED
  BY <1>2 DEF NoConn, ConnRec

\* The invariant holds initially.
LEMMA InitInv == Init => IInv
<1> SUFFICES ASSUME Init PROVE IInv
  OBVIOUS
<1>1. \A f \in Feeds : Sound(venue, f, D(f))
  BY DescriptionSound DEF Init
<1>2. \A f \in Feeds : FirstPC(f) \in LoopPCs \ {"off", "run", "wait", "ended"}
                       /\ (FirstPC(f) = "once" => D(f).list = "once")
  BY <1>1 DEF FirstPC, LoopPCs, Sound, Desc
<1>3. loop \in [Feeds -> LoopRec]
  BY <1>2 DEF Init, LoopRec, LoopPCs, MaxAttempt
<1>4. conn \in [Feeds -> [Conns -> ConnRec]] /\ \A f \in Feeds, i \in Conns : conn[f][i] = NoConn
  BY Values DEF Init
<1>5. Typed
  <2>1. bad \in BOOLEAN /\ ready \in BOOLEAN
    BY DEF Init
  <2>2. cancelled \in BOOLEAN /\ health \in BOOLEAN
    BY DEF Init
  <2>3. venue \in Venues /\ group \in Groups(venue) /\ faults \in 0..MaxFaults
    BY StreamAssumption DEF Init
  <2> QED
    BY <1>3, <1>4, <2>1, <2>2, <2>3, Zenon DEF Typed
<1>6. \A f \in Feeds, i \in Conns : ConnOK(D(f), loop[f].pc, conn[f][i], i)
  BY <1>4, Values DEF ConnOK
<1>7. \A f \in Feeds : loop[f].pc = IF f \in group THEN FirstPC(f) ELSE "off"
  BY DEF Init
<1>8. \A f \in Feeds : LoopOK(f, D(f), loop[f], conn[f][1])
  BY <1>2, <1>7 DEF LoopOK
<1>9. HealthOK
  BY DEF Init, HealthOK
<1> QED
  BY <1>5, <1>6, <1>8, <1>9 DEF IInv

-----------------------------------------------------------------------------
(* Steps of one feed. *)

\* The variables a feed's step sets freely keep their types.
Misc ==
    /\ faults' \in 0..MaxFaults /\ bad' \in BOOLEAN /\ ready' \in BOOLEAN /\ health' \in BOOLEAN
    /\ UNCHANGED <<venue, group, cancelled>>

\* A connection of the feed may deliver.
Delivers(f) ==
    \E j \in Conns : conn[f][j].st = "live" /\ D(f).steps[conn[f][j].at] \in {"read", "poll"}

\* Feed f changes its loop to l and its connections to cs.
LEMMA FeedStep ==
    ASSUME IInv, Misc, NEW f \in Feeds, NEW l \in LoopRec, NEW cs \in [Conns -> ConnRec],
           loop' = [loop EXCEPT ![f] = l], conn' = [conn EXCEPT ![f] = cs],
           loop[f].pc # "off", l.pc # "off", l.pc = "once" => D(f).list = "once",
           l.pc = "run" /\ cs[1].st = "done" => l.failed \/ cancelled,
           \A i \in Conns : ConnOK(D(f), l.pc, cs[i], i),
           health' => health \/ Delivers(f),
           f = "funding" /\ l.pc = "ended" /\ venue \notin {"BYBIT", "BITGET"} => ~health',
           l.pc = "wait" /\ <<venue, f>> \in {<<"BYBIT", "futures">>, <<"OKX", "funding">>} => ~health',
           venue = "BINANCE" /\ f = "funding" /\ cs[1].st = "live"
                /\ D(f).steps[cs[1].at] # "read" => ~health'
    PROVE  IInv'
<1>1. /\ loop' \in [Feeds -> LoopRec] /\ loop'[f] = l
      /\ \A g \in Feeds : g # f => loop'[g] = loop[g]
  BY DEF IInv, Typed
<1>2. /\ conn' \in [Feeds -> [Conns -> ConnRec]] /\ conn'[f] = cs
      /\ \A g \in Feeds : g # f => conn'[g] = conn[g]
  BY DEF IInv, Typed
<1>3. \A g \in Feeds : D(g)' = D(g)
  BY DEF D, Misc
<1>4. Typed'
  BY <1>1, <1>2, Zenon DEF IInv, Typed, Misc
<1>5. \A g \in Feeds, i \in Conns : ConnOK(D(g)', loop'[g].pc, conn'[g][i], i)
  BY <1>1, <1>2, <1>3 DEF IInv
<1>6. f \in group /\ \A g \in Feeds : loop[g].pc = "off" <=> g \notin group
  BY DEF IInv, LoopOK
<1>7. \A g \in Feeds : LoopOK(g, D(g), loop[g], conn[g][1])'
  <2> SUFFICES ASSUME NEW g \in Feeds PROVE LoopOK(g, D(g), loop[g], conn[g][1])'
    OBVIOUS
  <2>1. CASE g = f
    BY <1>1, <1>2, <1>3, <1>6, <2>1 DEF LoopOK, Misc
  <2>2. CASE g # f
    BY <1>1, <1>2, <1>3, <2>2 DEF IInv, LoopOK, Misc
  <2> QED
    BY <2>1, <2>2
<1>8. HealthOK'
  <2>1. group \in Groups(venue) /\ venue \in Venues
    BY DEF IInv, Typed
  <2>2. /\ "funding" \in group /\ venue \notin {"BYBIT", "BITGET"} => f = "funding"
        /\ "futures" \in group /\ venue = "BYBIT" => f \in {"futures", "funding"}
    BY <1>6, <2>1, GroupFacts
  <2>3. venue = "BYBIT" /\ f = "funding" => ~Delivers(f)
    <3> SUFFICES ASSUME venue = "BYBIT", f = "funding", NEW j \in Conns, conn[f][j].st = "live"
                 PROVE  D(f).steps[conn[f][j].at] \notin {"read", "poll"}
      BY DEF Delivers
    <3>1. D(f).steps = <<"park">>
      BY <2>1, DescriptionSound DEF Sound
    <3>2. conn[f][j].at \in 1..Len(D(f).steps)
      BY DEF IInv, ConnOK
    <3> QED
      BY <3>1, <3>2
  <2>4. "funding" \in Feeds /\ "futures" \in Feeds /\ 1 \in Conns
    BY DEF Feeds, Conns
  <2>5. (venue \notin {"BYBIT", "BITGET"} /\ loop["funding"].pc = "ended" => ~health)'
    BY <1>1, <1>6, <2>2, <2>4 DEF Misc
  <2>6. (venue = "OKX" /\ loop["funding"].pc = "wait" => ~health)'
    BY <1>1, <1>6, <2>2, <2>4 DEF Misc
  <2>7. (venue = "BYBIT" /\ loop["futures"].pc = "wait" => ~health)'
    <3> SUFFICES ASSUME venue = "BYBIT", loop'["futures"].pc = "wait", health' PROVE FALSE
      BY DEF Misc
    <3>1. CASE f = "futures"
      BY <1>1, <3>1
    <3>2. CASE f # "futures"
      <4>1. loop["futures"].pc = "wait"
        BY <1>1, <2>4, <3>2
      <4>2. f = "funding"
        BY <1>6, <2>2, <2>4, <3>2, <4>1
      <4> QED
        BY <2>3, <4>1, <4>2 DEF IInv, HealthOK
    <3> QED
      BY <3>1, <3>2
  <2>8. (venue = "BINANCE" /\ conn["funding"][1].st = "live"
            /\ D("funding").steps[conn["funding"][1].at] # "read" => ~health)'
    <3> SUFFICES ASSUME venue = "BINANCE", conn'["funding"][1].st = "live",
                        D("funding").steps[conn'["funding"][1].at] # "read", health'
                 PROVE  FALSE
      BY <1>3, <2>4 DEF Misc
    <3>1. CASE f = "funding"
      BY <1>2, <3>1
    <3>2. CASE f # "funding"
      BY <1>2, <1>6, <2>2, <2>4, <3>2 DEF IInv, ConnOK
    <3> QED
      BY <3>1, <3>2
  <2> QED
    BY <2>5, <2>6, <2>7, <2>8 DEF HealthOK
<1> QED
  BY <1>4, <1>5, <1>7, <1>8 DEF IInv

\* The loop moves and leaves its connections alone.
LEMMA LoopOnly ==
    ASSUME IInv, Misc, NEW f \in Feeds, NEW l \in LoopRec,
           loop' = [loop EXCEPT ![f] = l], UNCHANGED conn,
           loop[f].pc # "off", l.pc # "off", l.pc = "once" => D(f).list = "once",
           l.pc = "run" <=> loop[f].pc = "run", l.failed \/ ~loop[f].failed \/ l.pc # "run",
           health' => health,
           f = "funding" /\ l.pc = "ended" /\ venue \notin {"BYBIT", "BITGET"} => ~health',
           l.pc = "wait" => <<venue, f>> \notin {<<"BYBIT", "futures">>, <<"OKX", "funding">>}
    PROVE  IInv'
<1>1. conn[f] \in [Conns -> ConnRec] /\ conn' = [conn EXCEPT ![f] = conn[f]] /\ 1 \in Conns
  BY DEF IInv, Typed, Conns
<1>2. \A i \in Conns : ConnOK(D(f), l.pc, conn[f][i], i)
  BY DEF IInv, ConnOK
<1>3. l.pc = "run" /\ conn[f][1].st = "done" => l.failed \/ cancelled
  BY DEF IInv, LoopOK
<1>4. venue = "BINANCE" /\ f = "funding" /\ conn[f][1].st = "live"
        /\ D(f).steps[conn[f][1].at] # "read" => ~health'
  BY DEF IInv, HealthOK
<1> QED
  BY <1>1, <1>2, <1>3, <1>4, FeedStep

\* What the loop's actions may assume.
LEMMA LoopFacts ==
    ASSUME IInv, NEW f \in Feeds
    PROVE  /\ loop[f] \in LoopRec /\ venue \in Venues /\ Sound(venue, f, D(f))
           /\ AfterRound(f) \in 0..MaxAttempt
           /\ Returned(f) \in LoopPCs \ {"off", "run", "wait", "once"}
           /\ f = "funding" => Returned(f) # "ended"
<1>1. loop[f] \in LoopRec /\ venue \in Venues
  BY DEF IInv, Typed
<1> QED
  BY <1>1, DescriptionSound DEF LoopRec, AfterRound, MaxAttempt, Returned, LoopPCs

\* The types of what an action of the loop leaves alone.
LEMMA MiscFacts ==
    ASSUME IInv
    PROVE  /\ faults \in 0..MaxFaults /\ bad \in BOOLEAN /\ ready \in BOOLEAN /\ health \in BOOLEAN
           /\ Fault => faults' \in 0..MaxFaults
<1>1. /\ faults \in 0..MaxFaults /\ bad \in BOOLEAN /\ ready \in BOOLEAN /\ health \in BOOLEAN
  BY DEF IInv, Typed
<1>2. MaxFaults \in Nat
  BY StreamAssumption
<1> QED
  BY <1>1, <1>2 DEF Fault

\* ConnectFunding stores its sink.
LEMMA StoreSinkInv ==
    ASSUME IInv, NEW f \in Feeds, StoreSink(f)
    PROVE  IInv'
<1> DEFINE l == [loop[f] EXCEPT !.pc = "round"]
<1>1. l \in LoopRec /\ l.pc = "round"
  BY LoopFacts DEF LoopRec, LoopPCs
<1>2. loop' = [loop EXCEPT ![f] = l] /\ loop[f].pc = "store" /\ UNCHANGED <<conn, health>>
  BY DEF StoreSink, SetLoop
<1>3. Misc
  BY MiscFacts DEF StoreSink, Misc
<1> HIDE DEF l
<1> QED
  BY <1>1, <1>2, <1>3, LoopOnly

\* ConnectFutures waits for it, or returns.
LEMMA AwaitSinkInv ==
    ASSUME IInv, NEW f \in Feeds, AwaitSink(f)
    PROVE  IInv'
<1>1. PICK pc \in {"round", Returned(f)} : loop' = [loop EXCEPT ![f] = [loop[f] EXCEPT !.pc = pc]]
  BY DEF AwaitSink, SetLoop
<1> DEFINE l == [loop[f] EXCEPT !.pc = pc]
<1>2. l \in LoopRec /\ l.pc = pc
  BY LoopFacts DEF LoopRec, LoopPCs
<1>3. loop' = [loop EXCEPT ![f] = l] /\ loop[f].pc = "sink" /\ UNCHANGED <<conn, health>>
  BY <1>1 DEF AwaitSink
<1>4. Misc
  BY MiscFacts DEF AwaitSink, Misc
<1>5. pc \notin {"off", "run", "wait", "once"} /\ (f = "funding" => pc # "ended")
  BY LoopFacts
<1> HIDE DEF l
<1> QED
  BY <1>2, <1>3, <1>4, <1>5, LoopOnly

\* A list that is loaded once; neither Bybit futures nor OKX funding has one.
LEMMA LoadOnceInv ==
    ASSUME IInv, NEW f \in Feeds, LoadOnce(f)
    PROVE  IInv'
<1>1. loop[f].pc = "once" /\ UNCHANGED <<conn, health>>
  BY DEF LoadOnce
<1>2. D(f).list = "once"
  BY <1>1 DEF IInv, LoopOK
<1>3. <<venue, f>> \notin {<<"BYBIT", "futures">>, <<"OKX", "funding">>}
  BY <1>2, LoopFacts DEF Sound
<1>4. Misc
  BY MiscFacts DEF LoadOnce, Misc
<1>5. PICK l \in LoopRec : /\ loop' = [loop EXCEPT ![f] = l]
                           /\ l.pc \in {"round", "wait", Returned(f)}
  <2>1. CASE SetLoop(f, [loop[f] EXCEPT !.pc = Returned(f)])
    <3> DEFINE l == [loop[f] EXCEPT !.pc = Returned(f)]
    <3>1. l \in LoopRec /\ l.pc = Returned(f)
      BY LoopFacts DEF LoopRec
    <3> QED
      BY <2>1, <3>1 DEF SetLoop
  <2>2. CASE SetLoop(f, [loop[f] EXCEPT !.pc = "round", !.listed = TRUE, !.attempt = 0])
    <3> DEFINE l == [loop[f] EXCEPT !.pc = "round", !.listed = TRUE, !.attempt = 0]
    <3>1. 0 \in 0..MaxAttempt /\ "round" \in LoopPCs
      BY DEF MaxAttempt, LoopPCs
    <3>2. l \in LoopRec /\ l.pc = "round"
      BY <3>1, LoopFacts DEF LoopRec
    <3> QED
      BY <2>2, <3>2 DEF SetLoop
  <2>3. CASE SetLoop(f, [loop[f] EXCEPT !.pc = IF D(f).list = "try" THEN Returned(f) ELSE "wait",
                                        !.attempt = AfterRound(f)])
    <3> DEFINE l == [loop[f] EXCEPT !.pc = "wait", !.attempt = AfterRound(f)]
    <3>1. l \in LoopRec /\ l.pc = "wait"
      BY LoopFacts DEF LoopRec, LoopPCs
    <3> QED
      BY <1>2, <2>3, <3>1 DEF SetLoop
  <2> QED
    BY <2>1, <2>2, <2>3 DEF LoadOnce
<1>6. l.pc \notin {"off", "run", "once"} /\ (f = "funding" => l.pc # "ended")
  BY <1>5, LoopFacts
<1> QED
  BY <1>1, <1>3, <1>4, <1>5, <1>6, LoopOnly

\* Backoff.Wait ends.
LEMMA BackoffWaitInv ==
    ASSUME IInv, NEW f \in Feeds, BackoffWait(f)
    PROVE  IInv'
<1>1. loop[f].pc = "wait" /\ UNCHANGED <<conn, health>>
  BY DEF BackoffWait
<1>2. Misc
  BY MiscFacts DEF BackoffWait, Misc
<1>3. PICK l \in LoopRec : /\ loop' = [loop EXCEPT ![f] = l]
                           /\ l.pc \in {"round", "once", Returned(f)}
                           /\ l.pc = "once" => D(f).list = "once"
  <2>1. CASE SetLoop(f, [loop[f] EXCEPT !.pc = Returned(f)])
    <3> DEFINE l == [loop[f] EXCEPT !.pc = Returned(f)]
    <3>1. l \in LoopRec /\ l.pc = Returned(f)
      BY LoopFacts DEF LoopRec
    <3> QED
      BY <2>1, <3>1, LoopFacts DEF SetLoop
  <2>2. ASSUME NEW pc \in {"round", "once"}, pc = "once" => D(f).list = "once",
               SetLoop(f, [loop[f] EXCEPT !.pc = pc, !.failed = FALSE, !.lived = FALSE])
        PROVE  \E l \in LoopRec : /\ loop' = [loop EXCEPT ![f] = l]
                                  /\ l.pc \in {"round", "once", Returned(f)}
                                  /\ l.pc = "once" => D(f).list = "once"
    <3> DEFINE l == [loop[f] EXCEPT !.pc = pc, !.failed = FALSE, !.lived = FALSE]
    <3>1. l \in LoopRec /\ l.pc = pc
      BY LoopFacts DEF LoopRec, LoopPCs
    <3> QED
      BY <2>2, <3>1 DEF SetLoop
  <2>3. CASE D(f).list = "once" /\ ~loop[f].listed
    BY <2>1, <2>2, <2>3 DEF BackoffWait
  <2>4. CASE ~(D(f).list = "once" /\ ~loop[f].listed)
    BY <2>1, <2>2, <2>4 DEF BackoffWait
  <2> QED
    BY <2>3, <2>4
<1>4. l.pc \notin {"off", "run", "wait"} /\ (f = "funding" => l.pc # "ended")
  BY <1>3, LoopFacts
<1> QED
  BY <1>1, <1>2, <1>3, <1>4, LoopOnly

\* The connector's funding goroutine marks the stream as it ends.
LEMMA FundingReturnedInv ==
    ASSUME IInv, NEW f \in Feeds, FundingReturned(f)
    PROVE  IInv'
<1> DEFINE l == [loop[f] EXCEPT !.pc = "ended"]
<1>1. l \in LoopRec /\ l.pc = "ended"
  BY LoopFacts DEF LoopRec, LoopPCs
<1>2. loop' = [loop EXCEPT ![f] = l] /\ loop[f].pc = "returned" /\ UNCHANGED conn /\ ~health'
  BY DEF FundingReturned, SetLoop
<1>3. Misc
  BY MiscFacts DEF FundingReturned, Misc
<1> HIDE DEF l
<1> QED
  BY <1>1, <1>2, <1>3, LoopOnly

\* A round lives long enough for the backoff to be reset.
LEMMA LiveLongInv ==
    ASSUME IInv, NEW f \in Feeds, LiveLong(f)
    PROVE  IInv'
<1> DEFINE l == [loop[f] EXCEPT !.lived = TRUE]
<1>1. l \in LoopRec /\ l.pc = loop[f].pc /\ l.failed = loop[f].failed
  BY LoopFacts DEF LoopRec
<1>2. loop' = [loop EXCEPT ![f] = l] /\ loop[f].pc = "run" /\ UNCHANGED <<conn, health>>
  BY DEF LiveLong, SetLoop
<1>3. Misc
  BY MiscFacts DEF LiveLong, Misc
<1>4. l.failed \/ ~loop[f].failed
  BY <1>1
<1> HIDE DEF l
<1> QED
  BY <1>1, <1>2, <1>3, <1>4, LoopOnly

\* The head of the loop: the connections of the round are dialled, or its list
\* could not be loaded.
LEMMA StartRoundInv ==
    ASSUME IInv, NEW f \in Feeds, StartRound(f)
    PROVE  IInv'
<1>1. loop[f].pc = "round" /\ 1 \in Conns
  BY DEF StartRound, Conns
<1>2. /\ loop[f] \in LoopRec /\ Sound(venue, f, D(f)) /\ "run" \in LoopPCs
      /\ conn \in [Feeds -> [Conns -> ConnRec]] /\ cancelled \in BOOLEAN
  BY LoopFacts DEF IInv, Typed, LoopPCs
<1>3. CASE cancelled
  <2> DEFINE l == [loop[f] EXCEPT !.pc = Returned(f)]
  <2>1. l \in LoopRec /\ l.pc = Returned(f)
    BY LoopFacts DEF LoopRec
  <2>2. loop' = [loop EXCEPT ![f] = l] /\ UNCHANGED <<conn, health>>
    BY <1>3 DEF StartRound, SetLoop
  <2>3. Misc
    BY <1>3, MiscFacts DEF StartRound, Misc
  <2>4. l.pc \notin {"off", "run", "wait", "once"} /\ (f = "funding" => l.pc # "ended")
    BY <2>1, LoopFacts
  <2> HIDE DEF l
  <2> QED
    BY <1>1, <2>1, <2>2, <2>3, <2>4, LoopOnly
<1>4. CASE ~cancelled
  <2> DEFINE Closed == [NoConn EXCEPT !.st = "done"]
  <2>1. /\ health' \in BOOLEAN /\ (health' => health) /\ (D(f).marks = "dial" => ~health')
    BY <1>4, MiscFacts DEF StartRound
  <2>2. Misc
    BY <1>4, <2>1, MiscFacts DEF StartRound, Misc
  <2>3. venue = "BINANCE" /\ f = "funding" => ~health'
    BY <1>2, <2>1 DEF Sound
  <2>4. /\ Closed \in ConnRec /\ Closed.st = "done" /\ Closed.at = 0 /\ ~Closed.pinger
        /\ Closed.writing = {} /\ Closed.why = "none" /\ ~Closed.asked
    BY Values DEF ConnRec
  <2>5. /\ Dialing \in ConnRec /\ Dialing.st = "live" /\ Dialing.at = 1 /\ ~Dialing.pinger
        /\ Dialing.writing = {} /\ Dialing.why = "none" /\ ~Dialing.asked
    BY Values DEF ConnRec, Dialing
  <2> HIDE DEF Closed
  <2>6. \A i \in Conns : ConnOK(D(f), "run", Closed, i)
    BY <2>4 DEF ConnOK
  <2>7. \A i \in Shards(f) : ConnOK(D(f), "run", Dialing, i)
    BY <1>2, <2>5 DEF ConnOK, Shards, Sound, Ordered, Desc
  <2>8. ASSUME NEW failed \in BOOLEAN, NEW cs \in [Conns -> ConnRec],
               SetLoop(f, [loop[f] EXCEPT !.pc = "run", !.lived = FALSE, !.failed = failed]),
               conn' = [conn EXCEPT ![f] = cs],
               \A i \in Conns : ConnOK(D(f), "run", cs[i], i),
               cs[1].st = "done" => failed
        PROVE  IInv'
    <3> DEFINE l == [loop[f] EXCEPT !.pc = "run", !.lived = FALSE, !.failed = failed]
    <3>1. l \in LoopRec /\ l.pc = "run" /\ l.failed = failed
      BY <1>2 DEF LoopRec
    <3>2. loop' = [loop EXCEPT ![f] = l]
      BY <2>8 DEF SetLoop
    <3>3. l.pc = "run" /\ cs[1].st = "done" => l.failed \/ cancelled
      BY <2>8, <3>1
    <3> HIDE DEF l
    <3> QED
      BY <1>1, <2>1, <2>2, <2>3, <2>8, <3>1, <3>2, <3>3, FeedStep
  <2>9. CASE /\ SetLoop(f, [loop[f] EXCEPT !.pc = "run", !.lived = FALSE, !.failed = FALSE])
             /\ conn' = [conn EXCEPT ![f] =
                            [i \in Conns |-> IF i \in Shards(f) THEN Dialing ELSE Closed]]
    <3> DEFINE cs == [i \in Conns |-> IF i \in Shards(f) THEN Dialing ELSE Closed]
    <3>1. cs \in [Conns -> ConnRec] /\ \A i \in Conns : ConnOK(D(f), "run", cs[i], i)
      BY <2>4, <2>5, <2>6, <2>7
    <3>2. 1 \in Shards(f)
      BY <1>1 DEF Shards
    <3>3. cs[1].st = "live"
      BY <1>1, <2>5, <3>2
    <3> HIDE DEF cs
    <3> QED
      BY <2>8, <2>9, <3>1, <3>3 DEF cs
  <2>10. CASE /\ SetLoop(f, [loop[f] EXCEPT !.pc = "run", !.lived = FALSE, !.failed = TRUE])
              /\ conn' = [conn EXCEPT ![f] = [i \in Conns |-> Closed]]
    <3> DEFINE cs == [i \in Conns |-> Closed]
    <3>1. cs \in [Conns -> ConnRec] /\ \A i \in Conns : ConnOK(D(f), "run", cs[i], i)
      BY <2>4, <2>6
    <3> QED
      BY <2>8, <2>10, <3>1
  <2> QED
    BY <1>4, <2>9, <2>10 DEF StartRound, Closed
<1> QED
  BY <1>2, <1>3, <1>4

\* wg.Wait returned. A round that ends without a cancellation has failed, so
\* Bybit's and OKX's funding is invalidated before the loop waits.
LEMMA EndRoundInv ==
    ASSUME IInv, NEW f \in Feeds, EndRound(f)
    PROVE  IInv'
<1>1. /\ loop[f].pc = "run" /\ \A i \in Conns : conn[f][i].st = "done"
      /\ conn' = [conn EXCEPT ![f] = [i \in Conns |-> NoConn]] /\ 1 \in Conns
  BY DEF EndRound, Conns
<1>2. loop[f] \in LoopRec /\ Sound(venue, f, D(f)) /\ cancelled \in BOOLEAN
  BY LoopFacts DEF IInv, Typed
<1>3. loop[f].failed \/ cancelled
  BY <1>1 DEF IInv, LoopOK
<1>4. health' \in BOOLEAN /\ (health' => health) /\ (MarksAfterRound(f) => ~health')
  BY MiscFacts DEF EndRound
<1>5. Misc
  BY <1>4, MiscFacts DEF EndRound, Misc
<1> DEFINE cs == [i \in Conns |-> NoConn]
<1>6. cs \in [Conns -> ConnRec] /\ \A i \in Conns : cs[i] = NoConn
  BY Values
<1> HIDE DEF cs
<1>7. ASSUME NEW l \in LoopRec, loop' = [loop EXCEPT ![f] = l],
             l.pc \notin {"off", "run", "once"}, f = "funding" => l.pc # "ended",
             l.pc = "wait" => ~cancelled
      PROVE  IInv'
  <2>1. \A i \in Conns : ConnOK(D(f), l.pc, cs[i], i)
    BY <1>6, Values DEF ConnOK
  <2>2. l.pc = "wait" /\ <<venue, f>> \in {<<"BYBIT", "futures">>, <<"OKX", "funding">>} => ~health'
    BY <1>2, <1>3, <1>4, <1>7 DEF MarksAfterRound, Sound
  <2> QED
    BY <1>1, <1>4, <1>5, <1>6, <1>7, <2>1, <2>2, Values, FeedStep DEF cs
<1>8. CASE cancelled
  <2> DEFINE l == [loop[f] EXCEPT !.pc = Returned(f)]
  <2>1. l \in LoopRec /\ l.pc = Returned(f)
    BY LoopFacts DEF LoopRec
  <2>2. loop' = [loop EXCEPT ![f] = l]
    BY <1>8 DEF EndRound, SetLoop
  <2>3. l.pc \notin {"off", "run", "wait", "once"} /\ (f = "funding" => l.pc # "ended")
    BY <2>1, LoopFacts
  <2> HIDE DEF l
  <2> QED
    BY <1>7, <2>1, <2>2, <2>3
<1>9. CASE ~cancelled
  <2> DEFINE l == [loop[f] EXCEPT !.pc = "wait", !.attempt = AfterRound(f)]
  <2>1. l \in LoopRec /\ l.pc = "wait"
    BY LoopFacts DEF LoopRec, LoopPCs
  <2>2. loop' = [loop EXCEPT ![f] = l]
    BY <1>9 DEF EndRound, SetLoop
  <2> HIDE DEF l
  <2> QED
    BY <1>7, <1>9, <2>1, <2>2
<1> QED
  BY <1>2, <1>8, <1>9

-----------------------------------------------------------------------------
(* Steps of one connection. *)

\* What the actions of an open connection may assume.
LEMMA LiveFacts ==
    ASSUME IInv, NEW f \in Feeds, NEW i \in Conns, Live(f, i)
    PROVE  /\ loop[f].pc = "run" /\ conn[f][i] \in ConnRec /\ conn[f][i].st = "live"
           /\ conn[f][i].at \in 1..Len(D(f).steps) /\ Len(D(f).steps) \in Nat
           /\ ConnOK(D(f), "run", conn[f][i], i) /\ Sound(venue, f, D(f))
<1>1. loop[f].pc = "run" /\ conn[f][i] \in ConnRec /\ conn[f][i].st = "live"
  BY DEF IInv, Typed, Live
<1>2. ConnOK(D(f), "run", conn[f][i], i)
  BY <1>1 DEF IInv
<1>3. Sound(venue, f, D(f))
  BY LoopFacts
<1> QED
  BY <1>1, <1>2, <1>3 DEF ConnOK, Sound, Desc

\* An open connection changes and stays open.
LEMMA OpenStep ==
    ASSUME IInv, Misc, NEW f \in Feeds, NEW i \in Conns, NEW c \in ConnRec, Live(f, i),
           SetConn(f, i, c), UNCHANGED loop, c.st = "live", ConnOK(D(f), "run", c, i),
           health' => health \/ StepOf(f, i) \in {"read", "poll"},
           StepOf(f, i) = "read" => c.at = conn[f][i].at
    PROVE  IInv'
<1> DEFINE cs == [conn[f] EXCEPT ![i] = c]
<1>1. /\ conn \in [Feeds -> [Conns -> ConnRec]] /\ loop \in [Feeds -> LoopRec] /\ venue \in Venues
      /\ 1 \in Conns
  BY DEF IInv, Typed, Conns
<1>2. conn[f] \in [Conns -> ConnRec]
  BY <1>1
<1>3. /\ cs \in [Conns -> ConnRec] /\ cs[i] = c
      /\ \A j \in Conns : j # i => cs[j] = conn[f][j]
  BY <1>2
<1>4. conn' = [conn EXCEPT ![f] = cs]
  BY <1>1, <1>2 DEF SetConn
<1>5. loop' = [loop EXCEPT ![f] = loop[f]] /\ loop[f] \in LoopRec /\ loop[f].pc = "run"
  BY <1>1 DEF Live
<1> HIDE DEF cs
<1>6. \A j \in Conns : ConnOK(D(f), loop[f].pc, cs[j], j)
  BY <1>3, <1>5 DEF IInv
<1>7. cs[1].st = "done" => loop[f].failed \/ cancelled
  BY <1>1, <1>3, <1>5 DEF IInv, LoopOK
<1>8. health' => health \/ Delivers(f)
  BY DEF Delivers, Live, StepOf
<1>9. venue = "BINANCE" /\ f = "funding" /\ cs[1].st = "live" /\ D(f).steps[cs[1].at] # "read"
        => ~health'
  <2> SUFFICES ASSUME venue = "BINANCE", f = "funding", D(f).steps[cs[1].at] # "read"
               PROVE  ~health'
    OBVIOUS
  <2>1. i = 1 /\ StepOf(f, i) # "poll"
    BY LiveFacts DEF Sound, HasStep, ConnOK, StepOf
  <2>2. StepOf(f, i) # "read"
    BY <1>3, <2>1 DEF StepOf
  <2>3. ~health
    BY <2>1, <2>2 DEF IInv, HealthOK, Live, StepOf
  <2> QED
    BY <2>1, <2>2, <2>3
<1> QED
  BY <1>3, <1>4, <1>5, <1>6, <1>7, <1>8, <1>9, FeedStep

\* A connection ends: for a reason its description has, or because its context
\* is done.
LEMMA EndConnInv ==
    ASSUME IInv, Misc, NEW f \in Feeds, NEW i \in Conns, Live(f, i), UNCHANGED health,
           NEW why \in {"fault", "quiet", "unanswered", "rejected", "malformed", "cancel"},
           EndConn(f, i, why),
           why = "cancel" => CtxDone(f),
           why = "rejected" => D(f).reject = "fatal",
           why = "unanswered" => D(f).asks /\ ~D(f).pong,
           why = "quiet" => HasStep(D(f).steps, "control"),
           why = "malformed" => D(f).breaks
    PROVE  IInv'
<1> DEFINE c == [NoConn EXCEPT !.st = "done", !.why = why]
           cs == [conn[f] EXCEPT ![i] = c]
           l == [loop[f] EXCEPT !.failed = @ \/ (why # "cancel" /\ ~CtxDone(f))]
<1>1. /\ conn \in [Feeds -> [Conns -> ConnRec]] /\ loop \in [Feeds -> LoopRec] /\ venue \in Venues
      /\ 1 \in Conns
  BY DEF IInv, Typed, Conns
<1>2. conn[f] \in [Conns -> ConnRec] /\ loop[f] \in LoopRec /\ loop[f].pc = "run"
  BY <1>1 DEF Live
<1>3. /\ c \in ConnRec /\ c.st = "done" /\ c.at = 0 /\ ~c.pinger /\ c.writing = {} /\ c.why = why
      /\ ~c.asked
  BY Values DEF ConnRec
<1>4. conn' = [conn EXCEPT ![f] = cs]
  BY <1>1, <1>2 DEF EndConn, SetConn
<1>5. loop' = [loop EXCEPT ![f] = l]
  BY <1>1, <1>2 DEF EndConn
<1>6. l \in LoopRec /\ l.pc = "run"
  BY <1>2 DEF LoopRec
<1>7. l.failed <=> loop[f].failed \/ (why # "cancel" /\ ~CtxDone(f))
  BY <1>2 DEF LoopRec
<1>8. l.failed \/ cancelled
  BY <1>7 DEF CtxDone
<1> HIDE DEF c, l
<1>9. /\ cs \in [Conns -> ConnRec] /\ cs[i] = c
      /\ \A j \in Conns : j # i => cs[j] = conn[f][j]
  BY <1>2, <1>3
<1> HIDE DEF cs
<1>10. ConnOK(D(f), "run", c, i)
  BY <1>3 DEF ConnOK
<1>11. \A j \in Conns : ConnOK(D(f), "run", cs[j], j)
  BY <1>2, <1>9, <1>10 DEF IInv
<1>12. venue = "BINANCE" /\ f = "funding" /\ cs[1].st = "live" /\ D(f).steps[cs[1].at] # "read"
        => ~health'
  BY <1>1, <1>3, <1>9 DEF IInv, HealthOK
<1> QED
  BY <1>2, <1>4, <1>5, <1>6, <1>8, <1>9, <1>11, <1>12, FeedStep

\* The feed that moves is in the group, so under the mutex nobody writes to its
\* connections when it begins to.
LEMMA MayWriteFacts ==
    ASSUME IInv, NEW f \in Feeds, NEW i \in Conns, Live(f, i), MayWrite(f)
    PROVE  D(f).mutex => conn[f][i].writing = {}
  BY DEF IInv, LoopOK, Live, MayWrite

\* closeOnCtx or a keep-alive is started.
LEMMA StartHelperInv ==
    ASSUME IInv, NEW f \in Feeds, NEW i \in Conns, StartHelper(f, i)
    PROVE  IInv'
<1> DEFINE c == [conn[f][i] EXCEPT !.at = @ + 1, !.closer = @ \/ StepOf(f, i) = "close",
                                   !.pinger = @ \/ StepOf(f, i) = "ping"]
<1>1. /\ Live(f, i) /\ StepOf(f, i) \in {"close", "beat", "control", "ping"}
      /\ SetConn(f, i, c) /\ UNCHANGED <<loop, health>>
  BY DEF StartHelper, At
<1>2. Misc
  BY MiscFacts DEF StartHelper, Misc
<1>3. c \in ConnRec
  <2>1. conn[f][i] \in ConnRec
    BY <1>1, LiveFacts
  <2>2. conn[f][i].at + 1 \in Nat
    BY <2>1 DEF ConnRec
  <2> QED
    BY <2>1, <2>2 DEF ConnRec
<1>4. /\ c.st = "live" /\ c.at = conn[f][i].at + 1 /\ c.writing = conn[f][i].writing
      /\ c.why = conn[f][i].why /\ c.asked = conn[f][i].asked
  BY <1>1, LiveFacts DEF ConnRec
<1>5. c.pinger <=> conn[f][i].pinger \/ StepOf(f, i) = "ping"
  BY <1>1, LiveFacts DEF ConnRec
<1> HIDE DEF c
<1>6. conn[f][i].at + 1 \in 1..Len(D(f).steps)
  BY <1>1, LiveFacts DEF Sound, Ordered, StepOf
<1>7. c.pinger => \E k \in 1..(c.at - 1) : D(f).steps[k] = "ping"
  <2> SUFFICES ASSUME c.pinger PROVE \E k \in 1..conn[f][i].at : D(f).steps[k] = "ping"
    BY <1>1, <1>4, LiveFacts
  <2>1. CASE conn[f][i].pinger
    BY <1>1, <2>1, LiveFacts DEF ConnOK
  <2>2. CASE StepOf(f, i) = "ping"
    BY <1>1, <2>2, LiveFacts DEF StepOf
  <2> QED
    BY <1>5, <2>1, <2>2
<1>8. ConnOK(D(f), "run", c, i)
  BY <1>1, <1>4, <1>5, <1>6, <1>7, LiveFacts DEF ConnOK, StepOf
<1> QED
  BY <1>1, <1>2, <1>3, <1>4, <1>8, OpenStep

\* The connection moves on to its next step.
LEMMA AdvanceInv ==
    ASSUME IInv, Misc, NEW f \in Feeds, NEW i \in Conns, Live(f, i), UNCHANGED <<loop, health>>,
           StepOf(f, i) \in {"dial", "list", "sub"},
           NEW w \in {conn[f][i].writing, conn[f][i].writing \ {"main"}}, "main" \notin w,
           SetConn(f, i, [conn[f][i] EXCEPT !.writing = w, !.at = @ + 1])
    PROVE  IInv'
<1> DEFINE c == [conn[f][i] EXCEPT !.writing = w, !.at = @ + 1]
<1>1. c \in ConnRec
  <2>1. conn[f][i] \in ConnRec
    BY LiveFacts
  <2>2. conn[f][i].at + 1 \in Nat /\ w \in SUBSET {"main", "pinger"}
    BY <2>1 DEF ConnRec
  <2> QED
    BY <2>1, <2>2 DEF ConnRec
<1>2. /\ c.st = "live" /\ c.at = conn[f][i].at + 1 /\ c.writing = w
      /\ c.why = conn[f][i].why /\ c.asked = conn[f][i].asked /\ c.pinger = conn[f][i].pinger
  BY LiveFacts DEF ConnRec
<1> HIDE DEF c
<1>3. conn[f][i].at + 1 \in 1..Len(D(f).steps)
  BY LiveFacts DEF Sound, Ordered, StepOf
<1>4. c.pinger => \E k \in 1..(c.at - 1) : D(f).steps[k] = "ping"
  <2> SUFFICES ASSUME conn[f][i].pinger PROVE \E k \in 1..conn[f][i].at : D(f).steps[k] = "ping"
    BY <1>2, LiveFacts
  <2> QED
    BY LiveFacts DEF ConnOK
<1>5. ConnOK(D(f), "run", c, i)
  BY <1>2, <1>3, <1>4, LiveFacts DEF ConnOK
<1> QED
  BY <1>1, <1>2, <1>5, OpenStep DEF c

\* A dial or a REST request ends.
LEMMA RequestInv ==
    ASSUME IInv, NEW f \in Feeds, NEW i \in Conns, Request(f, i)
    PROVE  IInv'
<1>1. Live(f, i) /\ StepOf(f, i) \in {"dial", "list"} /\ UNCHANGED health
  BY DEF Request, At
<1>2. Misc
  <2>1. (UNCHANGED faults \/ Fault) /\ UNCHANGED <<venue, group, bad, cancelled, ready, health>>
    BY Zenon DEF Request
  <2> QED
    BY <2>1, MiscFacts DEF Misc
<1>3. CASE SetConn(f, i, [conn[f][i] EXCEPT !.at = @ + 1]) /\ UNCHANGED loop
  <2>1. PICK w : w = conn[f][i].writing
    OBVIOUS
  <2>2. "main" \notin w
    BY <1>1, <2>1, LiveFacts DEF ConnOK, StepOf
  <2>3. [conn[f][i] EXCEPT !.at = @ + 1] = [conn[f][i] EXCEPT !.writing = w, !.at = @ + 1]
    BY <1>1, <2>1, LiveFacts DEF ConnRec
  <2> QED
    BY <1>1, <1>2, <1>3, <2>1, <2>2, <2>3, AdvanceInv
<1>4. CASE EndConn(f, i, "fault")
  BY <1>1, <1>2, <1>4, EndConnInv
<1>5. CASE CtxDone(f) /\ EndConn(f, i, "cancel")
  BY <1>1, <1>2, <1>5, EndConnInv
<1> QED
  BY <1>3, <1>4, <1>5 DEF Request

\* The subscriptions are written, or the write fails.
LEMMA EndSubscribeInv ==
    ASSUME IInv, NEW f \in Feeds, NEW i \in Conns, EndSubscribe(f, i)
    PROVE  IInv'
<1>1. Live(f, i) /\ StepOf(f, i) = "sub" /\ UNCHANGED health
  BY Zenon DEF EndSubscribe, At
<1>2. Misc
  <2>1. (UNCHANGED faults \/ Fault) /\ UNCHANGED <<venue, group, bad, cancelled, ready, health>>
    BY Zenon DEF EndSubscribe
  <2> QED
    BY <2>1, MiscFacts DEF Misc
<1>3. CASE SetConn(f, i, [conn[f][i] EXCEPT !.writing = @ \ {"main"}, !.at = @ + 1]) /\ UNCHANGED loop
  BY <1>1, <1>2, <1>3, AdvanceInv
<1>4. CASE EndConn(f, i, "fault")
  BY <1>1, <1>2, <1>4, EndConnInv
<1>5. CASE CtxDone(f) /\ EndConn(f, i, "cancel")
  BY <1>1, <1>2, <1>5, EndConnInv
<1> QED
  BY <1>3, <1>4, <1>5 DEF EndSubscribe

\* A write begins or ends, or the exchange asks: the connection's place stays.
LEMMA WriteInv ==
    ASSUME IInv, Misc, NEW f \in Feeds, NEW i \in Conns, Live(f, i), UNCHANGED <<loop, health>>,
           NEW w \in SUBSET {"main", "pinger"}, NEW a \in BOOLEAN, a => D(f).asks,
           SetConn(f, i, [conn[f][i] EXCEPT !.writing = w, !.asked = a]),
           "pinger" \in w => conn[f][i].pinger,
           "main" \in w => StepOf(f, i) = "sub" \/ (StepOf(f, i) = "read" /\ D(f).pong),
           D(f).mutex => ~({"main", "pinger"} \subseteq w)
    PROVE  IInv'
<1> DEFINE c == [conn[f][i] EXCEPT !.writing = w, !.asked = a]
<1>1. c \in ConnRec
  <2>1. conn[f][i] \in ConnRec
    BY LiveFacts
  <2> QED
    BY <2>1 DEF ConnRec
<1>2. /\ c.st = "live" /\ c.at = conn[f][i].at /\ c.writing = w
      /\ c.why = conn[f][i].why /\ c.asked = a /\ c.pinger = conn[f][i].pinger
  BY LiveFacts DEF ConnRec
<1> HIDE DEF c
<1>3. ConnOK(D(f), "run", c, i)
  BY <1>2, LiveFacts DEF ConnOK, StepOf
<1> QED
  BY <1>1, <1>2, <1>3, OpenStep DEF c

\* The subscriptions begin.
LEMMA BeginSubscribeInv ==
    ASSUME IInv, NEW f \in Feeds, NEW i \in Conns, BeginSubscribe(f, i)
    PROVE  IInv'
<1>1. /\ Live(f, i) /\ StepOf(f, i) = "sub" /\ MayWrite(f) /\ UNCHANGED <<loop, health>>
      /\ SetConn(f, i, [conn[f][i] EXCEPT !.writing = @ \cup {"main"}])
  BY DEF BeginSubscribe, At
<1>2. Misc
  BY MiscFacts DEF BeginSubscribe, Misc
<1>3. conn[f][i] \in ConnRec
  BY <1>1, LiveFacts
<1>4. PICK w \in SUBSET {"main", "pinger"} : w = conn[f][i].writing \cup {"main"}
  BY <1>3 DEF ConnRec
<1>5. PICK a \in BOOLEAN : a = conn[f][i].asked
  BY <1>3 DEF ConnRec
<1>6. SetConn(f, i, [conn[f][i] EXCEPT !.writing = w, !.asked = a])
  <2>1. [conn[f][i] EXCEPT !.writing = @ \cup {"main"}] = [conn[f][i] EXCEPT !.writing = w, !.asked = a]
    BY <1>3, <1>4, <1>5 DEF ConnRec
  <2> QED
    BY <1>1, <2>1
<1>7. /\ a => D(f).asks
      /\ "pinger" \in w => conn[f][i].pinger
      /\ D(f).mutex => ~({"main", "pinger"} \subseteq w)
  BY <1>1, <1>4, <1>5, LiveFacts, MayWriteFacts DEF ConnOK
<1> QED
  BY <1>1, <1>2, <1>6, <1>7, WriteInv

\* The keep-alive goroutine writes: its "ping" step is done.
LEMMA BeginPingInv ==
    ASSUME IInv, NEW f \in Feeds, NEW i \in Conns, BeginPing(f, i)
    PROVE  IInv'
<1>1. /\ Live(f, i) /\ conn[f][i].pinger /\ MayWrite(f) /\ UNCHANGED <<loop, health>>
      /\ SetConn(f, i, [conn[f][i] EXCEPT !.writing = @ \cup {"pinger"}])
  BY DEF BeginPing
<1>2. Misc
  BY MiscFacts DEF BeginPing, Misc
<1>3. conn[f][i] \in ConnRec
  BY <1>1, LiveFacts
<1>4. PICK w \in SUBSET {"main", "pinger"} : w = conn[f][i].writing \cup {"pinger"}
  BY <1>3 DEF ConnRec
<1>5. PICK a \in BOOLEAN : a = conn[f][i].asked
  BY <1>3 DEF ConnRec
<1>6. SetConn(f, i, [conn[f][i] EXCEPT !.writing = w, !.asked = a])
  <2>1. [conn[f][i] EXCEPT !.writing = @ \cup {"pinger"}] = [conn[f][i] EXCEPT !.writing = w, !.asked = a]
    BY <1>3, <1>4, <1>5 DEF ConnRec
  <2> QED
    BY <1>1, <2>1
<1>7. /\ a => D(f).asks
      /\ "main" \in w => StepOf(f, i) = "sub" \/ (StepOf(f, i) = "read" /\ D(f).pong)
      /\ D(f).mutex => ~({"main", "pinger"} \subseteq w)
  BY <1>1, <1>4, <1>5, LiveFacts, MayWriteFacts DEF ConnOK, StepOf
<1> QED
  BY <1>1, <1>2, <1>6, <1>7, WriteInv

\* A write ends, or the exchange asks: nobody begins to write.
LEMMA FewerWritersInv ==
    ASSUME IInv, Misc, NEW f \in Feeds, NEW i \in Conns, Live(f, i), UNCHANGED <<loop, health>>,
           NEW w \in SUBSET conn[f][i].writing, NEW a \in BOOLEAN, a => D(f).asks,
           SetConn(f, i, [conn[f][i] EXCEPT !.writing = w, !.asked = a])
    PROVE  IInv'
<1>1. w \in SUBSET {"main", "pinger"}
  BY LiveFacts DEF ConnRec
<1>2. /\ "pinger" \in w => conn[f][i].pinger
      /\ "main" \in w => StepOf(f, i) = "sub" \/ (StepOf(f, i) = "read" /\ D(f).pong)
      /\ D(f).mutex => ~({"main", "pinger"} \subseteq w)
  BY LiveFacts DEF ConnOK, StepOf
<1> QED
  BY <1>1, <1>2, WriteInv

\* Its write ends.
LEMMA EndPingInv ==
    ASSUME IInv, NEW f \in Feeds, NEW i \in Conns, EndPing(f, i)
    PROVE  IInv'
<1>1. /\ Live(f, i) /\ UNCHANGED <<loop, health>>
      /\ SetConn(f, i, [conn[f][i] EXCEPT !.writing = @ \ {"pinger"}])
  BY DEF EndPing
<1>2. Misc
  BY MiscFacts DEF EndPing, Misc
<1>3. conn[f][i] \in ConnRec
  BY <1>1, LiveFacts
<1>4. PICK a \in BOOLEAN : a = conn[f][i].asked
  BY <1>3 DEF ConnRec
<1>5. [conn[f][i] EXCEPT !.writing = @ \ {"pinger"}]
        = [conn[f][i] EXCEPT !.writing = @ \ {"pinger"}, !.asked = a]
  BY <1>3, <1>4 DEF ConnRec
<1>6. a => D(f).asks
  BY <1>1, <1>4, LiveFacts DEF ConnOK
<1>7. PICK w \in SUBSET conn[f][i].writing : w = conn[f][i].writing \ {"pinger"}
  OBVIOUS
<1>8. SetConn(f, i, [conn[f][i] EXCEPT !.writing = w, !.asked = a])
  BY <1>1, <1>5, <1>7
<1> QED
  BY <1>1, <1>2, <1>6, <1>8, FewerWritersInv

\* The answer to the exchange is written.
LEMMA EndPongInv ==
    ASSUME IInv, NEW f \in Feeds, NEW i \in Conns, EndPong(f, i)
    PROVE  IInv'
<1>1. /\ Live(f, i) /\ UNCHANGED <<loop, health>>
      /\ SetConn(f, i, [conn[f][i] EXCEPT !.writing = @ \ {"main"}, !.asked = FALSE])
  BY DEF EndPong, At
<1>2. Misc
  BY MiscFacts DEF EndPong, Misc
<1> QED
  BY <1>1, <1>2, FewerWritersInv

\* The exchange asks for an answer.
LEMMA ServerPingInv ==
    ASSUME IInv, NEW f \in Feeds, NEW i \in Conns, ServerPing(f, i)
    PROVE  IInv'
<1>1. /\ Live(f, i) /\ UNCHANGED <<loop, health>> /\ D(f).asks
      /\ SetConn(f, i, [conn[f][i] EXCEPT !.asked = TRUE])
  BY DEF ServerPing, Reading, At
<1>2. Misc
  BY MiscFacts DEF ServerPing, Misc
<1>3. conn[f][i] \in ConnRec
  BY <1>1, LiveFacts
<1>4. PICK w : w = conn[f][i].writing
  OBVIOUS
<1>5. [conn[f][i] EXCEPT !.asked = TRUE] = [conn[f][i] EXCEPT !.writing = w, !.asked = TRUE]
  BY <1>3, <1>4 DEF ConnRec
<1> QED
  BY <1>1, <1>2, <1>4, <1>5, FewerWritersInv

\* The reader answers: it does so under the mutex.
LEMMA BeginPongInv ==
    ASSUME IInv, NEW f \in Feeds, NEW i \in Conns, BeginPong(f, i)
    PROVE  IInv'
<1>1. /\ Live(f, i) /\ StepOf(f, i) = "read" /\ D(f).pong /\ MayWrite(f) /\ UNCHANGED <<loop, health>>
      /\ SetConn(f, i, [conn[f][i] EXCEPT !.writing = @ \cup {"main"}])
  BY DEF BeginPong, Reading, At
<1>2. Misc
  BY MiscFacts DEF BeginPong, Misc
<1>3. conn[f][i] \in ConnRec
  BY <1>1, LiveFacts
<1>4. PICK w \in SUBSET {"main", "pinger"} : w = conn[f][i].writing \cup {"main"}
  BY <1>3 DEF ConnRec
<1>5. PICK a \in BOOLEAN : a = conn[f][i].asked
  BY <1>3 DEF ConnRec
<1>6. SetConn(f, i, [conn[f][i] EXCEPT !.writing = w, !.asked = a])
  <2>1. [conn[f][i] EXCEPT !.writing = @ \cup {"main"}] = [conn[f][i] EXCEPT !.writing = w, !.asked = a]
    BY <1>3, <1>4, <1>5 DEF ConnRec
  <2> QED
    BY <1>1, <2>1
<1>7. /\ a => D(f).asks
      /\ "pinger" \in w => conn[f][i].pinger
      /\ D(f).mutex => ~({"main", "pinger"} \subseteq w)
  BY <1>1, <1>4, <1>5, LiveFacts, MayWriteFacts DEF ConnOK
<1> QED
  BY <1>1, <1>2, <1>6, <1>7, WriteInv

\* The network fails, at once or by silence.
LEMMA NetworkFailsInv ==
    ASSUME IInv, NEW f \in Feeds, NEW i \in Conns, NetworkFails(f, i)
    PROVE  IInv'
<1>1. Live(f, i) /\ UNCHANGED health
  BY DEF NetworkFails, Reading, At
<1>2. Misc
  BY MiscFacts DEF NetworkFails, Misc
<1>3. CASE EndConn(f, i, "fault")
  BY <1>1, <1>2, <1>3, EndConnInv
<1>4. CASE SetConn(f, i, [conn[f][i] EXCEPT !.silent = TRUE]) /\ UNCHANGED loop
  <2> DEFINE c == [conn[f][i] EXCEPT !.silent = TRUE]
  <2>1. conn[f][i] \in ConnRec
    BY <1>1, LiveFacts
  <2>2. /\ c \in ConnRec /\ c.st = conn[f][i].st /\ c.at = conn[f][i].at /\ c.writing = conn[f][i].writing
        /\ c.why = conn[f][i].why /\ c.asked = conn[f][i].asked /\ c.pinger = conn[f][i].pinger
    BY <2>1 DEF ConnRec
  <2>3. SetConn(f, i, c)
    BY <1>4
  <2> HIDE DEF c
  <2>4. c.st = "live" /\ ConnOK(D(f), "run", c, i)
    BY <1>1, <2>2, LiveFacts DEF ConnOK
  <2> QED
    BY <1>1, <1>2, <1>4, <2>2, <2>3, <2>4, OpenStep
<1> QED
  BY <1>3, <1>4 DEF NetworkFails

\* The read deadline passes, or the exchange drops the client.
LEMMA ReadDeadlineInv ==
    ASSUME IInv, NEW f \in Feeds, NEW i \in Conns, ReadDeadline(f, i)
    PROVE  IInv'
<1>1. Live(f, i) /\ UNCHANGED health
  BY DEF ReadDeadline, Reading, At
<1>2. Misc
  BY MiscFacts DEF ReadDeadline, Misc
<1>3. CASE EndConn(f, i, "fault")
  BY <1>1, <1>2, <1>3, EndConnInv
<1>4. CASE Has(f, "control") /\ EndConn(f, i, "quiet")
  BY <1>1, <1>2, <1>4, EndConnInv DEF Has, HasStep
<1>5. CASE conn[f][i].asked /\ ~D(f).pong /\ EndConn(f, i, "unanswered")
  <2>1. D(f).asks
    BY <1>1, <1>5, LiveFacts DEF ConnOK
  <2> QED
    BY <1>1, <1>2, <1>5, <2>1, EndConnInv
<1> QED
  BY <1>3, <1>4, <1>5 DEF ReadDeadline

\* The context is done and closeOnCtx closes the connection.
LEMMA CloseOnCtxInv ==
    ASSUME IInv, NEW f \in Feeds, NEW i \in Conns, CloseOnCtx(f, i)
    PROVE  IInv'
<1>1. Misc
  BY MiscFacts DEF CloseOnCtx, Misc
<1> QED
  BY <1>1, EndConnInv DEF CloseOnCtx

\* A rejected subscription, where it is fatal.
LEMMA RejectedInv ==
    ASSUME IInv, NEW f \in Feeds, NEW i \in Conns, Rejected(f, i)
    PROVE  IInv'
<1>1. Misc
  BY MiscFacts DEF Rejected, Misc
<1> QED
  BY <1>1, EndConnInv DEF Rejected, Reading, At

\* A message that ends the read loop, where one does.
LEMMA MalformedInv ==
    ASSUME IInv, NEW f \in Feeds, NEW i \in Conns, Malformed(f, i)
    PROVE  IInv'
<1>1. Misc
  BY MiscFacts DEF Malformed, Misc
<1> QED
  BY <1>1, EndConnInv DEF Malformed, Reading, At

\* A message or an answer of the funding endpoint: it may make the funding
\* healthy, and comes over a connection that reads or polls.
LEMMA DeliverMisc ==
    ASSUME IInv, NEW f, NEW s, NEW cache, Deliver(f, s, cache)
    PROVE  Misc /\ UNCHANGED loop
<1>1. health' \in BOOLEAN
  BY MiscFacts DEF Deliver
<1> QED
  BY <1>1, MiscFacts DEF Deliver, Misc

\* Quotes of the exchange are quotes; so is what a map knows, and what a read loop
\* makes of a quote it keeps.
LEMMA QuoteTypes ==
    /\ NoQuote \in Quote /\ Quotes \subseteq Quote
    /\ \A m \in Maps : \A x : Known(m, x) \in Quote
    /\ \A cache, q \in Quote : /\ StoredVolume(cache, q) \in Quote
                              /\ \A fields : Overlay(cache, fields, q) \in Quote
<1>1. NoQuote \in Quote
  BY DEF NoQuote, Quote
<1>2. Quotes \subseteq Quote
  BY MessageAssumption DEF Quote
<1>3. ASSUME NEW m \in Maps, NEW x PROVE Known(m, x) \in Quote
  <2>1. PICK S \in SUBSET Instruments : m \in [S -> Quote]
    BY Zenon DEF Maps
  <2> QED
    BY <1>1, <2>1 DEF Known
<1>4. ASSUME NEW cache \in Quote, NEW q \in Quote PROVE StoredVolume(cache, q) \in Quote
  BY DEF StoredVolume, Quote
<1>5. ASSUME NEW cache \in Quote, NEW q \in Quote, NEW fields PROVE Overlay(cache, fields, q) \in Quote
  BY DEF Overlay, Quote
<1> QED
  BY <1>1, <1>2, <1>3, <1>4, <1>5

\* A map with one entry more, or another one.
LEMMA WithFacts ==
    ASSUME NEW m \in Maps, NEW x \in Instruments, NEW q \in Quote
    PROVE  /\ With(m, x, q) \in Maps
           /\ \A y : Known(With(m, x, q), y) = IF y = x THEN q ELSE Known(m, y)
<1>1. PICK S \in SUBSET Instruments : m \in [S -> Quote]
  BY Zenon DEF Maps
<1>2. With(m, x, q) \in [S \cup {x} -> Quote]
  BY <1>1 DEF With
<1>3. S \cup {x} \in SUBSET Instruments
  OBVIOUS
<1>4. With(m, x, q) \in Maps
  BY <1>2, <1>3, Zenon DEF Maps
<1>5. ASSUME NEW y PROVE Known(With(m, x, q), y) = IF y = x THEN q ELSE Known(m, y)
  BY <1>1 DEF With, Known
<1> QED
  BY <1>4, <1>5

\* A connection that keeps a quote is otherwise as it was.
LEMMA KeepingFacts ==
    ASSUME NEW c \in ConnRec, NEW x \in Instruments, NEW q \in Quote, NEW kept \in Quote
    PROVE  LET k == Keeping(c, x, q, kept)
           IN  /\ k \in ConnRec /\ k.st = c.st /\ k.at = c.at /\ k.writing = c.writing
               /\ k.why = c.why /\ k.asked = c.asked /\ k.pinger = c.pinger
               /\ k.sent = With(c.sent, x, q) /\ k.cache = With(c.cache, x, kept)
<1>1. With(c.sent, x, q) \in Maps /\ With(c.cache, x, kept) \in Maps
  BY WithFacts DEF ConnRec
<1> QED
  BY <1>1 DEF Keeping, ConnRec

\* The quotes of a connection change and nothing else does.
LEMMA QuotesInv ==
    ASSUME IInv, Misc, NEW f \in Feeds, NEW i \in Conns, Live(f, i), UNCHANGED loop,
           StepOf(f, i) = "read", NEW x \in Instruments, NEW q \in Quote, NEW kept \in Quote,
           SetConn(f, i, Keeping(conn[f][i], x, q, kept))
    PROVE  IInv'
<1> DEFINE c == Keeping(conn[f][i], x, q, kept)
<1>1. conn[f][i] \in ConnRec
  BY LiveFacts
<1>2. /\ c \in ConnRec /\ c.st = conn[f][i].st /\ c.at = conn[f][i].at /\ c.writing = conn[f][i].writing
      /\ c.why = conn[f][i].why /\ c.asked = conn[f][i].asked /\ c.pinger = conn[f][i].pinger
  BY <1>1, KeepingFacts
<1>3. SetConn(f, i, c)
  OBVIOUS
<1> HIDE DEF c
<1>4. c.st = "live" /\ ConnOK(D(f), "run", c, i)
  BY <1>2, LiveFacts DEF ConnOK
<1> QED
  BY <1>2, <1>3, <1>4, OpenStep

\* What a message does: it is delivered, merged into the kept quote or not, or its
\* volume is kept.
MessageEffect(f, i, s, kept) ==
    LET c == conn[f][i]
    IN  \/ /\ MergesTicker(f) /\ Deliver(f, s, kept)
           /\ \E fields \in Fields(Known(c.sent, s.inst), s.q) :
                    kept = Overlay(Known(c.cache, s.inst), fields, s.q)
           /\ SetConn(f, i, Keeping(c, s.inst, s.q, kept))
        \/ /\ ~MergesTicker(f) /\ kept = Known(c.cache, s.inst)
           /\ Deliver(f, s, kept) /\ UNCHANGED conn
        \/ /\ MergesVolume(f) /\ NoDelivery
           /\ kept = StoredVolume(Known(c.cache, s.inst), s.q)
           /\ SetConn(f, i, Keeping(c, s.inst, s.q, kept))
           /\ UNCHANGED <<venue, group, bad, cancelled, ready, loop, health, faults>>

LEMMA MessageSplit ==
    ASSUME IInv, NEW f \in Feeds, NEW i \in Conns, Message(f, i)
    PROVE  /\ Live(f, i) /\ StepOf(f, i) = "read" /\ conn[f][i] \in ConnRec
           /\ \E s \in Samples[i], kept \in Quote :
                /\ s.inst \in Subscribed(f) /\ s.inst \in Instruments /\ s.q \in Quote /\ s.q \in Quotes
                /\ MessageEffect(f, i, s, kept)
<1> DEFINE c == conn[f][i]
<1>1. Live(f, i) /\ StepOf(f, i) = "read"
  BY Zenon DEF Message, Reading, At
<1>2. c \in ConnRec
  BY <1>1, LiveFacts
<1>3. PICK s \in Samples[i] :
        /\ s.inst \in Subscribed(f)
        /\ \/ /\ MergesTicker(f)
              /\ \E fields \in Fields(Known(c.sent, s.inst), s.q) :
                    LET merged == Overlay(Known(c.cache, s.inst), fields, s.q)
                    IN  Deliver(f, s, merged) /\ SetConn(f, i, Keeping(c, s.inst, s.q, merged))
           \/ ~MergesTicker(f) /\ Deliver(f, s, Known(c.cache, s.inst)) /\ UNCHANGED conn
           \/ /\ MergesVolume(f)
              /\ SetConn(f, i, Keeping(c, s.inst, s.q, StoredVolume(Known(c.cache, s.inst), s.q)))
              /\ NoDelivery
              /\ UNCHANGED <<venue, group, bad, cancelled, ready, loop, health, faults>>
  BY Zenon DEF Message
<1>4. s.inst \in Instruments /\ s.q \in Quotes
  BY StreamAssumption DEF Conns
<1>5. s.q \in Quote /\ Known(c.cache, s.inst) \in Quote
  BY <1>2, <1>4, QuoteTypes DEF ConnRec
<1> HIDE DEF c
<1>6. CASE /\ MergesTicker(f)
           /\ \E fields \in Fields(Known(c.sent, s.inst), s.q) :
                 LET merged == Overlay(Known(c.cache, s.inst), fields, s.q)
                 IN  Deliver(f, s, merged) /\ SetConn(f, i, Keeping(c, s.inst, s.q, merged))
  <2>1. PICK fields \in Fields(Known(c.sent, s.inst), s.q) :
            /\ Deliver(f, s, Overlay(Known(c.cache, s.inst), fields, s.q))
            /\ SetConn(f, i, Keeping(c, s.inst, s.q, Overlay(Known(c.cache, s.inst), fields, s.q)))
    BY <1>6, Zenon
  <2>2. Overlay(Known(c.cache, s.inst), fields, s.q) \in Quote
    BY <1>5, QuoteTypes
  <2>3. MessageEffect(f, i, s, Overlay(Known(c.cache, s.inst), fields, s.q))
    BY <1>6, <2>1, Zenon DEF MessageEffect, c
  <2> QED
    BY <1>1, <1>2, <1>3, <1>4, <1>5, <2>2, <2>3, Zenon DEF c
<1>7. CASE ~MergesTicker(f) /\ Deliver(f, s, Known(c.cache, s.inst)) /\ UNCHANGED conn
  <2>1. MessageEffect(f, i, s, Known(c.cache, s.inst))
    BY <1>7, Zenon DEF MessageEffect, c
  <2> QED
    BY <1>1, <1>2, <1>3, <1>4, <1>5, <2>1, Zenon DEF c
<1>8. CASE /\ MergesVolume(f)
           /\ SetConn(f, i, Keeping(c, s.inst, s.q, StoredVolume(Known(c.cache, s.inst), s.q)))
           /\ NoDelivery
           /\ UNCHANGED <<venue, group, bad, cancelled, ready, loop, health, faults>>
  <2>1. MessageEffect(f, i, s, StoredVolume(Known(c.cache, s.inst), s.q))
    BY <1>8, Zenon DEF MessageEffect, c
  <2>2. StoredVolume(Known(c.cache, s.inst), s.q) \in Quote
    BY <1>5, QuoteTypes
  <2> QED
    BY <1>1, <1>2, <1>3, <1>4, <1>5, <2>1, <2>2, Zenon DEF c
<1> QED
  BY <1>3, <1>6, <1>7, <1>8, Zenon

\* The read loop handles a message.
LEMMA MessageInv ==
    ASSUME IInv, NEW f \in Feeds, NEW i \in Conns, Message(f, i)
    PROVE  IInv'
<1> DEFINE c == conn[f][i]
<1>1. Live(f, i) /\ StepOf(f, i) = "read"
  BY MessageSplit
<1>2. PICK s \in Samples[i], kept \in Quote :
        s.inst \in Instruments /\ s.q \in Quote /\ MessageEffect(f, i, s, kept)
  BY MessageSplit, Zenon
<1>3. CASE Deliver(f, s, kept) /\ SetConn(f, i, Keeping(c, s.inst, s.q, kept))
  BY <1>1, <1>2, <1>3, DeliverMisc, QuotesInv
<1>4. CASE Deliver(f, s, kept) /\ UNCHANGED conn
  <2>1. SetConn(f, i, c)
    BY <1>4 DEF SetConn, IInv, Typed
  <2> QED
    BY <1>1, <1>4, <2>1, DeliverMisc, LiveFacts, OpenStep
<1>5. CASE /\ SetConn(f, i, Keeping(c, s.inst, s.q, kept))
           /\ UNCHANGED <<venue, group, bad, cancelled, ready, loop, health, faults>>
  <2>1. Misc
    BY <1>5, MiscFacts DEF Misc
  <2> QED
    BY <1>1, <1>2, <1>5, <2>1, QuotesInv
<1> QED
  BY <1>2, <1>3, <1>4, <1>5, Zenon DEF MessageEffect

\* The funding endpoint answers a poll.
LEMMA PollInv ==
    ASSUME IInv, NEW f \in Feeds, NEW i \in Conns, Poll(f, i)
    PROVE  IInv'
<1>1. Live(f, i) /\ StepOf(f, i) = "poll" /\ UNCHANGED conn
  BY DEF Poll, At
<1>2. Misc /\ UNCHANGED loop
  BY DeliverMisc DEF Poll
<1>3. SetConn(f, i, conn[f][i])
  BY <1>1 DEF SetConn, IInv, Typed
<1> QED
  BY <1>1, <1>2, <1>3, LiveFacts, OpenStep

-----------------------------------------------------------------------------
(* The theorems. *)

\* The context ends: what failed stays failed, the rest is cancelled.
LEMMA CancelInv ==
    ASSUME IInv, Cancel
    PROVE  IInv'
<1>1. cancelled' \in BOOLEAN /\ cancelled'
  BY DEF Cancel
<1>2. UNCHANGED <<venue, group, bad, ready, loop, conn, health, faults>>
  BY DEF Cancel
<1>3. Typed'
  BY <1>1, <1>2, Zenon DEF IInv, Typed
<1>4. HealthOK' /\ \A f \in Feeds, i \in Conns : ConnOK(D(f), loop[f].pc, conn[f][i], i)'
  BY <1>2 DEF IInv, HealthOK, ConnOK, HasStep, D
<1>5. \A f \in Feeds : LoopOK(f, D(f), loop[f], conn[f][1])'
  BY <1>1, <1>2 DEF IInv, LoopOK, D
<1> QED
  BY <1>3, <1>4, <1>5 DEF IInv

\* Every step preserves the invariant.
LEMMA StepInv == IInv /\ [Next]_vars => IInv'
<1> SUFFICES ASSUME IInv, [Next]_vars PROVE IInv'
  OBVIOUS
<1>1. CASE Cancel
  BY <1>1, CancelInv
<1>2. ASSUME NEW f \in Feeds, LoopStep(f) \/ LiveLong(f)
      PROVE  IInv'
  BY <1>2, StoreSinkInv, AwaitSinkInv, LoadOnceInv, StartRoundInv, EndRoundInv, BackoffWaitInv,
     FundingReturnedInv, LiveLongInv DEF LoopStep
<1>3. ASSUME NEW f \in Feeds, NEW i \in Conns,
             ConnStep(f, i) \/ BeginPing(f, i) \/ EndPing(f, i) \/ ServerPing(f, i)
                \/ BeginPong(f, i) \/ EndPong(f, i)
      PROVE  IInv'
  BY <1>3, StartHelperInv, RequestInv, BeginSubscribeInv, EndSubscribeInv, BeginPingInv, EndPingInv,
     ServerPingInv, BeginPongInv, EndPongInv DEF ConnStep
<1>4. ASSUME NEW f \in Feeds, NEW i \in Conns,
             CloseOnCtx(f, i) \/ NetworkFails(f, i) \/ ReadDeadline(f, i) \/ Rejected(f, i)
                \/ Malformed(f, i) \/ Message(f, i) \/ Poll(f, i)
      PROVE  IInv'
  BY <1>4, CloseOnCtxInv, NetworkFailsInv, ReadDeadlineInv, RejectedInv, MalformedInv, MessageInv, PollInv
<1>5. CASE UNCHANGED vars
  <2>1. Typed'
    BY <1>5, Zenon DEF IInv, Typed, vars
  <2>2. HealthOK' /\ \A f \in Feeds, i \in Conns : ConnOK(D(f), loop[f].pc, conn[f][i], i)'
    BY <1>5 DEF IInv, HealthOK, ConnOK, HasStep, D, vars
  <2>3. \A f \in Feeds : LoopOK(f, D(f), loop[f], conn[f][1])'
    BY <1>5 DEF IInv, LoopOK, D, vars
  <2> QED
    BY <2>1, <2>2, <2>3 DEF IInv
<1> QED
  BY <1>1, <1>2, <1>3, <1>4, <1>5 DEF Next

\* The invariant holds throughout.
LEMMA InvHolds == Spec => []IInv
<1> QED
  BY InitInv, StepInv, PTL DEF Spec

\* The loops and connections of every adapter have their types, attempts stay
\* within the longest delay of Backoff, and a connection is at a step it has.
THEOREM TypeCorrect == Spec => []TypeOK
<1>1. ASSUME IInv PROVE TypeOK
  <2>1. /\ venue \in Venues /\ group \in Groups(venue) /\ faults \in 0..MaxFaults
        /\ bad \in BOOLEAN /\ cancelled \in BOOLEAN /\ ready \in BOOLEAN /\ health \in BOOLEAN
    BY <1>1 DEF IInv, Typed
  <2>2. {bad, cancelled, ready, health} \subseteq BOOLEAN
    BY <2>1, Zenon
  <2>3. ASSUME NEW f \in Feeds
        PROVE  /\ loop[f].pc \in LoopPCs /\ loop[f].attempt \in 0..MaxAttempt
               /\ {loop[f].lived, loop[f].failed, loop[f].listed} \subseteq BOOLEAN
    <3>1. loop[f] \in LoopRec
      BY <1>1 DEF IInv, Typed
    <3>2. /\ loop[f].pc \in LoopPCs /\ loop[f].attempt \in 0..MaxAttempt
          /\ loop[f].lived \in BOOLEAN /\ loop[f].failed \in BOOLEAN /\ loop[f].listed \in BOOLEAN
      BY <3>1 DEF LoopRec
    <3>3. {loop[f].lived, loop[f].failed, loop[f].listed} \subseteq BOOLEAN
      BY <3>2, Zenon
    <3> QED
      BY <3>2, <3>3
  <2>4. ASSUME NEW f \in Feeds, NEW i \in Conns
        PROVE  /\ conn[f][i].st \in {"idle", "live", "done"}
               /\ conn[f][i].at \in 0..Len(D(f).steps)
               /\ conn[f][i].writing \subseteq {"main", "pinger"}
               /\ conn[f][i].why \in {"none", "fault", "quiet", "unanswered", "rejected", "malformed",
                                      "cancel"}
    <3>1. conn[f][i] \in ConnRec /\ ConnOK(D(f), loop[f].pc, conn[f][i], i)
      BY <1>1 DEF IInv, Typed
    <3>2. Len(D(f).steps) \in Nat
      BY <1>1, LoopFacts DEF Sound, Desc
    <3>3. conn[f][i].at \in 0..Len(D(f).steps)
      BY <3>1, <3>2 DEF ConnOK
    <3> QED
      BY <3>1, <3>3 DEF ConnRec
  <2> QED
    BY <2>1, <2>2, <2>3, <2>4 DEF TypeOK
<1> QED
  BY <1>1, InvHolds, PTL

\* One writer of data frames per connection, for every adapter and whatever the
\* exchange sends: where writeMu does not keep the keep-alive goroutine and the
\* reader apart, the subscriptions are written before that goroutine is started
\* and the reader writes nothing later (kucoin.go:554).
THEOREM NeverTwoWriters == Spec => []OneWriter
<1>1. ASSUME IInv PROVE OneWriter
  <2> SUFFICES ASSUME NEW f \in group, NEW i \in Conns
               PROVE  Cardinality(conn[f][i].writing) <= 1
    BY DEF OneWriter
  <2>1. f \in Feeds
    BY <1>1, GroupFacts DEF IInv, Typed
  <2>2. /\ conn[f][i] \in ConnRec /\ ConnOK(D(f), loop[f].pc, conn[f][i], i)
        /\ Sound(venue, f, D(f))
    BY <1>1, <2>1, LoopFacts DEF IInv, Typed
  <2>3. PICK w \in SUBSET {"main", "pinger"} : w = conn[f][i].writing
    BY <2>2 DEF ConnRec
  <2>4. ~({"main", "pinger"} \subseteq w)
    <3> SUFFICES ASSUME "main" \in w, "pinger" \in w PROVE FALSE
      OBVIOUS
    <3>1. ~D(f).mutex /\ ~D(f).pong
      BY <2>2, <2>3 DEF ConnOK, Sound
    <3>2. conn[f][i].at \in 1..Len(D(f).steps) /\ D(f).steps[conn[f][i].at] = "sub"
      BY <2>2, <2>3, <3>1 DEF ConnOK, ConnRec
    <3>3. PICK k \in 1..(conn[f][i].at - 1) : D(f).steps[k] = "ping"
      BY <2>2, <2>3 DEF ConnOK
    <3>4. Len(D(f).steps) \in Nat
      BY <2>2 DEF Sound, Desc
    <3>5. k \in 1..Len(D(f).steps) /\ k < conn[f][i].at
      BY <3>2, <3>3, <3>4
    <3> QED
      BY <2>2, <3>2, <3>3, <3>5 DEF Sound, Ordered
  <2>5. w = {} \/ w = {"main"} \/ w = {"pinger"}
    BY <2>3, <2>4
  <2>6. Cardinality({}) = 0
    BY FS_EmptySet, Zenon
  <2>7. Cardinality({"main"}) = 1 /\ Cardinality({"pinger"}) = 1
    BY FS_Singleton, Zenon
  <2>8. CASE w = {}
    BY <2>3, <2>6, <2>8
  <2>9. CASE w = {"main"} \/ w = {"pinger"}
    <3>1. Cardinality(w) = 1
      BY <2>7, <2>9, Zenon
    <3> QED
      BY <2>3, <3>1
  <2> QED
    BY <2>5, <2>8, <2>9
<1> QED
  BY <1>1, InvHolds, PTL

\* Nothing but the network, the peer or the context ends a connection, except in
\* the places the property lists: fatal rejections, the candles of BingX and of
\* MEXC's futures that never answer a ping, Binance spot without a pong handler,
\* and the read loops that return an error for a message.
THEOREM HealthyConnectionsStay == Spec => []OnlyFaultsReconnect
<1>1. ASSUME IInv PROVE OnlyFaultsReconnect
  <2> SUFFICES ASSUME NEW f \in group, NEW i \in Conns
               PROVE  /\ conn[f][i].why = "rejected" => f \in Candles \/ venue = "BITGET"
                      /\ conn[f][i].why = "rejected" => venue # "BYBIT"
                      /\ conn[f][i].why = "unanswered" =>
                            \/ venue = "BINGX" /\ f \in Candles
                            \/ venue = "MEXC" /\ f = "futuresCandles"
                      /\ conn[f][i].why = "quiet" => venue = "BINANCE" /\ f = "spot"
                      /\ conn[f][i].why = "malformed" =>
                            \/ venue \in {"MEXC", "BYBIT"} /\ f \in Candles
                            \/ venue = "OKX" /\ f = "funding"
                            \/ venue = "BITGET" /\ f = "futures"
    BY DEF OnlyFaultsReconnect
  <2>1. f \in Feeds
    BY <1>1, GroupFacts DEF IInv, Typed
  <2>2. ConnOK(D(f), loop[f].pc, conn[f][i], i) /\ Sound(venue, f, D(f))
    BY <1>1, <2>1, LoopFacts DEF IInv
  <2> QED
    BY <2>2 DEF ConnOK, Sound
<1> QED
  BY <1>1, InvHolds, PTL

\* While the stream that carries an exchange's funding waits to reconnect, or its
\* connector has stopped, the funding is not healthy: a round ends without a
\* cancellation only after an error, the mark follows the last delivery of its
\* connections, and no other feed of the exchange can undo it.
THEOREM OutagesInvalidateFunding == Spec => []OutageInvalidatesFunding
<1>1. ASSUME IInv PROVE OutageInvalidatesFunding
  <2>1. HealthOK /\ "funding" \in Feeds /\ 1 \in Conns
    BY <1>1 DEF IInv, Feeds, Conns
  <2>2. venue = "BINANCE" /\ loop["funding"].pc = "run"
            /\ ~At("funding", 1, "read") /\ conn["funding"][1].st = "live" => ~health
    BY <2>1 DEF HealthOK, At, Live, StepOf
  <2> QED
    BY <2>1, <2>2 DEF HealthOK, OutageInvalidatesFunding
<1> QED
  BY <1>1, InvHolds, PTL

-----------------------------------------------------------------------------
(* What is delivered. *)

\* What a connection keeps of an instrument follows what the exchange stated last
\* of it: Bybit's cache the sides that are there, and every cache a volume that can
\* be read.
QuoteOK(sent, cache) ==
    /\ venue = "BYBIT" => /\ sent.bid # 0 => cache.bid = sent.bid
                          /\ sent.ask # 0 => cache.ask = sent.ask
    /\ sent.vol = "ok" => cache.vol = "ok" /\ cache.turnover = sent.turnover
CacheOK(c) == \A x \in Instruments : QuoteOK(Known(c.sent, x), Known(c.cache, x))
CacheInv == \A f \in Feeds, i \in Conns : CacheOK(conn[f][i])

\* A step that delivers nothing.
Quiet == NoDelivery /\ UNCHANGED <<venue, group>>

\* One connection is replaced by one whose quotes are its own or agree.
LEMMA CacheStep ==
    ASSUME IInv, CacheInv, UNCHANGED venue, NEW f \in Feeds, NEW i \in Conns, NEW r, SetConn(f, i, r),
           \/ r.cache = conn[f][i].cache /\ r.sent = conn[f][i].sent
           \/ CacheOK(r)
    PROVE  CacheInv'
<1>1. conn \in [Feeds -> [Conns -> ConnRec]] /\ conn' = [conn EXCEPT ![f][i] = r]
  BY DEF IInv, Typed, SetConn
<1>2. \A g \in Feeds, j \in Conns : conn'[g][j] = IF g = f /\ j = i THEN r ELSE conn[g][j]
  BY <1>1
<1> QED
  BY <1>2 DEF CacheInv, CacheOK, QuoteOK

\* A connection that has ended has no quotes.
LEMMA EndConnCache ==
    ASSUME IInv, CacheInv, UNCHANGED venue, NEW f \in Feeds, NEW i \in Conns, NEW why, EndConn(f, i, why)
    PROVE  CacheInv'
<1> DEFINE r == [NoConn EXCEPT !.st = "done", !.why = why]
<1>1. SetConn(f, i, r) /\ r.cache = r.sent
  BY DEF EndConn, NoConn
<1> HIDE DEF r
<1> QED
  BY <1>1, CacheStep DEF CacheOK, QuoteOK

\* A round starts and ends with connections that have no quotes.
LEMMA RoundCache ==
    ASSUME IInv, CacheInv, UNCHANGED venue, NEW f \in Feeds, NEW cs, conn' = [conn EXCEPT ![f] = cs],
           \A i \in Conns : cs[i].cache = cs[i].sent
    PROVE  CacheInv'
<1>1. \A g \in Feeds : conn'[g] = IF g = f THEN cs ELSE conn[g]
  BY DEF IInv, Typed
<1> QED
  BY <1>1 DEF CacheInv, CacheOK, QuoteOK

\* The loops of the feeds.
LEMMA LoopCache ==
    ASSUME IInv, CacheInv, NEW f \in Feeds, LoopStep(f) \/ LiveLong(f)
    PROVE  CacheInv' /\ Quiet
<1>1. CASE StoreSink(f) \/ AwaitSink(f) \/ LoadOnce(f) \/ BackoffWait(f) \/ FundingReturned(f) \/ LiveLong(f)
  <2>1. Quiet /\ UNCHANGED <<venue, conn>>
    BY <1>1 DEF StoreSink, AwaitSink, LoadOnce, BackoffWait, FundingReturned, LiveLong, Quiet
  <2> QED
    BY <2>1 DEF CacheInv, CacheOK, QuoteOK
<1>2. CASE StartRound(f)
  <2>1. Quiet /\ UNCHANGED venue
    BY <1>2 DEF StartRound, Quiet
  <2>2. CASE UNCHANGED conn
    BY <2>1, <2>2 DEF CacheInv, CacheOK, QuoteOK
  <2>3. CASE conn' = [conn EXCEPT ![f] = [i \in Conns |-> IF i \in Shards(f) THEN Dialing
                                                         ELSE [NoConn EXCEPT !.st = "done"]]]
    <3>1. Dialing.cache = Dialing.sent /\ [NoConn EXCEPT !.st = "done"].cache = [NoConn EXCEPT !.st = "done"].sent
      BY DEF Dialing, NoConn
    <3> DEFINE cs == [i \in Conns |-> IF i \in Shards(f) THEN Dialing ELSE [NoConn EXCEPT !.st = "done"]]
    <3>2. conn' = [conn EXCEPT ![f] = cs] /\ \A i \in Conns : cs[i].cache = cs[i].sent
      BY <2>3, <3>1
    <3> HIDE DEF cs
    <3> QED
      BY <2>1, <3>2, RoundCache
  <2>4. CASE conn' = [conn EXCEPT ![f] = [i \in Conns |-> [NoConn EXCEPT !.st = "done"]]]
    <3> DEFINE cs == [i \in Conns |-> [NoConn EXCEPT !.st = "done"]]
    <3>1. conn' = [conn EXCEPT ![f] = cs] /\ \A i \in Conns : cs[i].cache = cs[i].sent
      BY <2>4 DEF NoConn
    <3> HIDE DEF cs
    <3> QED
      BY <2>1, <3>1, RoundCache
  <2> QED
    BY <1>2, <2>1, <2>2, <2>3, <2>4 DEF StartRound
<1>3. CASE EndRound(f)
  <2> DEFINE cs == [i \in Conns |-> NoConn]
  <2>1. Quiet /\ UNCHANGED venue /\ conn' = [conn EXCEPT ![f] = cs]
    BY <1>3 DEF EndRound, Quiet
  <2>2. \A i \in Conns : cs[i].cache = cs[i].sent
    BY DEF NoConn
  <2> HIDE DEF cs
  <2> QED
    BY <2>1, <2>2, RoundCache
<1> QED
  BY <1>1, <1>2, <1>3 DEF LoopStep

\* The steps of a connection between messages.
LEMMA ConnCache ==
    ASSUME IInv, CacheInv, NEW f \in Feeds, NEW i \in Conns,
           ConnStep(f, i) \/ BeginPing(f, i) \/ EndPing(f, i) \/ ServerPing(f, i)
               \/ BeginPong(f, i) \/ EndPong(f, i)
    PROVE  CacheInv' /\ Quiet
<1>1. conn[f][i] \in ConnRec
  BY DEF IInv, Typed
<1>2. Quiet /\ UNCHANGED venue
  BY DEF ConnStep, BeginPing, EndPing, ServerPing, BeginPong, EndPong, StartHelper, Request,
         BeginSubscribe, EndSubscribe, Quiet
<1>3. ASSUME NEW why, EndConn(f, i, why) PROVE CacheInv'
  BY <1>2, <1>3, EndConnCache
<1>4. ASSUME NEW r, SetConn(f, i, r), r.cache = conn[f][i].cache, r.sent = conn[f][i].sent PROVE CacheInv'
  BY <1>2, <1>4, CacheStep
<1>5. CASE StartHelper(f, i)
  <2> DEFINE r == [conn[f][i] EXCEPT !.at = @ + 1, !.closer = @ \/ StepOf(f, i) = "close",
                                     !.pinger = @ \/ StepOf(f, i) = "ping"]
  <2>1. SetConn(f, i, r) /\ r.cache = conn[f][i].cache /\ r.sent = conn[f][i].sent
    BY <1>1, <1>5 DEF StartHelper, ConnRec
  <2> HIDE DEF r
  <2> QED
    BY <1>2, <1>4, <2>1
<1>6. CASE Request(f, i)
  <2> DEFINE r == [conn[f][i] EXCEPT !.at = @ + 1]
  <2>1. r.cache = conn[f][i].cache /\ r.sent = conn[f][i].sent
    BY <1>1 DEF ConnRec
  <2>2. SetConn(f, i, r) \/ EndConn(f, i, "fault") \/ EndConn(f, i, "cancel")
    BY <1>6 DEF Request
  <2> HIDE DEF r
  <2> QED
    BY <1>2, <1>3, <1>4, <2>1, <2>2
<1>7. CASE EndSubscribe(f, i)
  <2> DEFINE r == [conn[f][i] EXCEPT !.writing = @ \ {"main"}, !.at = @ + 1]
  <2>1. r.cache = conn[f][i].cache /\ r.sent = conn[f][i].sent
    BY <1>1 DEF ConnRec
  <2>2. SetConn(f, i, r) \/ EndConn(f, i, "fault") \/ EndConn(f, i, "cancel")
    BY <1>7 DEF EndSubscribe
  <2> HIDE DEF r
  <2> QED
    BY <1>2, <1>3, <1>4, <2>1, <2>2
<1>8. CASE BeginSubscribe(f, i)
  <2> DEFINE r == [conn[f][i] EXCEPT !.writing = @ \cup {"main"}]
  <2>1. SetConn(f, i, r) /\ r.cache = conn[f][i].cache /\ r.sent = conn[f][i].sent
    BY <1>1, <1>8 DEF BeginSubscribe, ConnRec
  <2> HIDE DEF r
  <2> QED
    BY <1>2, <1>4, <2>1
<1>9. CASE BeginPing(f, i)
  <2> DEFINE r == [conn[f][i] EXCEPT !.writing = @ \cup {"pinger"}]
  <2>1. SetConn(f, i, r) /\ r.cache = conn[f][i].cache /\ r.sent = conn[f][i].sent
    BY <1>1, <1>9 DEF BeginPing, ConnRec
  <2> HIDE DEF r
  <2> QED
    BY <1>2, <1>4, <2>1
<1>10. CASE EndPing(f, i)
  <2> DEFINE r == [conn[f][i] EXCEPT !.writing = @ \ {"pinger"}]
  <2>1. SetConn(f, i, r) /\ r.cache = conn[f][i].cache /\ r.sent = conn[f][i].sent
    BY <1>1, <1>10 DEF EndPing, ConnRec
  <2> HIDE DEF r
  <2> QED
    BY <1>2, <1>4, <2>1
<1>11. CASE ServerPing(f, i)
  <2> DEFINE r == [conn[f][i] EXCEPT !.asked = TRUE]
  <2>1. SetConn(f, i, r) /\ r.cache = conn[f][i].cache /\ r.sent = conn[f][i].sent
    BY <1>1, <1>11 DEF ServerPing, ConnRec
  <2> HIDE DEF r
  <2> QED
    BY <1>2, <1>4, <2>1
<1>12. CASE BeginPong(f, i)
  <2> DEFINE r == [conn[f][i] EXCEPT !.writing = @ \cup {"main"}]
  <2>1. SetConn(f, i, r) /\ r.cache = conn[f][i].cache /\ r.sent = conn[f][i].sent
    BY <1>1, <1>12 DEF BeginPong, ConnRec
  <2> HIDE DEF r
  <2> QED
    BY <1>2, <1>4, <2>1
<1>13. CASE EndPong(f, i)
  <2> DEFINE r == [conn[f][i] EXCEPT !.writing = @ \ {"main"}, !.asked = FALSE]
  <2>1. SetConn(f, i, r) /\ r.cache = conn[f][i].cache /\ r.sent = conn[f][i].sent
    BY <1>1, <1>13 DEF EndPong, ConnRec
  <2> HIDE DEF r
  <2> QED
    BY <1>2, <1>4, <2>1
<1> QED
  BY <1>2, <1>5, <1>6, <1>7, <1>8, <1>9, <1>10, <1>11, <1>12, <1>13 DEF ConnStep

\* What ends a connection.
LEMMA EndCache ==
    ASSUME IInv, CacheInv, NEW f \in Feeds, NEW i \in Conns,
           CloseOnCtx(f, i) \/ NetworkFails(f, i) \/ ReadDeadline(f, i) \/ Rejected(f, i)
               \/ Malformed(f, i)
    PROVE  CacheInv' /\ Quiet
<1>1. Quiet /\ UNCHANGED venue
  BY DEF CloseOnCtx, NetworkFails, ReadDeadline, Rejected, Malformed, Quiet
<1>2. ASSUME NEW why, EndConn(f, i, why) PROVE CacheInv'
  BY <1>1, <1>2, EndConnCache
<1>3. CASE SetConn(f, i, [conn[f][i] EXCEPT !.silent = TRUE])
  <2> DEFINE r == [conn[f][i] EXCEPT !.silent = TRUE]
  <2>1. SetConn(f, i, r) /\ r.cache = conn[f][i].cache /\ r.sent = conn[f][i].sent
    BY <1>3 DEF IInv, Typed, ConnRec
  <2> HIDE DEF r
  <2> QED
    BY <1>1, <2>1, CacheStep
<1> QED
  BY <1>1, <1>2, <1>3 DEF CloseOnCtx, NetworkFails, ReadDeadline, Rejected, Malformed

\* A delta leaves a cache that follows what the exchange states now.
LEMMA OverlayFollows ==
    ASSUME NEW sent, NEW cache \in Quote, NEW q \in Quote, QuoteOK(sent, cache),
           NEW fields \in Fields(sent, q)
    PROVE  QuoteOK(q, Overlay(cache, fields, q))
<1> DEFINE changed == {x \in {"bid", "ask", "vol"} :
                        CASE x = "bid" -> q.bid # sent.bid
                          [] x = "ask" -> q.ask # sent.ask
                          [] OTHER -> q.vol # "absent"
                                        /\ <<q.turnover, q.vol>> # <<sent.turnover, sent.vol>>}
           gone == {x \in {"bid", "ask"} : IF x = "bid" THEN q.bid = 0 ELSE q.ask = 0}
           new == Overlay(cache, fields, q)
<1>1. PICK empty \in SUBSET gone : fields = changed \ empty
  BY Zenon DEF Fields
<1>2. /\ "bid" \in changed <=> q.bid # sent.bid
      /\ "ask" \in changed <=> q.ask # sent.ask
      /\ "vol" \in changed <=> q.vol # "absent" /\ <<q.turnover, q.vol>> # <<sent.turnover, sent.vol>>
  OBVIOUS
<1>3. /\ "bid" \in gone => q.bid = 0
      /\ "ask" \in gone => q.ask = 0
      /\ "vol" \notin gone
  OBVIOUS
<1> HIDE DEF changed, gone
<1>4. /\ "bid" \notin fields => q.bid = sent.bid \/ q.bid = 0
      /\ "ask" \notin fields => q.ask = sent.ask \/ q.ask = 0
      /\ "vol" \notin fields /\ q.vol = "ok" => q.turnover = sent.turnover /\ q.vol = sent.vol
  BY <1>1, <1>2, <1>3
<1>5. /\ new.bid = IF "bid" \in fields THEN q.bid ELSE cache.bid
      /\ new.ask = IF "ask" \in fields THEN q.ask ELSE cache.ask
      /\ new.turnover = IF "vol" \in fields THEN q.turnover ELSE cache.turnover
      /\ new.vol = IF "vol" \in fields THEN q.vol ELSE cache.vol
  BY DEF Overlay, Quote
<1> HIDE DEF new
<1> QED
  BY <1>4, <1>5 DEF QuoteOK, new

\* So does a volume message.
LEMMA StoredFollows ==
    ASSUME NEW cache \in Quote, NEW q \in Quote, venue # "BYBIT"
    PROVE  QuoteOK(q, StoredVolume(cache, q))
  BY DEF QuoteOK, StoredVolume, Quote

\* The quote a tick shows, and its volume where it is a stated one.
Shown(q, cache) == IF venue = "BYBIT" THEN cache ELSE q
TickVolume(f, q, cache) == IF venue = "BYBIT" \/ MergesVolume(f) THEN Turnover(cache) ELSE Turnover(q)

\* Every conversion shows a two-sided book, and the stated volume unless it has to
\* estimate one.
LEMMA TickFacts ==
    ASSUME venue \in Venues8, NEW f \in {"spot", "futures"}, NEW x, NEW q, NEW cache,
           NEW t \in Ticks(f, x, q, cache)
    PROVE  /\ t.bid = Shown(q, cache).bid /\ t.ask = Shown(q, cache).ask /\ TwoSided(Shown(q, cache))
           /\ ~(venue \in {"OKX", "MEXC"} /\ f = "futures") => t.vol = TickVolume(f, q, cache)
<1> DEFINE Shows(r, vol) == t.bid = r.bid /\ t.ask = r.ask /\ TwoSided(r) /\ t.vol = vol
           v == Turnover(cache)
<1>1. ASSUME NEW key, NEW r, NEW vol, t = Tick(key, r, vol), TwoSided(r) PROVE Shows(r, vol)
  BY <1>1 DEF Tick
<1>2. CASE venue = "BINANCE"
  <2>1. t = Tick(NativeID(venue, x), q, Turnover(q)) /\ TwoSided(q)
    BY <1>2 DEF Ticks, BinanceTick
  <2> QED
    BY <1>1, <1>2, <2>1 DEF TickVolume, MergesVolume, Shown
<1>3. CASE venue = "BYBIT"
  <2>1. t = Tick(NativeID(venue, x), cache, v) /\ TwoSided(cache)
    BY <1>3 DEF Ticks, BybitTick
  <2> QED
    BY <1>1, <1>3, <2>1 DEF TickVolume, Shown
<1>4. CASE venue = "OKX"
  <2>1. PICK key, vol : /\ t = Tick(key, q, vol) /\ TwoSided(q)
                        /\ vol = IF Market(f) = "spot" THEN Turnover(q) ELSE q.base * Price(q)
    <3>1. t \in OkxTick(NativeID(venue, x), Market(f), q)
      BY <1>4 DEF Ticks
    <3> QED
      BY <3>1, Zenon DEF OkxTick
  <2>2. f # "futures" => vol = Turnover(q)
    BY <2>1 DEF Market
  <2> QED
    BY <1>1, <1>4, <2>1, <2>2 DEF TickVolume, MergesVolume, Shown
<1>5. CASE venue = "BITGET"
  <2>1. PICK key : t = Tick(key, q, Turnover(q)) /\ TwoSided(q)
    <3>1. t \in BitgetTick(NativeID(venue, x), Market(f), q)
      BY <1>5 DEF Ticks
    <3> QED
      BY <3>1, Zenon DEF BitgetTick
  <2> QED
    BY <1>1, <1>5, <2>1 DEF TickVolume, MergesVolume, Shown
<1>6. CASE venue = "GATEIO"
  <2>1. CASE f = "spot"
    <3>1. t \in GateSpotTick(NativeID(venue, x), Market(f), q)
      BY <1>6, <2>1 DEF Ticks, Market
    <3>2. PICK key : t = Tick(key, q, Turnover(q)) /\ TwoSided(q)
      BY <3>1, Zenon DEF GateSpotTick
    <3> QED
      BY <1>1, <1>6, <2>1, <3>2 DEF TickVolume, MergesVolume, Shown
  <2>2. CASE f = "futures"
    <3>1. t \in GateBookTick(NativeID(venue, x), q, v)
      BY <1>6, <2>2 DEF Ticks, Market
    <3> HIDE DEF v
    <3>2. PICK key : t = Tick(key, q, v) /\ TwoSided(q)
      BY <3>1, Zenon DEF GateBookTick
    <3> QED
      BY <1>1, <1>6, <2>2, <3>2 DEF TickVolume, MergesVolume, Shown, v
  <2> QED
    BY <2>1, <2>2
<1>7. CASE venue = "KUCOIN"
  <2>1. PICK key : t = Tick(key, q, Turnover(q)) /\ TwoSided(q)
    <3>1. t \in KucoinTick(NativeID(venue, x), Market(f), q)
      BY <1>7 DEF Ticks
    <3> QED
      BY <3>1, Zenon DEF KucoinTick
  <2> QED
    BY <1>1, <1>7, <2>1 DEF TickVolume, MergesVolume, Shown
<1>8. CASE venue = "BINGX"
  <2>1. t = Tick(Without(NativeID(venue, x), {"-"}), q, v) /\ TwoSided(q)
    BY <1>8 DEF Ticks, BingxTick
  <2> QED
    BY <1>1, <1>8, <2>1 DEF TickVolume, MergesVolume, Shown
<1>9. CASE venue = "MEXC" /\ f = "spot"
  <2>1. t = Tick(NativeID(venue, x), q, Turnover(q)) /\ TwoSided(q)
    BY <1>9 DEF Ticks, MexcSpotTick, Market
  <2> QED
    BY <1>1, <1>9, <2>1 DEF TickVolume, MergesVolume, Shown
<1>10. CASE venue = "MEXC" /\ f = "futures"
  <2>1. t \in MexcFuturesTick(NativeID(venue, x), x, q)
    BY <1>10 DEF Ticks, Market
  <2>2. PICK key, vol : t = Tick(key, q, vol) /\ TwoSided(q)
    BY <2>1, Zenon DEF MexcFuturesTick
  <2> QED
    BY <1>1, <1>10, <2>2 DEF Shown
<1> QED
  BY <1>2, <1>3, <1>4, <1>5, <1>6, <1>7, <1>8, <1>9, <1>10 DEF Venues8

\* A volume has a connection of its own feed only, and it is the first one.
LEMMA MergesFacts ==
    ASSUME IInv, NEW f \in Feeds, NEW i \in Conns, Live(f, i), MergesVolume(f)
    PROVE  i = 1 /\ group = {f}
<1>1. /\ venue \in {"GATEIO", "BINGX"} /\ f \in {"spot", "futures"} /\ (venue = "GATEIO" => f = "futures")
      /\ group \in Groups(venue) /\ venue \in Venues
  BY DEF MergesVolume, IInv, Typed
<1>2. ~D(f).joint
  <2>1. D(f) = Description(venue, f)
    BY <1>1, StreamAssumption DEF D, Descriptions
  <2>2. ~Defaults.joint
    BY DEF Defaults
  <2>3. ~GateFutures.joint /\ ~BingxTickers.joint
    BY DEF GateFutures, BingxTickers, Defaults
  <2>4. Description(venue, f) \in {GateFutures, BingxTickers}
    BY <1>1 DEF Description
  <2> QED
    BY <2>1, <2>3, <2>4
<1>3. i = 1 \/ D(f).joint
  BY LiveFacts DEF ConnOK
<1>4. f \in group
  BY DEF IInv, LoopOK, Live
<1>5. group = {f}
  BY <1>1, <1>4 DEF Groups
<1> QED
  BY <1>2, <1>3, <1>5

\* The quote from which a ticker feed delivers follows what the exchange stated last.
Agrees(f, i, s, cache) ==
    f \in {"spot", "futures"} =>
        /\ venue = "BYBIT" => QuoteOK(s.q, cache)
        /\ MergesVolume(f) => QuoteOK(Known(conn'[f][i].sent, s.inst), cache)

\* A delivery shows the book.
LEMMA DeliverBook ==
    ASSUME IInv, NEW f \in Feeds, NEW i \in Conns, Live(f, i), NEW s, s.q \in Quotes,
           NEW cache \in Quote, Deliver(f, s, cache), Agrees(f, i, s, cache)
    PROVE  TickIsTheBook'
<1>1. /\ out' = [src |-> {s}, to |-> Deliveries(f, s.inst, s.q, cache)]
      /\ UNCHANGED <<venue, group>> /\ venue \in Venues8
  BY StreamAssumption DEF Deliver, IInv, Typed
<1> SUFFICES ASSUME NEW d \in Deliveries(f, s.inst, s.q, cache), d.sink = "tick"
             PROVE  /\ ShowsSide(d.tick.bid, s.q.bid) /\ ShowsSide(d.tick.ask, s.q.ask)
                    /\ 0 < d.tick.bid /\ d.tick.bid <= d.tick.ask
                    /\ \A q \in Stated(s)' : q.vol = "ok" /\ ~Estimated => d.tick.vol = q.turnover
  BY <1>1 DEF TickIsTheBook, ShowsSide, Estimated
<1>2. f \in {"spot", "futures"} /\ d.tick \in Ticks(f, s.inst, s.q, cache)
  BY DEF Deliveries
<1> DEFINE shown == Shown(s.q, cache)
<1>3. /\ d.tick.bid = shown.bid /\ d.tick.ask = shown.ask /\ TwoSided(shown)
      /\ ~(venue \in {"OKX", "MEXC"} /\ f = "futures") => d.tick.vol = TickVolume(f, s.q, cache)
  BY <1>1, <1>2, TickFacts
<1>4. s.q \in Quote
  BY QuoteTypes
<1>5. shown \in Quote /\ (venue # "BYBIT" => shown = s.q) /\ (venue = "BYBIT" => shown = cache)
  BY <1>4 DEF Shown
<1> HIDE DEF shown
<1>6. ShowsSide(d.tick.bid, s.q.bid) /\ ShowsSide(d.tick.ask, s.q.ask)
  BY <1>2, <1>3, <1>5 DEF ShowsSide, Agrees, QuoteOK
<1>7. 0 < d.tick.bid /\ d.tick.bid <= d.tick.ask
  BY <1>3, <1>5 DEF TwoSided, Quote
<1>8. ASSUME NEW q \in Stated(s)', q.vol = "ok", ~Estimated PROVE d.tick.vol = q.turnover
  <2>1. f \in group /\ group \in Groups(venue)
    BY DEF IInv, Typed, LoopOK, Live
  <2>2. d.tick.vol = TickVolume(f, s.q, cache)
    BY <1>3, <1>8, <2>1 DEF Estimated
  <2>3. CASE MergesVolume(f)
    <3>1. i = 1 /\ group' = {f} /\ MergesVolume(f)'
      BY <1>1, <2>3, MergesFacts DEF MergesVolume
    <3>2. q = Known(conn'[f][i].sent, s.inst)
      BY <3>1 DEF Stated
    <3>3. cache.vol = "ok" /\ cache.turnover = q.turnover
      BY <1>2, <1>8, <2>3, <3>2 DEF Agrees, QuoteOK
    <3> QED
      BY <2>2, <2>3, <3>3 DEF TickVolume, Turnover
  <2>4. CASE ~MergesVolume(f)
    <3>1. \A g \in group : ~MergesVolume(g)
      BY <1>2, <2>1, <2>4 DEF MergesVolume, Groups
    <3>2. ~(\E g \in group' : MergesVolume(g)')
      BY <1>1, <3>1 DEF MergesVolume
    <3>3. q = s.q
      BY <3>2 DEF Stated
    <3>4. CASE venue = "BYBIT"
      <4>1. cache.vol = "ok" /\ cache.turnover = q.turnover
        BY <1>2, <1>8, <3>3, <3>4 DEF Agrees, QuoteOK
      <4> QED
        BY <2>2, <3>4, <4>1 DEF TickVolume, Turnover
    <3>5. CASE venue # "BYBIT"
      BY <1>8, <2>2, <2>4, <3>3, <3>5 DEF TickVolume, Turnover
    <3> QED
      BY <3>4, <3>5
  <2> QED
    BY <2>3, <2>4
<1> QED
  BY <1>6, <1>7, <1>8

\* What a message does: the connection keeps what follows the exchange's last
\* statement, and a delivery is made from that.
LEMMA MessageFacts ==
    ASSUME IInv, CacheInv, NEW f \in Feeds, NEW i \in Conns, Message(f, i)
    PROVE  /\ CacheInv'
           /\ \/ Quiet
              \/ \E s \in Samples[i], cache \in Quote :
                    Deliver(f, s, cache) /\ s.inst \in Subscribed(f) /\ Agrees(f, i, s, cache)
<1> DEFINE c == conn[f][i]
<1>1. c \in ConnRec /\ CacheOK(c)
  BY MessageSplit DEF CacheInv
<1>2. PICK s \in Samples[i], kept \in Quote :
        /\ s.inst \in Subscribed(f) /\ s.inst \in Instruments /\ s.q \in Quote
        /\ MessageEffect(f, i, s, kept)
  BY MessageSplit, Zenon
<1> DEFINE sent == Known(c.sent, s.inst)
           cached == Known(c.cache, s.inst)
           k == Keeping(c, s.inst, s.q, kept)
<1>3. sent \in Quote /\ cached \in Quote /\ QuoteOK(sent, cached)
  BY <1>1, <1>2, QuoteTypes DEF ConnRec, CacheOK
<1>4. ASSUME QuoteOK(s.q, kept), SetConn(f, i, k), UNCHANGED venue PROVE CacheInv'
  <2>1. k.sent = With(c.sent, s.inst, s.q) /\ k.cache = With(c.cache, s.inst, kept)
    BY <1>1, <1>2, KeepingFacts
  <2>2. /\ \A y : Known(k.sent, y) = IF y = s.inst THEN s.q ELSE Known(c.sent, y)
        /\ \A y : Known(k.cache, y) = IF y = s.inst THEN kept ELSE Known(c.cache, y)
    BY <1>1, <1>2, <2>1, WithFacts DEF ConnRec
  <2> HIDE DEF k, c
  <2>3. CacheOK(k)
    BY <1>1, <1>4, <2>2 DEF CacheOK
  <2> QED
    BY <1>4, <2>3, CacheStep
<1>5. CASE /\ MergesTicker(f) /\ Deliver(f, s, kept)
           /\ \E fields \in Fields(sent, s.q) : kept = Overlay(cached, fields, s.q)
           /\ SetConn(f, i, k)
  <2>1. QuoteOK(s.q, kept)
    BY <1>2, <1>3, <1>5, OverlayFollows
  <2>2. UNCHANGED venue
    BY <1>5 DEF Deliver
  <2>3. CacheInv'
    BY <1>4, <1>5, <2>1, <2>2
  <2>4. Agrees(f, i, s, kept)
    BY <1>5, <2>1 DEF Agrees, MergesTicker, MergesVolume
  <2> QED
    BY <1>2, <1>5, <2>3, <2>4
<1>6. CASE ~MergesTicker(f) /\ kept = cached /\ Deliver(f, s, kept) /\ UNCHANGED conn
  <2>1. CacheInv'
    BY <1>6 DEF Deliver, CacheInv, CacheOK, QuoteOK
  <2>2. f \in {"spot", "futures"} => venue # "BYBIT"
    BY <1>6 DEF MergesTicker, Candles
  <2>3. Agrees(f, i, s, kept)
    BY <1>3, <1>6, <2>2 DEF Agrees
  <2> QED
    BY <1>2, <1>6, <2>1, <2>3
<1>7. CASE /\ MergesVolume(f) /\ NoDelivery /\ kept = StoredVolume(cached, s.q) /\ SetConn(f, i, k)
           /\ UNCHANGED <<venue, group, bad, cancelled, ready, loop, health, faults>>
  <2>1. venue # "BYBIT"
    BY <1>7 DEF MergesVolume
  <2>2. QuoteOK(s.q, kept)
    BY <1>2, <1>3, <1>7, <2>1, StoredFollows
  <2> QED
    BY <1>4, <1>7, <2>2 DEF Quiet
<1> QED
  BY <1>2, <1>5, <1>6, <1>7, Zenon DEF MessageEffect

\* The steps of the ticker feeds.
LEMMA TickersRead ==
    ASSUME venue \in Venues8, NEW f \in {"spot", "futures"}
    PROVE  ~HasStep(D(f).steps, "poll")
<1>1. D(f) = Description(venue, f)
  BY DEF D, Descriptions, Feeds
<1>2. /\ BinanceSpot.steps = <<"dial", "close", "control", "read">>
      /\ BinanceFutures.steps = <<"dial", "close", "beat", "read">>
      /\ BybitTickers(f).steps = <<"dial", "sub", "close", "ping", "read">>
      /\ OkxTickers(f).steps = <<"dial", "list", "sub", "close", "ping", "read">>
      /\ BitgetTickers(f).steps = <<"dial", "sub", "close", "ping", "read">>
      /\ GateSpot.steps = <<"dial", "list", "sub", "close", "ping", "read">>
      /\ GateFutures.steps = <<"dial", "list", "sub", "close", "ping", "read">>
      /\ KucoinTickers.steps = <<"dial", "sub", "close", "ping", "read">>
      /\ BingxTickers.steps = <<"dial", "close", "sub", "read">>
      /\ MexcSpot.steps = <<"dial", "sub", "close", "ping", "read">>
      /\ MexcFutures.steps = <<"dial", "sub", "close", "ping", "read">>
  BY DEF Defaults, BinanceSpot, BinanceFutures, BybitTickers, OkxTickers, BitgetTickers, GateSpot,
         GateFutures, KucoinTickers, BingxTickers, MexcSpot, MexcFutures
<1>3. D(f).steps \in {<<"dial", "close", "control", "read">>, <<"dial", "close", "beat", "read">>,
                      <<"dial", "sub", "close", "ping", "read">>,
                      <<"dial", "list", "sub", "close", "ping", "read">>,
                      <<"dial", "close", "sub", "read">>}
  BY <1>1, <1>2 DEF Description, Venues8
<1> QED
  BY <1>3 DEF HasStep

\* The ticker feeds are streams: no poll makes a tick.
LEMMA PollsAreFunding ==
    ASSUME IInv, NEW f \in Feeds, NEW i \in Conns, Poll(f, i)
    PROVE  f \notin {"spot", "futures"}
<1>1. Live(f, i) /\ D(f).steps[conn[f][i].at] = "poll" /\ venue \in Venues8
  BY StreamAssumption DEF Poll, At, StepOf, IInv, Typed
<1>2. conn[f][i].at \in 1..Len(D(f).steps) /\ Ordered(D(f).steps) /\ Len(D(f).steps) \in Nat
  BY <1>1, LiveFacts, LoopFacts DEF ConnOK, Sound, Desc
<1>3. HasStep(D(f).steps, "poll")
  BY <1>1, <1>2 DEF HasStep
<1> QED
  BY <1>1, <1>3, TickersRead

\* Every step delivers nothing, or what the connection of a feed of the group makes
\* of one message about an instrument of the feed.
DeliveryStep ==
    \E f \in Feeds, i \in Conns : \E s \in Samples[i], cache \in Quote :
        /\ Live(f, i) /\ Deliver(f, s, cache) /\ s.inst \in Subscribed(f)
        /\ Agrees(f, i, s, cache)

\* The invariant of the quotes is kept, by every step.
LEMMA DeliveryFacts ==
    ASSUME IInv, CacheInv, [Next]_vars
    PROVE  CacheInv' /\ (Quiet \/ DeliveryStep \/ UNCHANGED vars)
<1>1. CASE Cancel
  BY <1>1 DEF Cancel, Quiet, CacheInv, CacheOK, QuoteOK
<1>2. ASSUME NEW f \in Feeds, LoopStep(f) \/ LiveLong(f) PROVE CacheInv' /\ Quiet
  BY <1>2, LoopCache
<1>3. ASSUME NEW f \in Feeds, NEW i \in Conns,
             ConnStep(f, i) \/ BeginPing(f, i) \/ EndPing(f, i) \/ ServerPing(f, i)
                \/ BeginPong(f, i) \/ EndPong(f, i)
      PROVE  CacheInv' /\ Quiet
  BY <1>3, ConnCache
<1>4. ASSUME NEW f \in Feeds, NEW i \in Conns,
             CloseOnCtx(f, i) \/ NetworkFails(f, i) \/ ReadDeadline(f, i) \/ Rejected(f, i)
                \/ Malformed(f, i)
      PROVE  CacheInv' /\ Quiet
  BY <1>4, EndCache
<1>5. ASSUME NEW f \in Feeds, NEW i \in Conns, Message(f, i)
      PROVE  CacheInv' /\ (Quiet \/ DeliveryStep)
  <2>1. Live(f, i)
    BY <1>5 DEF Message, Reading, At
  <2> QED
    BY <1>5, <2>1, MessageFacts DEF DeliveryStep
<1>6. ASSUME NEW f \in Feeds, NEW i \in Conns, Poll(f, i)
      PROVE  CacheInv' /\ DeliveryStep
  <2>1. PICK s \in Samples[i] : s.inst \in Subscribed(f) /\ Deliver(f, s, NoQuote)
    BY <1>6 DEF Poll
  <2>2. Live(f, i) /\ UNCHANGED <<venue, conn>>
    BY <1>6, <2>1 DEF Poll, At, Deliver
  <2>3. CacheInv'
    BY <2>2 DEF CacheInv, CacheOK, QuoteOK
  <2>4. f \notin {"spot", "futures"}
    BY <1>6, PollsAreFunding
  <2>5. NoQuote \in Quote
    BY QuoteTypes
  <2> QED
    BY <2>1, <2>2, <2>3, <2>4, <2>5 DEF DeliveryStep, Agrees
<1>7. CASE UNCHANGED vars
  BY <1>7 DEF vars, CacheInv, CacheOK, QuoteOK
<1> QED
  BY <1>1, <1>2, <1>3, <1>4, <1>5, <1>6, <1>7 DEF Next

\* A tick shows the exchange's book and the turnover it stated last for the tick's
\* instrument, whatever the order of the snapshots, deltas, volume messages and
\* reconnects; of a side that is gone and whose field is empty Bybit's cache keeps
\* the older price.
THEOREM TicksShowTheBook == Spec => []TickIsTheBook
<1>1. Init => CacheInv /\ TickIsTheBook
  <2> SUFFICES ASSUME Init PROVE CacheInv /\ TickIsTheBook
    OBVIOUS
  <2>1. \A f \in Feeds, i \in Conns : conn[f][i] = NoConn
    BY DEF Init
  <2>2. NoConn.cache = NoConn.sent
    BY DEF NoConn
  <2>3. TickIsTheBook
    BY DEF Init, TickIsTheBook, Nothing
  <2> QED
    BY <2>1, <2>2, <2>3 DEF CacheInv, CacheOK, QuoteOK
<1>2. IInv /\ CacheInv /\ TickIsTheBook /\ [Next]_vars => CacheInv' /\ TickIsTheBook'
  <2> SUFFICES ASSUME IInv, CacheInv, TickIsTheBook, [Next]_vars PROVE CacheInv' /\ TickIsTheBook'
    OBVIOUS
  <2>1. CacheInv' /\ (Quiet \/ DeliveryStep \/ UNCHANGED vars)
    BY DeliveryFacts
  <2>2. CASE Quiet
    <3>1. TickIsTheBook'
      BY <2>2 DEF Quiet, NoDelivery, Nothing, TickIsTheBook
    <3> QED
      BY <2>1, <3>1
  <2>3. CASE DeliveryStep
    <3>1. PICK f \in Feeds, i \in Conns : \E s \in Samples[i], cache \in Quote :
            Live(f, i) /\ Deliver(f, s, cache) /\ Agrees(f, i, s, cache)
      BY <2>3 DEF DeliveryStep
    <3>2. PICK s \in Samples[i], cache \in Quote :
            Live(f, i) /\ Deliver(f, s, cache) /\ Agrees(f, i, s, cache)
      BY <3>1
    <3>3. s.q \in Quotes
      BY StreamAssumption DEF StreamAssumption, Conns
    <3>4. TickIsTheBook'
      BY <3>2, <3>3, DeliverBook
    <3> QED
      BY <2>1, <3>4
  <2>4. CASE UNCHANGED vars
    <3>1. TickIsTheBook'
      <4>1. UNCHANGED <<venue, group, conn, out>>
        BY <2>4 DEF vars
      <4>2. /\ \A s : Stated(s)' = Stated(s)
            /\ \A b, q : ShowsSide(b, q)' <=> ShowsSide(b, q)
            /\ Estimated' <=> Estimated
        BY <4>1 DEF Stated, MergesVolume, ShowsSide, Estimated
      <4> QED
        BY <4>1, <4>2 DEF TickIsTheBook
    <3> QED
      BY <2>1, <3>1
  <2> QED
    BY <2>1, <2>2, <2>3, <2>4
<1> QED
  BY <1>1, <1>2, InvHolds, PTL DEF Spec

-----------------------------------------------------------------------------
(* The symbol keys. *)

\* A sequence is what its length and its elements say.
LEMMA Pair ==
    ASSUME NEW S, NEW s \in Seq(S), NEW b, NEW q, Len(s) = 2, s[1] = b, s[2] = q
    PROVE  s = <<b, q>>
  OBVIOUS

\* The same for three parts.
LEMMA Triple ==
    ASSUME NEW S, NEW s \in Seq(S), NEW b, NEW x, NEW q, Len(s) = 3, s[1] = b, s[2] = x, s[3] = q
    PROVE  s = <<b, x, q>>
  OBVIOUS

\* Two parts appended.
LEMMA AppendPair == ASSUME NEW b, NEW q PROVE Append(Append(<<>>, b), q) = <<b, q>>
<1> DEFINE S == {b, q}
           s == Append(Append(<<>>, b), q)
<1>1. b \in S /\ q \in S /\ <<>> \in Seq(S)
  OBVIOUS
<1> HIDE DEF S
<1>2. Append(<<>>, b) \in Seq(S) /\ Len(Append(<<>>, b)) = 1 /\ Append(<<>>, b)[1] = b
  BY <1>1
<1>3. s \in Seq(S) /\ Len(s) = 2 /\ s[1] = b /\ s[2] = q
  BY <1>1, <1>2
<1> HIDE DEF s
<1>4. s = <<b, q>>
  BY <1>3, Pair
<1> QED
  BY <1>4 DEF s

\* An ID without separators is its own key.
LEMMA WithoutPair ==
    ASSUME NEW b, NEW q, NEW seps, b \notin seps, q \notin seps
    PROVE  Without(<<b, q>>, seps) = <<b, q>>
<1> DEFINE id == <<b, q>>
           App(s, e) == Append(s, e)
           one == App(<<>>, b)
           two == App(one, q)
           Body(r, k) == IF k = 0 THEN <<>> ELSE IF id[k] \in seps THEN r[k - 1] ELSE App(r[k - 1], id[k])
           Rest(r) == r = [k \in 0..Len(id) |-> Body(r, k)]
           rest == CHOOSE r : Rest(r)
           g == [k \in 0..2 |-> IF k = 0 THEN <<>> ELSE IF k = 1 THEN one ELSE two]
<1>1. Len(id) = 2 /\ id[1] = b /\ id[2] = q
  OBVIOUS
<1>2. Without(id, seps) = rest[Len(id)]
  BY Zenon DEF Without
<1> HIDE DEF id, App
<1>3. Rest(g)
  <2>1. g[0] = <<>> /\ g[1] = one /\ g[2] = two /\ g = [k \in 0..2 |-> g[k]]
    <3> HIDE DEF one, two
    <3> QED
      OBVIOUS
  <2> HIDE DEF g
  <2>2. Body(g, 0) = <<>>
    OBVIOUS
  <2>3. Body(g, 1) = one
    BY <1>1, <2>1
  <2>4. Body(g, 2) = two
    <3> HIDE DEF one
    <3> QED
      BY <1>1, <2>1
  <2> HIDE DEF Body, one, two
  <2>5. \A k \in 0..2 : g[k] = Body(g, k)
    BY <2>1, <2>2, <2>3, <2>4
  <2> QED
    BY <1>1, <2>1, <2>5
<1> HIDE DEF Rest
<1>4. Rest(rest)
  BY <1>3, Zenon
<1> HIDE DEF rest
<1>5. \A k \in 0..2 : rest[k] = Body(rest, k)
  <2> HIDE DEF Body
  <2> QED
    BY <1>1, <1>4 DEF Rest
<1>6. rest[0] = <<>> /\ rest[1] = App(rest[0], b) /\ rest[2] = App(rest[1], q)
  <2>1. rest[0] = Body(rest, 0) /\ rest[1] = Body(rest, 1) /\ rest[2] = Body(rest, 2)
    <3> HIDE DEF Body
    <3> QED
      BY <1>5
  <2> QED
    BY <1>1, <2>1
<1> QED
  BY <1>1, <1>2, <1>6, AppendPair DEF id, App

\* A separator between base and quote is dropped.
LEMMA WithoutTriple ==
    ASSUME NEW b, NEW x, NEW q, NEW seps, b \notin seps, x \in seps, q \notin seps
    PROVE  Without(<<b, x, q>>, seps) = <<b, q>>
<1> DEFINE id == <<b, x, q>>
           App(s, e) == Append(s, e)
           one == App(<<>>, b)
           two == App(one, q)
           Body(r, k) == IF k = 0 THEN <<>> ELSE IF id[k] \in seps THEN r[k - 1] ELSE App(r[k - 1], id[k])
           Rest(r) == r = [k \in 0..Len(id) |-> Body(r, k)]
           rest == CHOOSE r : Rest(r)
           g == [k \in 0..3 |-> IF k = 0 THEN <<>> ELSE IF k \in {1, 2} THEN one ELSE two]
<1>1. Len(id) = 3 /\ id[1] = b /\ id[2] = x /\ id[3] = q
  OBVIOUS
<1>2. Without(id, seps) = rest[Len(id)]
  BY Zenon DEF Without
<1> HIDE DEF id, App
<1>3. Rest(g)
  <2>1. g[0] = <<>> /\ g[1] = one /\ g[2] = one /\ g[3] = two /\ g = [k \in 0..3 |-> g[k]]
    <3> HIDE DEF one, two
    <3> QED
      OBVIOUS
  <2> HIDE DEF g
  <2>2. Body(g, 0) = <<>>
    OBVIOUS
  <2>3. Body(g, 1) = one
    BY <1>1, <2>1
  <2>4. Body(g, 2) = one
    <3> HIDE DEF one
    <3> QED
      BY <1>1, <2>1
  <2>5. Body(g, 3) = two
    <3> HIDE DEF one
    <3> QED
      BY <1>1, <2>1
  <2> HIDE DEF Body, one, two
  <2>6. \A k \in 0..3 : g[k] = Body(g, k)
    BY <2>1, <2>2, <2>3, <2>4, <2>5
  <2> QED
    BY <1>1, <2>1, <2>6
<1> HIDE DEF Rest
<1>4. Rest(rest)
  BY <1>3, Zenon
<1> HIDE DEF rest
<1>5. \A k \in 0..3 : rest[k] = Body(rest, k)
  <2> HIDE DEF Body
  <2> QED
    BY <1>1, <1>4 DEF Rest
<1>6. /\ rest[0] = <<>> /\ rest[1] = App(rest[0], b) /\ rest[2] = rest[1]
      /\ rest[3] = App(rest[2], q)
  <2>1. /\ rest[0] = Body(rest, 0) /\ rest[1] = Body(rest, 1) /\ rest[2] = Body(rest, 2)
        /\ rest[3] = Body(rest, 3)
    <3> HIDE DEF Body
    <3> QED
      BY <1>5
  <2> QED
    BY <1>1, <2>1
<1> QED
  BY <1>1, <1>2, <1>6, AppendPair DEF id, App

\* The keys of an instrument's IDs.
LEMMA KeysOfIDs ==
    ASSUME NEW x \in Instruments
    PROVE  /\ Without(<<x.base, x.quote>>, Separators) = <<x.base, x.quote>>
           /\ Without(<<x.base, Underscore, x.quote>>, Separators) = <<x.base, x.quote>>
           /\ Without(<<x.base, Underscore, x.quote>>, {Underscore}) = <<x.base, x.quote>>
           /\ Without(<<x.base, "-", x.quote>>, {"-"}) = <<x.base, x.quote>>
<1>1. /\ x.base \notin Separators /\ x.quote \notin Separators /\ Underscore \in Separators
      /\ x.base \notin {Underscore} /\ x.quote \notin {Underscore} /\ x.base \notin {"-"} /\ x.quote \notin {"-"}
  BY NamesAssumption DEF NamesAssumption, Separators
<1>2. Without(<<x.base, x.quote>>, Separators) = <<x.base, x.quote>>
  BY <1>1, WithoutPair
<1>3. Without(<<x.base, Underscore, x.quote>>, Separators) = <<x.base, x.quote>>
  BY <1>1, WithoutTriple
<1>4. Without(<<x.base, Underscore, x.quote>>, {Underscore}) = <<x.base, x.quote>>
  BY <1>1, WithoutTriple
<1>5. Without(<<x.base, "-", x.quote>>, {"-"}) = <<x.base, x.quote>>
  BY <1>1, WithoutTriple
<1> QED
  BY <1>2, <1>3, <1>4, <1>5

\* The parts of a longer ID that an adapter cuts out.
LEMMA CutIDs ==
    ASSUME NEW b, NEW q
    PROVE  /\ SubSeq(<<b, "-", q, "-", "SWAP">>, 1, 3) = <<b, "-", q>>
           /\ SubSeq(<<b, q, "M">>, 1, 2) = <<b, q>>
           /\ SubSeq(<<"1m", Underscore>> \o <<b, Underscore, q>>, 3, 5) = <<b, Underscore, q>>
<1> DEFINE S == {b, q, "-", Underscore, "M", "SWAP", "1m"}
<1>1. b \in S /\ q \in S /\ "-" \in S /\ Underscore \in S /\ "M" \in S /\ "SWAP" \in S /\ "1m" \in S
  OBVIOUS
<1> HIDE DEF S
<1>2. SubSeq(<<b, "-", q, "-", "SWAP">>, 1, 3) = <<b, "-", q>>
  <2> DEFINE s == <<b, "-", q, "-", "SWAP">>
             t == SubSeq(s, 1, 3)
  <2>1. s[1] = b /\ s[2] = "-" /\ s[3] = q
    OBVIOUS
  <2> HIDE DEF s
  <2>2. \A i \in 1..3 : s[i] \in S
    BY <1>1, <2>1
  <2>3. t \in Seq(S) /\ Len(t) = 3 /\ \A i \in 1..3 : t[i] = s[i]
    BY <2>2, SubSeqProperties
  <2> HIDE DEF t
  <2>4. t = <<b, "-", q>>
    BY <2>1, <2>3, Triple
  <2> QED
    BY <2>4 DEF t, s
<1>3. SubSeq(<<b, q, "M">>, 1, 2) = <<b, q>>
  <2> DEFINE s == <<b, q, "M">>
             t == SubSeq(s, 1, 2)
  <2>1. s[1] = b /\ s[2] = q
    OBVIOUS
  <2> HIDE DEF s
  <2>2. \A i \in 1..2 : s[i] \in S
    BY <1>1, <2>1
  <2>3. t \in Seq(S) /\ Len(t) = 2 /\ \A i \in 1..2 : t[i] = s[i]
    BY <2>2, SubSeqProperties
  <2> HIDE DEF t
  <2>4. t = <<b, q>>
    BY <2>1, <2>3, Pair
  <2> QED
    BY <2>4 DEF t, s
<1>4. SubSeq(<<"1m", Underscore>> \o <<b, Underscore, q>>, 3, 5) = <<b, Underscore, q>>
  <2> DEFINE s == <<"1m", Underscore>> \o <<b, Underscore, q>>
             t == SubSeq(s, 3, 5)
  <2>1. s[3] = b /\ s[4] = Underscore /\ s[5] = q
    OBVIOUS
  <2> HIDE DEF s
  <2>2. \A i \in 3..5 : s[i] \in S
    BY <1>1, <2>1
  <2>3. t \in Seq(S) /\ Len(t) = 3 /\ \A i \in 1..3 : t[i] = s[3 + i - 1]
    BY <2>2, SubSeqProperties
  <2>4. t[1] = s[3] /\ t[2] = s[4] /\ t[3] = s[5]
    BY <2>3
  <2> HIDE DEF t
  <2>5. t = <<b, Underscore, q>>
    BY <2>1, <2>3, <2>4, Triple
  <2> QED
    BY <2>5 DEF t, s
<1> QED
  BY <1>2, <1>3, <1>4

\* The contracts of a market.
LEMMA ListedKinds ==
    ASSUME NEW v \in Venues8, NEW m \in {"spot", "futures"}, NEW x \in Listed(v, m)
    PROVE  /\ x \in Instruments
           /\ m = "spot" => x.kind = "spot"
           /\ m = "futures" => x.kind \in {"perp", "dated", "inverse"}
           /\ x.kind = "dated" => v \in {"BINANCE", "BYBIT", "KUCOIN"}
  BY DEF Listed, Venues8

\* A feed subscribes to instruments of its market.
LEMMA SubscribedListed ==
    ASSUME venue \in Venues8, NEW f \in Feeds, NEW x \in Subscribed(f)
    PROVE  /\ Market(f) \in {"spot", "futures"} /\ x \in Listed(venue, Market(f))
           /\ venue = "KUCOIN" /\ f = "funding" => x.kind # "dated"
<1>1. Market(f) \in {"spot", "futures"}
  BY DEF Market
<1>2. f = "funding" => Market(f) = "futures" /\ f \notin Candles
  BY DEF Market, Candles
<1>3. f \in Candles => f \notin {"funding", "spot", "futures"}
  BY DEF Candles
<1>4. CASE venue = "BINANCE"
  BY <1>1, <1>4 DEF Subscribed, BinanceSymbols
<1>5. CASE venue = "BYBIT"
  BY <1>1, <1>5 DEF Subscribed, BybitSymbols
<1>6. CASE venue = "OKX"
  BY <1>1, <1>2, <1>6 DEF Subscribed, OkxSymbols, OkxRawSwapSymbols, OkxTickerInstIDs
<1>7. CASE venue = "BITGET"
  BY <1>1, <1>7 DEF Subscribed, BitgetSpotSymbols, BitgetFuturesSymbols
<1>8. CASE venue = "GATEIO"
  BY <1>1, <1>8 DEF Subscribed, GateSymbols
<1>9. CASE venue = "KUCOIN"
  BY <1>1, <1>2, <1>3, <1>9 DEF Subscribed, KucoinCandleSymbols
<1>10. CASE venue = "BINGX"
  BY <1>1, <1>10 DEF Subscribed, BingxCandleSymbols, BingxTickerSymbols
<1>11. CASE venue = "MEXC"
  BY <1>1, <1>11 DEF Subscribed, MexcCandleSymbols
<1> QED
  BY <1>4, <1>5, <1>6, <1>7, <1>8, <1>9, <1>10, <1>11 DEF Venues8

\* Base and quote are the key of every contract but a dated one: no perpetual
\* contract has the base and quote of an inverse one.
LEMMA JoinsPair ==
    ASSUME NEW x \in Instruments, x.kind # "dated"
    PROVE  Joins(<<x.base, x.quote>>, x)
<1>1. x.kind \in {"spot", "perp", "inverse"}
  BY MessageAssumption DEF MessageAssumption, Kinds
<1>2. CASE x.kind = "inverse"
  BY <1>2, NamesAssumption DEF NamesAssumption, Joins, Canonical
<1> QED
  BY <1>1, <1>2 DEF Joins, Canonical

\* The key of a dated contract is no perpetual contract's.
LEMMA JoinsDated ==
    ASSUME NEW x \in Instruments, x.kind = "dated"
    PROVE  Joins(<<x.base, x.quote, Underscore, "DATE">>, x)
<1>1. ASSUME NEW b, NEW q PROVE <<x.base, x.quote, Underscore, "DATE">> # <<b, q>>
  OBVIOUS
<1> QED
  BY <1>1 DEF Joins, Canonical

\* The exchanges' IDs.
LEMMA IDs ==
    ASSUME NEW x \in Instruments
    PROVE  /\ \A v \in {"BINANCE", "BYBIT"} :
                NativeID(v, x) = IF x.kind = "dated" THEN <<x.base, x.quote, Underscore, "DATE">>
                                                     ELSE <<x.base, x.quote>>
           /\ NativeID("OKX", x) = IF x.kind = "spot" THEN <<x.base, "-", x.quote>>
                                                      ELSE <<x.base, "-", x.quote, "-", "SWAP">>
           /\ NativeID("BITGET", x) = <<x.base, x.quote>>
           /\ NativeID("GATEIO", x) = <<x.base, Underscore, x.quote>>
           /\ x.kind = "spot" => NativeID("KUCOIN", x) = <<x.base, "-", x.quote>>
           /\ x.kind = "dated" => NativeID("KUCOIN", x) = <<OldName(x.base), "M", "DATE">>
           /\ x.kind \in {"perp", "inverse"} => NativeID("KUCOIN", x) = <<OldName(x.base), x.quote, "M">>
           /\ NativeID("BINGX", x) = <<x.base, "-", x.quote>>
           /\ NativeID("MEXC", x) = IF x.kind = "spot" THEN <<x.base, x.quote>>
                                                       ELSE <<x.base, Underscore, x.quote>>
  BY MessageAssumption DEF MessageAssumption, Kinds, NativeID

\* A dated contract's ID has no perpetual contract's suffix.
LEMMA DatedHasNoSuffix ==
    ASSUME NEW b, NEW u
    PROVE  ~EndsWith(<<b, "M", "DATE">>, <<u, "M">>)
  BY DEF EndsWith, IsSuffix, IsPrefix, Reverse

\* A KuCoin contract's key has Bitcoin's usual name.
LEMMA KucoinKeys ==
    ASSUME NEW x \in Instruments
    PROVE  /\ x.kind = "spot" =>
                KucoinNormalizeSymbol(NativeID("KUCOIN", x), "spot") = <<x.base, x.quote>>
           /\ x.kind \in {"perp", "inverse"} =>
                KucoinNormalizeSymbol(NativeID("KUCOIN", x), "futures") \in {<<x.base, x.quote>>, <<>>}
           /\ x.kind = "dated" => KucoinNormalizeSymbol(NativeID("KUCOIN", x), "futures") = <<>>
<1>1. CASE x.kind = "spot"
  <2>1. KucoinNormalizeSymbol(NativeID("KUCOIN", x), "spot") = Without(NativeID("KUCOIN", x), {"-"})
    BY DEF KucoinNormalizeSymbol
  <2> QED
    BY <1>1, <2>1, IDs, KeysOfIDs
<1>2. CASE x.kind \in {"perp", "inverse"}
  <2> DEFINE id == <<OldName(x.base), x.quote, "M">>
             cut == SubSeq(id, 1, Len(id) - 1)
             key == [cut EXCEPT ![1] = IF @ = "XBT" THEN "BTC" ELSE @]
  <2>1. NativeID("KUCOIN", x) = id
    BY <1>2, IDs
  <2>2. KucoinNormalizeSymbol(id, "futures") \in {key, <<>>}
    <3> HIDE DEF id
    <3> QED
      BY Zenon DEF KucoinNormalizeSymbol
  <2>3. cut = <<OldName(x.base), x.quote>>
    <3>1. Len(id) - 1 = 2
      OBVIOUS
    <3> QED
      BY <3>1, CutIDs
  <2>4. x.base # "XBT"
    BY NamesAssumption DEF NamesAssumption
  <2>5. [<<OldName(x.base), x.quote>> EXCEPT ![1] = IF @ = "XBT" THEN "BTC" ELSE @] = <<x.base, x.quote>>
    BY <2>4 DEF OldName
  <2>6. key = <<x.base, x.quote>>
    <3> HIDE DEF cut
    <3> QED
      BY <2>3, <2>5
  <2> HIDE DEF key, id
  <2> QED
    BY <1>2, <2>1, <2>2, <2>6
<1>3. CASE x.kind = "dated"
  <2>1. NativeID("KUCOIN", x) = <<OldName(x.base), "M", "DATE">>
    BY <1>3, IDs
  <2> DEFINE id == <<OldName(x.base), "M", "DATE">>
  <2>2. ~EndsWith(id, <<"USDT", "M">>) /\ ~EndsWith(id, <<"USD", "M">>)
    BY DatedHasNoSuffix
  <2> HIDE DEF id
  <2>3. KucoinNormalizeSymbol(id, "futures") = <<>>
    BY <2>2 DEF KucoinNormalizeSymbol
  <2> QED
    BY <1>3, <2>1, <2>3 DEF id
<1> QED
  BY <1>1, <1>2, <1>3

\* An OKX ticker's key is the swap's or the pair's base and quote.
LEMMA OkxKeys ==
    ASSUME NEW x \in Instruments, NEW m \in {"spot", "futures"}, x.kind = "spot" <=> m = "spot"
    PROVE  OkxNormalizeSymbol(NativeID("OKX", x), m) \in {<<x.base, x.quote>>, <<>>}
<1>1. CASE m = "spot"
  <2> DEFINE id == <<x.base, "-", x.quote>>
  <2>1. NativeID("OKX", x) = id /\ Without(id, {"-"}) = <<x.base, x.quote>>
    BY <1>1, IDs, KeysOfIDs
  <2> HIDE DEF id
  <2> QED
    BY <1>1, <2>1 DEF OkxNormalizeSymbol
<1>2. CASE m = "futures"
  <2> DEFINE id == <<x.base, "-", x.quote, "-", "SWAP">>
             cut == SubSeq(id, 1, Len(id) - 2)
  <2>1. NativeID("OKX", x) = id
    BY <1>2, IDs
  <2>2. cut = <<x.base, "-", x.quote>>
    <3>1. Len(id) - 2 = 3
      OBVIOUS
    <3> QED
      BY <3>1, CutIDs
  <2>3. Without(cut, {"-"}) = <<x.base, x.quote>>
    <3> HIDE DEF cut
    <3> QED
      BY <2>2, KeysOfIDs
  <2> HIDE DEF id
  <2>4. OkxNormalizeSymbol(id, m) \in {Without(cut, {"-"}), <<>>}
    BY <1>2 DEF OkxNormalizeSymbol
  <2> HIDE DEF cut
  <2> QED
    BY <2>1, <2>3, <2>4
<1> QED
  BY <1>1, <1>2

\* A tick's key names its instrument.
LEMMA TickKeys ==
    ASSUME venue \in Venues8, NEW f \in {"spot", "futures"}, NEW x \in Subscribed(f),
           NEW q, NEW cache, NEW t \in Ticks(f, x, q, cache)
    PROVE  Joins(t.key, x)
<1> DEFINE id == NativeID(venue, x)
           pair == <<x.base, x.quote>>
           v == Turnover(cache)
<1>1. /\ Market(f) = f /\ x \in Instruments /\ (f = "spot" <=> x.kind = "spot")
      /\ x.kind = "dated" => venue \in {"BINANCE", "BYBIT", "KUCOIN"}
      /\ f = "futures" => x.kind \in {"perp", "dated", "inverse"}
  <2>1. f \in Feeds /\ Market(f) = f
    BY DEF Feeds, Market
  <2>2. x \in Listed(venue, f)
    BY <2>1, SubscribedListed
  <2> QED
    BY <2>1, <2>2, ListedKinds
<1>2. ASSUME NEW key, NEW r, NEW vol, t = Tick(key, r, vol) PROVE t.key = key
  BY <1>2 DEF Tick
<1>3. x.kind # "dated" => Joins(pair, x)
  BY <1>1, JoinsPair
<1>4. CASE venue \in {"BINANCE", "BYBIT"}
  <2>1. Joins(id, x)
    BY <1>1, <1>3, <1>4, IDs, JoinsDated
  <2> HIDE DEF id
  <2>2. venue = "BINANCE" => t \in BinanceTick(id, Market(f), q)
    BY DEF Ticks, id
  <2>3. venue = "BYBIT" => t \in BybitTick(id, Market(f), cache)
    BY DEF Ticks, id
  <2>4. \E r, vol : t = Tick(id, r, vol)
    BY <1>4, <2>2, <2>3, Zenon DEF BinanceTick, BybitTick
  <2> QED
    BY <1>2, <2>1, <2>4
<1>5. CASE venue = "OKX"
  <2> DEFINE key == OkxNormalizeSymbol(id, f)
  <2>1. t \in OkxTick(id, f, q)
    BY <1>1, <1>5 DEF Ticks
  <2>2. key \in {pair, <<>>}
    BY <1>1, <1>5, OkxKeys
  <2> HIDE DEF id, pair
  <2>3. (\E vol : t = Tick(key, q, vol)) /\ key # <<>>
    BY <2>1, Zenon DEF OkxTick
  <2> HIDE DEF key
  <2> QED
    BY <1>1, <1>2, <1>3, <1>5, <2>2, <2>3
<1>6. CASE venue = "BITGET"
  <2> DEFINE key == Without(id, Separators)
  <2>1. t \in BitgetTick(id, Market(f), q)
    BY <1>6 DEF Ticks
  <2>2. key = pair
    BY <1>1, <1>6, IDs, KeysOfIDs
  <2> HIDE DEF id, pair
  <2>3. \E vol : t = Tick(key, q, vol)
    BY <2>1, Zenon DEF BitgetTick
  <2> HIDE DEF key
  <2> QED
    BY <1>1, <1>2, <1>3, <1>6, <2>2, <2>3
<1>7. CASE venue = "GATEIO"
  <2> DEFINE key == Without(id, Separators)
  <2>1. t \in GateSpotTick(id, Market(f), q) \/ t \in GateBookTick(id, q, v)
    BY <1>7 DEF Ticks
  <2>2. key = pair
    BY <1>1, <1>7, IDs, KeysOfIDs
  <2> HIDE DEF id, pair, v
  <2>3. \E vol : t = Tick(key, q, vol)
    BY <2>1, Zenon DEF GateSpotTick, GateBookTick
  <2> HIDE DEF key
  <2> QED
    BY <1>1, <1>2, <1>3, <1>7, <2>2, <2>3
<1>8. CASE venue = "KUCOIN"
  <2> DEFINE key == KucoinNormalizeSymbol(id, f)
  <2>1. t \in KucoinTick(id, f, q)
    BY <1>1, <1>8 DEF Ticks
  <2>2. key = <<>> \/ (key = pair /\ x.kind # "dated")
    BY <1>1, <1>8, KucoinKeys
  <2> HIDE DEF id, pair
  <2>3. (\E vol : t = Tick(key, q, vol)) /\ key # <<>>
    BY <2>1, Zenon DEF KucoinTick
  <2> HIDE DEF key
  <2> QED
    BY <1>1, <1>2, <1>3, <2>2, <2>3
<1>9. CASE venue = "BINGX"
  <2> DEFINE key == Without(id, {"-"})
  <2>1. t \in BingxTick(id, q, v)
    BY <1>9 DEF Ticks
  <2>2. key = pair
    BY <1>1, <1>9, IDs, KeysOfIDs
  <2> HIDE DEF id, pair, v
  <2>3. \E vol : t = Tick(key, q, vol)
    BY <2>1, Zenon DEF BingxTick
  <2> HIDE DEF key
  <2> QED
    BY <1>1, <1>2, <1>3, <1>9, <2>2, <2>3
<1>10. CASE venue = "MEXC" /\ f = "spot"
  <2>1. t \in MexcSpotTick(id, Market(f), q)
    BY <1>1, <1>10 DEF Ticks
  <2>2. id = pair
    BY <1>1, <1>10, IDs
  <2> HIDE DEF id, pair
  <2>3. \E vol : t = Tick(id, q, vol)
    BY <2>1, Zenon DEF MexcSpotTick
  <2> QED
    BY <1>1, <1>2, <1>3, <1>10, <2>2, <2>3
<1>11. CASE venue = "MEXC" /\ f = "futures"
  <2> DEFINE key == Without(id, Separators)
  <2>1. t \in MexcFuturesTick(id, x, q)
    BY <1>1, <1>11 DEF Ticks
  <2>2. key = pair
    BY <1>1, <1>11, IDs, KeysOfIDs
  <2> HIDE DEF id, pair
  <2>3. \E vol : t = Tick(key, q, vol)
    BY <2>1, Zenon DEF MexcFuturesTick
  <2> HIDE DEF key
  <2> QED
    BY <1>1, <1>2, <1>3, <1>11, <2>2, <2>3
<1> QED
  BY <1>4, <1>5, <1>6, <1>7, <1>8, <1>9, <1>10, <1>11 DEF Venues8

\* A funding record's key names its contract, but for OKX.
LEMMA FundingKeys ==
    ASSUME venue \in Venues8 \ {"OKX"}, NEW f \in Feeds, CarriesFunding(f), NEW x \in Subscribed(f)
    PROVE  Joins(FundingKey(x), x)
<1> DEFINE pair == <<x.base, x.quote>>
<1>1. /\ x \in Instruments /\ x.kind # "spot"
      /\ x.kind = "dated" => venue \in {"BINANCE", "BYBIT"}
  <2>1. Market(f) = "futures" /\ (venue = "KUCOIN" => f = "funding")
    BY DEF CarriesFunding, Market
  <2>2. x \in Listed(venue, "futures") /\ (venue = "KUCOIN" => x.kind # "dated")
    BY <2>1, SubscribedListed
  <2> QED
    BY <2>2, ListedKinds
<1>2. x.kind # "dated" => Joins(pair, x)
  BY <1>1, JoinsPair
<1>3. CASE venue \in {"BINANCE", "BYBIT"}
  <2>1. FundingKey(x) = NativeID(venue, x)
    BY <1>3 DEF FundingKey, FundingID
  <2> QED
    BY <1>1, <1>2, <1>3, <2>1, IDs, JoinsDated
<1>4. FundingKey(x) = pair \/ venue \in {"BINANCE", "BYBIT"}
  <2>1. CASE venue = "BITGET"
    <3>1. FundingKey(x) = NativeID("BITGET", x)
      BY <2>1 DEF FundingKey, FundingID
    <3> QED
      BY <1>1, <3>1, IDs
  <2>2. CASE venue \in {"KUCOIN", "BINGX"}
    <3> DEFINE id == <<x.base, "-", x.quote>>
    <3>1. FundingID(venue, x) = id
      BY <1>1, <2>2, IDs DEF FundingID
    <3>2. Without(id, {"-"}) = pair
      BY <1>1, KeysOfIDs
    <3> HIDE DEF id
    <3>3. FundingKey(x) = Without(id, {"-"})
      BY <2>2, <3>1 DEF FundingKey
    <3> QED
      BY <3>2, <3>3
  <2>3. CASE venue \in {"GATEIO", "MEXC"}
    <3> DEFINE id == <<x.base, Underscore, x.quote>>
    <3>1. FundingID(venue, x) = id
      BY <1>1, <2>3, IDs DEF FundingID
    <3>2. Without(id, {Underscore}) = pair
      BY <1>1, KeysOfIDs
    <3> HIDE DEF id
    <3>3. FundingKey(x) = Without(id, {Underscore})
      BY <2>3, <3>1 DEF FundingKey
    <3> QED
      BY <3>2, <3>3
  <2> QED
    BY <2>1, <2>2, <2>3 DEF Venues8
<1> HIDE DEF pair
<1> QED
  BY <1>1, <1>2, <1>3, <1>4

\* A candle's key names its instrument, but for the swaps of OKX and KuCoin.
LEMMA CandleKeys ==
    ASSUME venue \in Venues8, NEW f \in Candles, venue \in {"OKX", "KUCOIN"} => f = "spotCandles",
           NEW x \in Subscribed(f)
    PROVE  Joins(CandleKey(x), x)
<1> DEFINE pair == <<x.base, x.quote>>
<1>1. /\ x \in Instruments
      /\ x.kind = "dated" => venue \in {"BINANCE", "BYBIT"}
      /\ venue \in {"OKX", "KUCOIN"} => x.kind = "spot"
  <2>1. f \in Feeds /\ Market(f) \in {"spot", "futures"} /\ (f = "spotCandles" => Market(f) = "spot")
    BY DEF Candles, Feeds, Market
  <2>2. x \in Listed(venue, Market(f))
    BY <2>1, SubscribedListed
  <2> QED
    BY <2>1, <2>2, ListedKinds
<1>2. x.kind # "dated" => Joins(pair, x)
  BY <1>1, JoinsPair
<1>3. CASE venue \in {"BINANCE", "BYBIT"}
  <2>1. CandleKey(x) = NativeID(venue, x)
    BY <1>3 DEF CandleKey, CandleID
  <2> QED
    BY <1>1, <1>2, <1>3, <2>1, IDs, JoinsDated
<1>4. CandleKey(x) = pair \/ venue \in {"BINANCE", "BYBIT"}
  <2>1. CASE venue = "BITGET"
    <3>1. CandleKey(x) = NativeID("BITGET", x)
      BY <2>1 DEF CandleKey, CandleID
    <3> QED
      BY <1>1, <3>1, IDs
  <2>2. CASE venue \in {"OKX", "KUCOIN", "BINGX"}
    <3> DEFINE id == <<x.base, "-", x.quote>>
    <3>1. CandleID(venue, x) = id
      BY <1>1, <2>2, IDs DEF CandleID
    <3>2. Without(id, {"-"}) = pair
      BY <1>1, KeysOfIDs
    <3> HIDE DEF id
    <3>3. CandleKey(x) = Without(id, {"-"})
      BY <2>2, <3>1 DEF CandleKey
    <3> QED
      BY <3>2, <3>3
  <2>3. CASE venue = "GATEIO"
    <3> DEFINE id == <<"1m", Underscore>> \o <<x.base, Underscore, x.quote>>
               cut == SubSeq(id, 3, Len(id))
    <3>1. CandleID(venue, x) = id
      BY <1>1, <2>3, IDs DEF CandleID
    <3>2. Len(id) = 5
      OBVIOUS
    <3>3. cut = <<x.base, Underscore, x.quote>>
      BY <3>2, CutIDs
    <3>4. Without(cut, {Underscore}) = pair
      <4> HIDE DEF cut
      <4> QED
        BY <1>1, <3>3, KeysOfIDs
    <3> HIDE DEF id
    <3>5. CandleKey(x) = Without(cut, {Underscore})
      BY <2>3, <3>1 DEF CandleKey
    <3> QED
      BY <3>4, <3>5
  <2>4. CASE venue = "MEXC"
    <3> DEFINE id == NativeID("MEXC", x)
    <3>1. CandleID(venue, x) = id
      BY <2>4 DEF CandleID
    <3>2. Without(id, Separators) = pair
      BY <1>1, IDs, KeysOfIDs
    <3> HIDE DEF id
    <3>3. CandleKey(x) = Without(id, Separators)
      BY <2>4, <3>1 DEF CandleKey
    <3> QED
      BY <3>2, <3>3
  <2> QED
    BY <2>1, <2>2, <2>3, <2>4 DEF Venues8
<1> HIDE DEF pair
<1> QED
  BY <1>1, <1>2, <1>3, <1>4

\* Everything a connection delivers about an instrument is filed under its key.
LEMMA DeliverKeys ==
    ASSUME IInv, NEW f \in Feeds, NEW i \in Conns, Live(f, i), NEW s, NEW cache,
           Deliver(f, s, cache), s.inst \in Subscribed(f)
    PROVE  KeysJoin'
<1>1. /\ out' = [src |-> {s}, to |-> Deliveries(f, s.inst, s.q, cache)]
      /\ UNCHANGED <<venue, group>> /\ venue \in Venues8
  BY StreamAssumption DEF Deliver, IInv, Typed
<1>2. f \in group
  BY DEF IInv, LoopOK, Live
<1>3. \A sink : ForeignKeys(sink)' <=> ForeignKeys(sink)
  BY <1>1 DEF ForeignKeys
<1> SUFFICES ASSUME NEW d \in Deliveries(f, s.inst, s.q, cache), ~ForeignKeys(d.sink)
             PROVE  Joins(d.key, s.inst)
  BY <1>1, <1>3 DEF KeysJoin
<1>4. CASE f \in {"spot", "futures"} /\ \E t \in Ticks(f, s.inst, s.q, cache) : d.key = t.key
  BY <1>1, <1>4, TickKeys
<1>5. CASE CarriesFunding(f) /\ d.sink = "funding" /\ d.key = FundingKey(s.inst)
  <2>1. venue # "OKX"
    BY <1>5 DEF ForeignKeys
  <2> QED
    BY <1>1, <1>5, <2>1, FundingKeys
<1>6. CASE f \in Candles /\ d.key = CandleKey(s.inst)
  <2>1. venue \in {"OKX", "KUCOIN"} => f = "spotCandles"
    BY <1>2, <1>6 DEF ForeignKeys, Candles
  <2> QED
    BY <1>1, <1>6, <2>1, CandleKeys
<1> QED
  BY <1>4, <1>5, <1>6 DEF Deliveries

\* Every tick, funding record and candle that is not one of the foreign ones is
\* filed under the key by which it is looked up, whatever instruments an exchange
\* lists and whatever messages it sends about them.
THEOREM KeysAlwaysJoin == Spec => []KeysJoin
<1>1. Init => CacheInv /\ KeysJoin
  <2> SUFFICES ASSUME Init PROVE CacheInv /\ KeysJoin
    OBVIOUS
  <2>1. \A f \in Feeds, i \in Conns : conn[f][i] = NoConn
    BY DEF Init
  <2>2. NoConn.cache = NoConn.sent
    BY DEF NoConn
  <2>3. KeysJoin
    BY DEF Init, KeysJoin, Nothing
  <2> QED
    BY <2>1, <2>2, <2>3 DEF CacheInv, CacheOK, QuoteOK
<1>2. IInv /\ CacheInv /\ KeysJoin /\ [Next]_vars => CacheInv' /\ KeysJoin'
  <2> SUFFICES ASSUME IInv, CacheInv, KeysJoin, [Next]_vars PROVE CacheInv' /\ KeysJoin'
    OBVIOUS
  <2>1. CacheInv' /\ (Quiet \/ DeliveryStep \/ UNCHANGED vars)
    BY DeliveryFacts
  <2>2. CASE Quiet
    <3>1. KeysJoin'
      BY <2>2 DEF Quiet, NoDelivery, Nothing, KeysJoin
    <3> QED
      BY <2>1, <3>1
  <2>3. CASE DeliveryStep
    <3>1. PICK f \in Feeds, i \in Conns : \E s \in Samples[i], cache \in Quote :
            Live(f, i) /\ Deliver(f, s, cache) /\ s.inst \in Subscribed(f)
      BY <2>3 DEF DeliveryStep
    <3>2. KeysJoin'
      BY <3>1, DeliverKeys
    <3> QED
      BY <2>1, <3>2
  <2>4. CASE UNCHANGED vars
    <3>1. KeysJoin'
      BY <2>4 DEF vars, KeysJoin, ForeignKeys
    <3> QED
      BY <2>1, <3>1
  <2> QED
    BY <2>1, <2>2, <2>3, <2>4
<1> QED
  BY <1>1, <1>2, InvHolds, PTL DEF Spec
=============================================================================
