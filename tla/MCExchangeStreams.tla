------------------------- MODULE MCExchangeStreams -------------------------
(* A small instance of ExchangeStreams: one instrument of every kind, a      *)
(* second USDT pair and contract, one message about each, and for one pair   *)
(* and contract quotes with a side that is gone (the older bid would cross   *)
(* the book) and with a volume that is absent or malformed.                  *)
EXTENDS ExchangeStreams

MCInstrument(base, quote, kind) == [base |-> base, quote |-> quote, kind |-> kind, live |-> TRUE]

MCSpot == MCInstrument("BTC", "USDT", "spot")
MCPerp == MCInstrument("BTC", "USDT", "perp")
MCOthers == {MCInstrument("ETH", "USDT", "spot"), MCInstrument("ETH", "USDT", "perp"),
             MCInstrument("ETH", "USDC", "spot"), MCInstrument("BTC", "USDT", "dated"),
             MCInstrument("BTC", "USD", "inverse")}
MCInstruments == {MCSpot, MCPerp} \cup MCOthers

MCQuote(bid, ask, last, turnover, vol) ==
    [bid |-> bid, ask |-> ask, last |-> last, base |-> 4, turnover |-> turnover, vol |-> vol]

MCBook == MCQuote(2, 4, 2, 8, "ok")
MCOther == MCQuote(2, 4, 2, 5, "ok")
MCSpotQuotes == {MCBook, MCQuote(5, 6, 0, 0, "absent"), MCQuote(0, 4, 2, 0, "bad")}
MCPerpQuotes == {MCBook, MCQuote(0, 6, 2, 0, "absent")}
MCQuotes == MCSpotQuotes \cup MCPerpQuotes \cup {MCOther}

\* The second connection of a group of connections repeats one of them.
MCSamples ==
    [i \in {1, 2} |->
        IF i = 1 THEN {[inst |-> MCSpot, q |-> q] : q \in MCSpotQuotes}
                      \cup {[inst |-> MCPerp, q |-> q] : q \in MCPerpQuotes}
                      \cup {[inst |-> x, q |-> MCOther] : x \in MCOthers}
        ELSE {[inst |-> x, q |-> MCBook] : x \in {MCSpot, MCPerp}}]
=============================================================================
