------------------------- MODULE MCSignalLifecycle -------------------------
(* SignalLifecycle on small instances: two exchanges; prices around 100     *)
(* that make spreads of 0 to 6 percent before fees.                         *)
EXTENDS SignalLifecycle, TLC

CONSTANTS a, b  \* two exchanges

\* Sound where feeds and fees treat the exchanges alike.
ExchangeSymmetry == Permutations(Exchanges)

FuturesFeeds == {<<a, "FUTURES">>, <<b, "FUTURES">>}
SpotFeeds    == {<<a, "SPOT">>, <<a, "FUTURES">>, <<b, "FUTURES">>}

\* One price per tick; the spread of the book itself is zero.
ThreeQuotes == {<<100, 100>>, <<103, 103>>, <<106, 106>>}
TwoQuotes   == {<<100, 100>>, <<104, 104>>}
\* A crossed book (an invalid tick) and a book with a spread of its own.
BookQuotes  == {<<100, 101>>, <<107, 107>>, <<108, 107>>}

NoFees  == [e \in Exchanges |-> 0]
OneFee  == [e \in Exchanges |-> IF e = a THEN 1 ELSE 0]

\* The filters admit everything or nothing.
AllOrNothing == {Routes, {}}
NoFilters    == {Routes}
=============================================================================
