-------------------------- MODULE MCVolumeEngine ---------------------------
(* Two legs, windows of one and two minutes with the code's slack of two,    *)
(* and a clock that runs past the retention. One user needs more than one    *)
(* candle's volume, complete or projected; one reads the tickers.            *)
EXTENDS VolumeEngine, TLC

CONSTANTS buy, sell
MCLegs == {buy, sell}
LegSymmetry == Permutations(MCLegs)
MCUsers == {[tf |-> 2, min |-> 3], [tf |-> Day, min |-> 2]}
=============================================================================
