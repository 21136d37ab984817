---------------------------- MODULE VolumeEngine ----------------------------
(***************************************************************************)
(* The volume engine and the volume filters that read it, for one symbol:  *)
(* one minute series per leg (an exchange's market), pruned by age on      *)
(* every candle and by the janitor, from which the aggregator's two        *)
(* prefilters and the router's exact check estimate the turnover of a      *)
(* user's timeframe.                                                       *)
(*                                                                         *)
(* Time runs in half minutes, so that "now" lies inside a minute as well   *)
(* as at its start. A volume is a fraction num/den: the projection divides *)
(* by the number of known minutes; decimal rounding is left out.           *)
(***************************************************************************)
EXTENDS Integers, FiniteSetsExt, Functions

CONSTANTS
    Legs,          \* the series of the symbol
    Timeframes,    \* the timeframes below 24h, in minutes
    Slack,         \* minutes kept beyond the longest of them
    Volumes,       \* quote volumes of a candle and of a ticker's 24 hours
    UserSet,       \* users: [tf, min], tf in Timeframes \cup {Day}
    Day,           \* TF_24h, read from the tickers
    JanitorEvery,  \* UpdateCandle runs the janitor at every multiple
    MaxLate,       \* bound: minutes a candle may be behind the clock
    MaxNow,        \* bound: half minutes
    MaxUpdates     \* bound: candles

ASSUME VolumeAssumption ==
    /\ Timeframes \subseteq Nat \ {0} /\ Timeframes # {} /\ Day \notin Timeframes
    /\ Slack \in Nat /\ JanitorEvery \in Nat \ {0} /\ Volumes \subseteq Nat
    /\ UserSet \subseteq [tf : Timeframes \cup {Day}, min : Nat]
    /\ \E longest \in Timeframes : \A d \in Timeframes : d <= longest
    /\ MaxLate \in Nat

\* The longest window has more than one minute, and a candle is late by less than
\* all of what is kept (four hours and two minutes in the code).
ASSUME LatenessAssumption ==
    /\ Max(Timeframes) >= 2
    /\ MaxLate + 2 < Max(Timeframes) + Slack

VARIABLES
    now,       \* the clock
    buckets,   \* [leg |-> [minute |-> quote volume]], VolumeEngine.data
    lastSeen,  \* [leg |-> when its series was written last], Never if absent
    updates,   \* VolumeEngine.updates
    fed        \* history: the last candle of every minute ever given

vars == <<now, buckets, lastSeen, updates, fed>>

Never == -1
Minute(t) == t \div 2
NoBuckets == [m \in {} |-> 0]

\* Mutation of Retention: the slack is forgotten.
RetentionBare == Max(Timeframes) - 1

\* retention, in minutes: 4h + 2m beside a longest window of 4h.
Retention == Max(Timeframes) + Slack

Init ==
    /\ now = 2 * MaxLate
    /\ buckets = [l \in Legs |-> NoBuckets]
    /\ lastSeen = [l \in Legs |-> Never]
    /\ updates = 0
    /\ fed = [l \in Legs |-> NoBuckets]

-----------------------------------------------------------------------------
(* Writing. *)

\* The buckets that are not older than the retention.
Pruned(f) == Restrict(f, {m \in DOMAIN f : 2 * m >= now - 2 * Retention})

With(f, m, q) == [k \in DOMAIN f \cup {m} |-> IF k = m THEN q ELSE f[k]]

\* Janitor's effect on series: every one is pruned, a silent one goes altogether.
Swept(bs, seen) ==
    [l \in Legs |-> IF now - seen[l] > 2 * Retention THEN NoBuckets ELSE Pruned(bs[l])]
SweptSeen(seen) ==
    [l \in Legs |-> IF now - seen[l] > 2 * Retention THEN Never ELSE seen[l]]

\* UpdateCandle: the candle replaces the one of its minute, the series is pruned,
\* and every so often the janitor runs.
UpdateCandle(l, m, q) ==
    /\ updates < MaxUpdates
    /\ LET bs   == [buckets EXCEPT ![l] = Pruned(With(@, m, q))]
           seen == [lastSeen EXCEPT ![l] = now]
           due  == (updates + 1) % JanitorEvery = 0
       IN  /\ buckets'  = IF due THEN Swept(bs, seen) ELSE bs
           /\ lastSeen' = IF due THEN SweptSeen(seen) ELSE seen
    /\ updates' = updates + 1
    /\ fed' = [fed EXCEPT ![l] = With(@, m, q)]
    /\ UNCHANGED now

\* The aggregator's janitor loop.
Janitor ==
    /\ buckets' = Swept(buckets, lastSeen)
    /\ lastSeen' = SweptSeen(lastSeen)
    /\ UNCHANGED <<now, updates, fed>>

Clock ==
    /\ now < MaxNow
    /\ now' = now + 1
    /\ UNCHANGED <<buckets, lastSeen, updates, fed>>

\* A candle of the current minute, of an earlier one, or of the next one when the
\* exchange's clock is ahead.
Next ==
    \/ \E l \in Legs, q \in Volumes, m \in (Minute(now) - MaxLate)..(Minute(now) + 1) :
            UpdateCandle(l, m, q)
    \/ Janitor
    \/ Clock

Spec == Init /\ [][Next]_vars

-----------------------------------------------------------------------------
(* Estimating. *)

AtLeast(v, q) == v.num >= q * v.den
Less(v, w) == v.num * w.den < w.num * v.den

\* The loop from the end of the window: the minutes known without a gap.
KnownMinutes(f, d, end) ==
    LET run[n \in 0..d] == IF n = d \/ end - n \notin DOMAIN f THEN n ELSE run[n + 1]
    IN  run[0]

\* The same loop's total after n minutes.
TotalVolume(f, n, end) ==
    LET total[k \in 0..n] == IF k = 0 THEN 0 ELSE total[k - 1] + f[end - k + 1]
    IN  total[n]

\* EstimateMarketVolume over d minutes ending with the minute "end": the sum of a
\* complete window, or the projection of the run that ends there.
EstimateMarketVolume(f, d, end) ==
    LET n     == KnownMinutes(f, d, end)
        total == TotalVolume(f, n, end)
    IN  [num |-> IF n = d THEN total ELSE total * d,
         den |-> IF n \in {0, d} THEN 1 ELSE n,
         known |-> n, complete |-> n = d]

NoEstimate == [num |-> 0, den |-> 1, known |-> 0, complete |-> FALSE]

\* GetRouteVolumeEstimate: the weaker leg's, and nothing if one leg has nothing.
GetRouteVolumeEstimate(series, b, s, d, end) ==
    LET x == EstimateMarketVolume(series[b], d, end)
        y == EstimateMarketVolume(series[s], d, end)
        v == IF Less(y, x) THEN y ELSE x
    IN  IF x.known = 0 \/ y.known = 0 THEN NoEstimate
        ELSE [num |-> v.num, den |-> v.den, known |-> Min({x.known, y.known}),
              complete |-> x.complete /\ y.complete]

-----------------------------------------------------------------------------
(* The filters. tickers: [leg |-> QuoteVolume24h]; live: the fresh legs.    *)

Day24(q) == [num |-> q, den |-> 1, known |-> 0, complete |-> TRUE]

\* Mutation of SymbolMayPassVolume: only complete windows count.
SymbolMayPassComplete(users, tickers, live) ==
    \E u \in users :
        \/ u.min = 0
        \/ \E l \in live :
            IF u.tf = Day THEN tickers[l] >= u.min
            ELSE LET v == EstimateMarketVolume(buckets[l], u.tf, Minute(now))
                 IN  v.complete /\ AtLeast(v, u.min)

\* symbolMayPassVolume: some fresh leg reaches some user's minimum.
SymbolMayPassVolume(users, tickers, live) ==
    \E u \in users :
        \/ u.min = 0
        \/ \E l \in live :
            IF u.tf = Day THEN tickers[l] >= u.min
            ELSE AtLeast(EstimateMarketVolume(buckets[l], u.tf, Minute(now)), u.min)

\* What the volume of a route is to a user, at a time: the event's 24 hours, the
\* smaller of the two tickers', or the estimate of his timeframe from the series.
RouteVolume(series, u, b, s, tickers, t) ==
    IF u.tf = Day THEN Day24(Min({tickers[b], tickers[s]}))
    ELSE GetRouteVolumeEstimate(series, b, s, u.tf, Minute(t))

\* routeVolumeEligible: the second look at the same estimate decides nothing new.
RouteVolumeEligible(users, b, s, tickers) ==
    \E u \in users : AtLeast(RouteVolume(buckets, u, b, s, tickers, now), u.min)

\* The router's own check, for the window that ends when the signal opened. It is
\* made by the tracker and again by the worker that is about to send, both later,
\* when candles have come and gone; the event's 24 hours are those of the opening.
RouterAccepts(series, u, b, s, tickers, openedAt) ==
    AtLeast(RouteVolume(series, u, b, s, tickers, openedAt), u.min)

-----------------------------------------------------------------------------
(* Properties. *)

\* Reference: the longest run of received minutes that ends with the window, and
\* its average over the whole window, from everything that was ever received.
Reference(f, d, end) ==
    LET n == Max({k \in 0..d : (end - k + 1)..end \subseteq DOMAIN f})
        t == TotalVolume(f, n, end)
    IN  [num |-> t * d, den |-> n]

\* Pruning, the janitor and a late or repeated candle never change an estimate:
\* for a signal opened at most Slack minutes ago, the engine's answer is the one
\* that the full history of candles gives, gaps included
\* (volume_engine.go:37, the reason given for the retention of 4h+2m).
EstimateIsReference ==
    \A l \in Legs, d \in Timeframes : \A t \in (now - 2 * Slack)..now :
        LET e == EstimateMarketVolume(buckets[l], d, Minute(t))
            r == Reference(fed[l], d, Minute(t))
        IN  /\ e.known = r.den
            /\ e.known > 0 => e.num * r.den = r.num * e.den
            /\ e.known = 0 => e.num = 0

\* The three filters agree. A route between two fresh legs that reaches some user's
\* minimum when its signal opens passes the symbol's upper bound before it; and the
\* router, whose looks come later, at the window that ended with the opening,
\* decides by the candles received: nothing that was pruned or swept since the
\* signal opened turns an accepted user away, and nobody else is let in
\* (sharded_aggregator.go:330, notification_router.go:256 and 342).
PrefiltersConservative ==
    \A tickers \in [Legs -> Volumes], b \in Legs : \A s \in Legs \ {b} :
        /\ \A users \in SUBSET UserSet :
            RouteVolumeEligible(users, b, s, tickers) => SymbolMayPassVolume(users, tickers, {b, s})
        /\ \A u \in UserSet, openedAt \in (now - 2 * Slack)..now :
            RouterAccepts(buckets, u, b, s, tickers, openedAt)
                <=> RouterAccepts(fed, u, b, s, tickers, openedAt)
=============================================================================
