------------------------ MODULE SignalLifecycleProofs ------------------------
(* Proofs about SignalLifecycle, for any exchanges, feeds, quotes, fees,      *)
(* filters, thresholds, time-to-live values and channel capacity.             *)
EXTENDS SignalLifecycle, TLAPS

USE DEF fundingVars, shardVars, aggregatorVars, trackerVars, Markets

-----------------------------------------------------------------------------
(* The inductive invariant. *)

\* A price that exists can be divided by.
PriceInv == \A f \in Exchanges \X Markets : prices[f].at # 0 => prices[f].ask > 0

\* How far cleanup is, and who is still there to send events.
PhaseInv ==
    /\ jpc = "sweep" => pend["janitor"] = {}
    /\ phase \in {"workersStop", "flush", "drain", "done"} => jpc = "wait" /\ pend["janitor"] = {}
    /\ phase \in {"flush", "drain", "done"} => pend["worker"] = {} /\ \A r \in Routes : ~IsActive(r)
    /\ phase \in {"run", "janitorStop", "workersStop"} => pend["main"] = {} /\ ~flushTimedOut
    /\ phase \in {"drain", "done"} => pend["main"] = {}
    /\ phase = "done" => trackerChan = <<>>

\* An event the tracker will look at: it has a time, and no negative spread.
Sound(e) == e.ts # 0 /\ e.spread >= 0

\* The events a sender holds are about distinct routes, and only the worker has
\* other ones than CLOSED.
EventInv ==
    /\ \A s \in Senders : \A e \in pend[s] :
          /\ Sound(e)
          /\ s # "worker" => e.kind = "CLOSED"
          /\ \A x \in pend[s] : x.route = e.route => x = e
    /\ \A i \in 1..Len(trackerChan) : Sound(trackerChan[i])

\* A route without a signal has no rest of one, and the last snapshot of a route
\* agrees with its signal.
SnapshotInv ==
    \A r \in Routes :
        /\ activeSignals[r].openedAt = 0 => activeSignals[r] = NoSignal
        /\ activeSignals[r].openedAt # 0 => persisted[r] = [active |-> TRUE, peak |-> activeSignals[r].peak]
        /\ activeSignals[r].openedAt = 0 => ~persisted[r].active

\* What is left of a signal of which an event was ignored: nothing is known.
Lost == [openedAt |-> 0, peak |-> -1]

\* The signal of route r after event e, when it was s before.
After(r, s, e) ==
    CASE e.route # r \/ s = Lost -> s
      [] e.route = r /\ s # Lost /\ e.kind = "OPENED" ->
            IF s.openedAt = 0 THEN [openedAt |-> e.ts, peak |-> e.spread] ELSE Lost
      [] e.route = r /\ s # Lost /\ e.kind = "UPDATED" ->
            IF s.openedAt # 0 /\ e.ts >= s.openedAt
            THEN [openedAt |-> s.openedAt, peak |-> Larger(e.spread, s.peak)] ELSE Lost
      [] e.route = r /\ s # Lost /\ e.kind = "CLOSED" ->
            IF s.openedAt # 0 /\ e.ts >= s.openedAt THEN NoSignal ELSE Lost

\* The same after the event about r that a sender still holds, if it has one.
Holds(set, r) == \E e \in set : e.route = r
Sent(set, r, s) == IF Holds(set, r) THEN After(r, s, CHOOSE e \in set : e.route = r) ELSE s

\* The signal s is what the aggregator's route a calls for.
Matches(a, s) ==
    s = Lost \/ IF a.ts # 0 THEN s.openedAt # 0 /\ s.peak = a.peak ELSE s = NoSignal

\* The events the senders hold (w of the worker, j of the janitor, m of cleanup)
\* bring s to what the route calls for, whoever sends first. While the janitor
\* holds the end of a route its signal is there to be closed; if the route is
\* active again, the OPENED event that made it so has met that signal. An OPENED
\* event is for a route that had been closed.
Settles(r, a, w, j, m, s) ==
    /\ Matches(a, Sent(m, r, Sent(j, r, Sent(w, r, s))))
    /\ Matches(a, Sent(m, r, Sent(w, r, Sent(j, r, s))))
    /\ Holds(j, r) => Sent(w, r, s) = Lost \/ (a.ts = 0 /\ Sent(w, r, s).openedAt # 0)
    /\ \A e \in w : e.route = r /\ e.kind = "OPENED" => Sent(j, r, s) \in {Lost, NoSignal}

\* d is the history of the signal of r when the tracker handles what is in the
\* channel c, beginning with s.
Walks(r, s, c, d) ==
    /\ d \in [1..(Len(c) + 1) -> Signal]
    /\ d[1] = s
    /\ \A i \in 1..Len(c) : d[i + 1] = After(r, d[i], c[i])

\* Handling the channel and then what the senders hold brings the tracker to
\* where the aggregator is, or makes it ignore an event.
ConvergeInv ==
    ~flushTimedOut => \A r \in Routes \ ignored :
        \E d : /\ Walks(r, activeSignals[r], trackerChan, d)
               /\ Settles(r, active[r], pend["worker"], pend["janitor"], pend["main"],
                          d[Len(trackerChan) + 1])

IInv == TypeOK /\ PriceInv /\ NoForgottenRoute
TrackInv == PhaseInv /\ EventInv /\ SnapshotInv /\ ConvergeInv

-----------------------------------------------------------------------------
(* A route, its legs and its spread. *)

\* The legs of a route are prices.
LEMMA Legs ==
    ASSUME NEW p \in [Exchanges \X Markets -> PriceState], NEW r \in Routes
    PROVE  /\ r[1] \in Exchanges /\ r[2] \in Exchanges
           /\ BuyLeg(p, r) \in PriceState /\ SellLeg(p, r) \in PriceState
           /\ BuyLeg(p, r).ask \in Nat /\ SellLeg(p, r).bid \in Nat
           /\ \E f \in Exchanges \X Markets : BuyLeg(p, r) = p[f]
<1>1. r[1] \in Exchanges /\ r[2] \in Exchanges
  BY DEF Routes
<1>2. \A e \in Exchanges : <<e, "SPOT">> \in Exchanges \X Markets /\ <<e, "FUTURES">> \in Exchanges \X Markets
  OBVIOUS
<1>3. BuyLeg(p, r) \in PriceState /\ SellLeg(p, r) \in PriceState /\ \E f \in Exchanges \X Markets : BuyLeg(p, r) = p[f]
  BY <1>1, <1>2 DEF BuyLeg, SellLeg
<1> QED
  BY <1>1, <1>3 DEF PriceState

\* The stored funding rates are numbers.
LEMMA RatesAreNumbers ==
    ASSUME TypeOK
    PROVE  \A e \in Exchanges : rates[e].rate \in Int
<1>1. TAKE e \in Exchanges
<1>2. rates[e] \in FundingRecord
  BY DEF TypeOK
<1>3. rates[e].rate \in FundingRates \cup {0}
  BY <1>2 DEF FundingRecord
<1>4. FundingRates \cup {0} \subseteq Int
  BY FundingAssumption DEF FundingAssumption
<1> QED
  BY <1>3, <1>4

\* The spread of a candidate is a number, and at least the funding threshold.
LEMMA CandidateSpread ==
    ASSUME TypeOK, NEW p \in [Exchanges \X Markets -> PriceState], NEW r \in Routes, NEW now \in Time,
           \A f \in Exchanges \X Markets : p[f].at # 0 => p[f].ask > 0, Candidate(p, r, now)
    PROVE  NetSpread(p, r) \in Int /\ NetSpread(p, r) >= minSpread
<1>1. r[1] \in Exchanges /\ r[2] \in Exchanges
  BY Legs
<1>2. BuyLeg(p, r).ask \in Nat /\ SellLeg(p, r).bid \in Nat
  BY Legs
<1>3. BuyLeg(p, r).at # 0
  BY DEF Candidate, Fresh
<1>4. BuyLeg(p, r).ask > 0
  BY <1>3, Legs
<1> DEFINE x == BuyLeg(p, r).ask
           y == SellLeg(p, r).bid
<1>5. x \in Nat /\ y \in Nat /\ x > 0
  BY <1>2, <1>4
<1>6. Scale \in Nat /\ Fee[r[1]] \in Nat /\ Fee[r[2]] \in Nat
  BY <1>1, AggregatorAssumption DEF AggregatorAssumption
<1>7. FeeAdjusted(p, r) = ((y - x) * Scale) \div x - Fee[r[1]] - Fee[r[2]]
  BY DEF FeeAdjusted
<1> HIDE DEF x, y
<1>8. (y - x) * Scale \in Int
  BY <1>5, <1>6
<1>9. ((y - x) * Scale) \div x \in Int
  BY <1>5, <1>8
<1>10. FeeAdjusted(p, r) \in Int
  BY <1>6, <1>7, <1>9
<1>11. \A e \in Exchanges : rates[e].rate \in Int
  BY RatesAreNumbers
<1>12. NetSpread(p, r) \in Int
  BY <1>1, <1>10, <1>11 DEF NetSpread, SpotFuturesNet, FuturesPairNet, CalcNetSpread
<1>13. NetSpread(p, r) >= minSpread
  BY DEF Candidate, FundingProfitable, NetSpread, SpotFuturesProfitable, FuturesPairProfitable
<1> QED
  BY <1>12, <1>13

-----------------------------------------------------------------------------
(* A tick. *)

\* What the lifecycle of a route is at a tick.
LEMMA LifecycleStep ==
    ASSUME NEW p, NEW keys, NEW r
    PROVE  /\ Lifecycle(p, keys, r) \in {"OPENED", "UPDATED", "CLOSED", "NONE"}
           /\ Lifecycle(p, keys, r) \in {"OPENED", "UPDATED"} => r \in keys
           /\ Lifecycle(p, keys, r) = "OPENED" => ~IsActive(r)
           /\ Lifecycle(p, keys, r) \in {"UPDATED", "CLOSED"} => IsActive(r)
           /\ Lifecycle(p, keys, r) = "NONE" /\ IsActive(r) => r \in keys
           /\ Lifecycle(p, keys, r) = "CLOSED" => r \notin keys \/ 2 * NetSpread(p, r) <= hardMin
           /\ Lifecycle(p, keys, r) = "UPDATED" => NetSpread(p, r) > active[r].peak
  BY DEF Lifecycle

\* What becomes of a route at a tick, by its lifecycle.
LEMMA ActiveAfterCases ==
    ASSUME NEW p, NEW keys, NEW now, NEW r \in Routes, active \in [Routes -> RouteState]
    PROVE  /\ Lifecycle(p, keys, r) \in {"OPENED", "UPDATED"} =>
                 ActiveAfter(p, keys, now)[r] = [peak |-> NetSpread(p, r), ts |-> now]
           /\ Lifecycle(p, keys, r) = "CLOSED" => ActiveAfter(p, keys, now)[r] = NoRoute
           /\ Lifecycle(p, keys, r) = "NONE" =>
                 ActiveAfter(p, keys, now)[r] = IF IsActive(r) THEN [peak |-> active[r].peak, ts |-> now] ELSE NoRoute
<1> DEFINE L == Lifecycle(p, keys, r)
<1>1. active[r] \in RouteState
  OBVIOUS
<1>2. [active[r] EXCEPT !.ts = now] = [peak |-> active[r].peak, ts |-> now]
  BY <1>1 DEF RouteState
<1>3. ActiveAfter(p, keys, now)[r] =
        CASE L \in {"OPENED", "UPDATED"} -> [peak |-> NetSpread(p, r), ts |-> now]
          [] L = "CLOSED" -> NoRoute
          [] L = "NONE" /\ IsActive(r) -> [peak |-> active[r].peak, ts |-> now]
          [] OTHER -> NoRoute
  BY <1>2 DEF ActiveAfter
<1> HIDE DEF L
<1> SUFFICES /\ L \in {"OPENED", "UPDATED"} => ActiveAfter(p, keys, now)[r] = [peak |-> NetSpread(p, r), ts |-> now]
             /\ L = "CLOSED" => ActiveAfter(p, keys, now)[r] = NoRoute
             /\ L = "NONE" => ActiveAfter(p, keys, now)[r] = IF IsActive(r) THEN [peak |-> active[r].peak, ts |-> now] ELSE NoRoute
  BY DEF L
<1> QED
  BY <1>3

\* A route that is active after a tick is one of its keys, and was observed by it.
LEMMA ActiveAfterStep ==
    ASSUME NEW p, NEW keys, NEW now, now # 0, NEW r \in Routes, active \in [Routes -> RouteState]
    PROVE  /\ ActiveAfter(p, keys, now)[r].ts # 0 => r \in keys /\ ActiveAfter(p, keys, now)[r].ts = now
           /\ IsActive(r) /\ ActiveAfter(p, keys, now)[r].ts = 0 => Lifecycle(p, keys, r) = "CLOSED"
           /\ ActiveAfter(p, keys, now)[r] \in
                {NoRoute, [peak |-> NetSpread(p, r), ts |-> now], [peak |-> active[r].peak, ts |-> now]}
<1>1. PICK L \in {"OPENED", "UPDATED", "CLOSED", "NONE"} : L = Lifecycle(p, keys, r)
  BY LifecycleStep
<1>2. PICK A : A = ActiveAfter(p, keys, now)[r]
  OBVIOUS
<1>3. /\ L \in {"OPENED", "UPDATED"} => r \in keys /\ A = [peak |-> NetSpread(p, r), ts |-> now]
      /\ L = "CLOSED" => A = NoRoute
      /\ L = "NONE" => A = IF IsActive(r) THEN [peak |-> active[r].peak, ts |-> now] ELSE NoRoute
      /\ L = "NONE" /\ IsActive(r) => r \in keys
  BY <1>1, <1>2, ActiveAfterCases, LifecycleStep
<1>4. NoRoute.ts = 0
  BY DEF NoRoute
<1>5. A \in {NoRoute, [peak |-> NetSpread(p, r), ts |-> now], [peak |-> active[r].peak, ts |-> now]}
  BY <1>1, <1>3
<1>6. (A.ts # 0 => r \in keys /\ A.ts = now) /\ (IsActive(r) /\ A.ts = 0 => L = "CLOSED")
  BY <1>1, <1>3, <1>4
<1> QED
  BY <1>1, <1>2, <1>5, <1>6

\* The prices after a tick are prices, and can still be divided by.
LEMMA PriceStoredStep ==
    ASSUME TypeOK, PriceInv, NEW f \in Feeds, NEW q \in Quotes, NEW at \in 1..clock, ValidTick(q)
    PROVE  /\ at \in Time /\ at # 0
           /\ PriceStored(f, q, at) \in [Exchanges \X Markets -> PriceState]
           /\ \A g \in Exchanges \X Markets : PriceStored(f, q, at)[g].at # 0 => PriceStored(f, q, at)[g].ask > 0
<1>1. at \in Time /\ at # 0
  BY FundingAssumption DEF TypeOK, Time, FundingAssumption
<1>2. q[1] \in Nat /\ q[2] \in Nat /\ q[2] > 0
  BY AggregatorAssumption DEF AggregatorAssumption, ValidTick
<1>3. f \in Exchanges \X Markets
  BY AggregatorAssumption DEF AggregatorAssumption
<1> DEFINE k == [bid |-> q[1], ask |-> q[2], at |-> at]
<1>4. k \in PriceState /\ k.ask > 0
  BY <1>1, <1>2 DEF PriceState
<1> HIDE DEF k
<1>5. PriceStored(f, q, at) = [prices EXCEPT ![f] = k]
  BY DEF PriceStored, k
<1>6. prices \in [Exchanges \X Markets -> PriceState]
  BY DEF TypeOK
<1> QED
  BY <1>1, <1>3, <1>4, <1>5, <1>6 DEF PriceInv

\* The events of a tick are events, with a spread that is not negative: the
\* tracker does not refuse one of them.
LEMMA TickEventsTyped ==
    ASSUME TypeOK, PriceInv, NEW f \in Feeds, NEW q \in Quotes, NEW at \in 1..clock, ValidTick(q)
    PROVE  /\ EventsOfTick(f, q, at) \in SUBSET Event
           /\ \A e \in EventsOfTick(f, q, at) : e.spread >= 0
<1> PICK p \in [Exchanges \X Markets -> PriceState] : p = PriceStored(f, q, at)
  BY PriceStoredStep
<1> DEFINE keys == CurrentKeys(p, f[1], at)
<1>1. at \in Time /\ \A g \in Exchanges \X Markets : p[g].at # 0 => p[g].ask > 0
  BY PriceStoredStep
<1>2. \A r \in keys : r \in Routes /\ Candidate(p, r, at)
  BY DEF CurrentKeys, Evaluated
<1>3. minSpread \in Nat
  BY LifecycleAssumption DEF TypeOK, LifecycleAssumption
<1>4. \A r \in keys : NetSpread(p, r) \in Int /\ NetSpread(p, r) >= 0
  <2> TAKE r \in keys
  <2>1. NetSpread(p, r) \in Int /\ NetSpread(p, r) >= minSpread
    BY <1>1, <1>2, CandidateSpread
  <2> QED
    BY <2>1, <1>3
<1> HIDE DEF keys
<1>5. SUFFICES ASSUME NEW e \in TickEvents(p, keys, at)
               PROVE  e \in Event /\ e.spread >= 0
  BY DEF EventsOfTick, keys
<1>6. PICK r \in Routes :
        /\ Lifecycle(p, keys, r) # "NONE"
        /\ e = [kind |-> Lifecycle(p, keys, r), route |-> r,
                spread |-> IF r \in keys THEN NetSpread(p, r) ELSE 0, ts |-> at]
  BY DEF TickEvents
<1>7. Lifecycle(p, keys, r) \in {"OPENED", "UPDATED", "CLOSED"}
  BY <1>6, LifecycleStep
<1> DEFINE s == IF r \in keys THEN NetSpread(p, r) ELSE 0
<1>8. s \in Int /\ s >= 0
  BY <1>4
<1>9. e = [kind |-> Lifecycle(p, keys, r), route |-> r, spread |-> s, ts |-> at]
  BY <1>6
<1> HIDE DEF s
<1> QED
  BY <1>1, <1>7, <1>8, <1>9 DEF Event

\* A tick keeps the types of the shard and the freshness of its active routes.
LEMMA TickStep ==
    ASSUME IInv, NEW f \in Feeds, NEW q \in Quotes, NEW at \in 1..clock, ProcessTick(f, q, at)
    PROVE  /\ prices' \in [Exchanges \X Markets -> PriceState]
           /\ active' \in [Routes -> RouteState]
           /\ lastNow' \in Time
           /\ PriceInv'
           /\ NoForgottenRoute'
<1>0. ValidTick(q) /\ TypeOK /\ PriceInv
  BY DEF IInv, ProcessTick
<1> PICK p \in [Exchanges \X Markets -> PriceState] : p = PriceStored(f, q, at)
  BY <1>0, PriceStoredStep
<1> PICK keys \in SUBSET Routes : keys = CurrentKeys(p, f[1], at)
  BY DEF CurrentKeys, Evaluated
<1>1. at \in Time /\ at # 0 /\ \A g \in Exchanges \X Markets : p[g].at # 0 => p[g].ask > 0
  BY <1>0, PriceStoredStep
<1>2. prices' = p /\ active' = ActiveAfter(p, keys, at) /\ lastNow' = at
  BY DEF ProcessTick
<1>3. active \in [Routes -> RouteState]
  BY <1>0 DEF TypeOK
<1>4. \A r \in keys : Candidate(p, r, at)
  BY DEF CurrentKeys
<1>5. ASSUME NEW r \in Routes
      PROVE  active'[r] \in RouteState /\ (active'[r].ts # 0 => r \in keys /\ active'[r].ts = at)
  <2>1. active'[r] \in {NoRoute, [peak |-> NetSpread(p, r), ts |-> at], [peak |-> active[r].peak, ts |-> at]}
    BY <1>1, <1>2, <1>3, ActiveAfterStep
  <2>2. active'[r].ts # 0 => r \in keys /\ active'[r].ts = at
    BY <1>1, <1>2, <1>3, ActiveAfterStep
  <2>3. NoRoute \in RouteState /\ NoRoute.ts = 0
    BY FundingAssumption DEF NoRoute, RouteState, Time, FundingAssumption
  <2>4. [peak |-> active[r].peak, ts |-> at] \in RouteState
    BY <1>1, <1>3 DEF RouteState
  <2>5. CASE active'[r].ts = 0
    <3>1. active'[r] = NoRoute
      BY <1>1, <2>1, <2>5
    <3> QED
      BY <2>3, <3>1
  <2>6. CASE active'[r].ts # 0
    <3>1. r \in keys /\ Candidate(p, r, at)
      BY <1>4, <2>2, <2>6
    <3>2. NetSpread(p, r) \in Int
      BY <1>0, <1>1, <3>1, CandidateSpread
    <3>3. [peak |-> NetSpread(p, r), ts |-> at] \in RouteState
      BY <1>1, <3>2 DEF RouteState
    <3> QED
      BY <2>1, <2>2, <2>3, <2>4, <3>3
  <2> QED
    BY <2>5, <2>6
<1>6. active' \in [Routes -> RouteState]
  <2>1. active' = [r \in Routes |-> active'[r]]
    BY <1>2 DEF ActiveAfter
  <2> QED
    BY <1>5, <2>1
<1>7. PriceInv'
  BY <1>1, <1>2 DEF PriceInv
<1>8. NoForgottenRoute'
  <2> SUFFICES ASSUME NEW r \in Routes, active'[r].ts # 0
               PROVE  /\ active'[r].ts = lastNow'
                      /\ \A leg \in {BuyLeg(prices', r), SellLeg(prices', r)} :
                            leg.at <= lastNow' /\ lastNow' - leg.at <= PriceTTL
    BY DEF NoForgottenRoute, IsActive
  <2>1. active'[r].ts = at /\ Candidate(p, r, at)
    BY <1>4, <1>5
  <2> QED
    BY <1>2, <2>1 DEF Candidate, Fresh
<1> QED
  BY <1>1, <1>2, <1>6, <1>7, <1>8

-----------------------------------------------------------------------------
(* Types, prices and fresh routes: one step per action. *)

\* The invariant holds at the start.
LEMMA InitHolds == Init => IInv
<1> SUFFICES ASSUME Init PROVE IInv
  OBVIOUS
<1>1. 0 \in Time /\ 1 \in 1..MaxTime
  BY FundingAssumption DEF Time, FundingAssumption
<1>2. NoPrice \in PriceState /\ NoRoute \in RouteState /\ NoSignal \in Signal
  BY <1>1 DEF NoPrice, PriceState, NoRoute, RouteState, NoSignal, Signal
<1>3. NoRecord \in FundingRecord
  BY <1>1 DEF NoRecord, FundingRecord
<1>4. [active |-> FALSE, peak |-> 0] \in Row
  BY DEF Row
<1>5. TypeOK
  <2>1. clock \in 1..MaxTime /\ minSpread \in HardMins \cup {InitialMin} /\ hardMin \in HardMins \cup {InitialMin}
    BY <1>1 DEF Init
  <2>2. rates \in [Exchanges -> FundingRecord] /\ health \in [Exchanges -> BOOLEAN]
    BY <1>3 DEF Init, FundingInit
  <2>3. prices \in [Exchanges \X Markets -> PriceState] /\ active \in [Routes -> RouteState]
    BY <1>2 DEF Init, AggregatorInit
  <2>4. eligible \subseteq Routes /\ lastNow \in Time
    BY <1>1 DEF Init, AggregatorInit
  <2>5. pend \in [Senders -> SUBSET Event] /\ trackerChan \in Seq(Event)
    BY DEF Init
  <2>6. Len(trackerChan) <= ChanCap
    BY LifecycleAssumption DEF Init, LifecycleAssumption
  <2>7. activeSignals \in [Routes -> Signal] /\ persisted \in [Routes -> Row]
    BY <1>2, <1>4 DEF Init
  <2>8. streamEvents \in 0..StreamEvents
    BY LifecycleAssumption DEF Init, LifecycleAssumption
  <2> QED
    BY <2>1, <2>2, <2>3, <2>4, <2>5, <2>6, <2>7, <2>8 DEF Init, TypeOK
<1>6. PriceInv
  BY DEF PriceInv, Init, AggregatorInit, NoPrice
<1>7. NoForgottenRoute
  BY DEF NoForgottenRoute, IsActive, Init, AggregatorInit, NoRoute
<1> QED
  BY <1>5, <1>6, <1>7 DEF IInv

\* What the properties of the shard depend on.
LEMMA ShardFrame ==
    ASSUME IInv, UNCHANGED shardVars
    PROVE  PriceInv' /\ NoForgottenRoute'
<1>1. PriceInv'
  BY DEF IInv, PriceInv
<1>2. NoForgottenRoute'
  BY DEF IInv, NoForgottenRoute, IsActive, BuyLeg, SellLeg, Intra
<1> QED
  BY <1>1, <1>2

\* The clock stays within its bound.
LEMMA AdvanceStep == ASSUME IInv, Advance PROVE IInv'
<1>1. clock' \in 1..MaxTime
  BY FundingAssumption DEF IInv, TypeOK, Advance, FundingAssumption
<1>2. UNCHANGED <<fundingVars, aggregatorVars, pend, trackerChan, trackerVars,
                  jpc, command, phase, flushTimedOut, streamEvents, ignored>>
  BY DEF Advance
<1>3. TypeOK'
  BY <1>1, <1>2 DEF IInv, TypeOK
<1>4. UNCHANGED shardVars
  BY <1>2
<1> QED
  BY <1>3, <1>4, ShardFrame DEF IInv

\* The streams change funding records and nothing else.
LEMMA StreamStep ==
    ASSUME IInv, NEW e \in Exchanges, FundingArrives(e) \/ FundingStreamEnds(e)
    PROVE  IInv'
<1>1. StreamFrame
  BY DEF FundingArrives, FundingStreamEnds
<1>2. rates' \in [Exchanges -> FundingRecord] /\ health' \in [Exchanges -> BOOLEAN] /\ minSpread' = minSpread
  <2>1. CASE FundingArrives(e)
    <3>1. PICK rate \in FundingRates, known \in BOOLEAN, event \in EventTimes :
            UpdateFunding(e, rate, known, event)
      BY <2>1 DEF FundingArrives
    <3> DEFINE k == [rate |-> rate, nextKnown |-> known, event |-> event, at |-> clock]
    <3>2. clock \in Time /\ event \in Time
      BY FundingAssumption, LifecycleAssumption DEF IInv, TypeOK, Time, FundingAssumption, LifecycleAssumption
    <3>3. k \in FundingRecord
      BY <3>2 DEF FundingRecord
    <3> HIDE DEF k
    <3>4. rates' = [rates EXCEPT ![e] = k] /\ health' = [health EXCEPT ![e] = TRUE] /\ minSpread' = minSpread
      BY <3>1 DEF UpdateFunding, k
    <3> QED
      BY <3>3, <3>4 DEF IInv, TypeOK
  <2>2. CASE FundingStreamEnds(e)
    BY <2>2 DEF FundingStreamEnds, StreamLost, IInv, TypeOK
  <2> QED
    BY <2>1, <2>2
<1>3. streamEvents' \in 0..StreamEvents
  BY <1>1, LifecycleAssumption DEF IInv, TypeOK, StreamFrame, LifecycleAssumption
<1>4. TypeOK'
  BY <1>1, <1>2, <1>3 DEF IInv, TypeOK, StreamFrame
<1>5. UNCHANGED shardVars
  BY <1>1 DEF StreamFrame
<1> QED
  BY <1>4, <1>5, ShardFrame DEF IInv

\* The operator changes thresholds and filters.
LEMMA OperatorStep ==
    ASSUME IInv,
           \/ \E v \in HardMins : HardSpreadCommand(v)
           \/ HardSpreadApplied
           \/ \E routes \in FilterSets : FiltersStep(routes)
    PROVE  IInv'
<1>1. CASE \E v \in HardMins : HardSpreadCommand(v)
  <2>1. PICK v \in HardMins : HardSpreadCommand(v)
    BY <1>1
  <2>2. TypeOK' /\ UNCHANGED shardVars
    BY <2>1 DEF IInv, TypeOK, HardSpreadCommand, UpdateConfig
  <2> QED
    BY <2>2, ShardFrame DEF IInv
<1>2. CASE HardSpreadApplied
  <2>1. command \in HardMins
    BY <1>2 DEF HardSpreadApplied, IInv, TypeOK
  <2>2. TypeOK' /\ UNCHANGED shardVars
    BY <1>2, <2>1 DEF IInv, TypeOK, HardSpreadApplied, SetHardMinSpread
  <2> QED
    BY <2>2, ShardFrame DEF IInv
<1>3. CASE \E routes \in FilterSets : FiltersStep(routes)
  <2>1. PICK routes \in FilterSets : FiltersStep(routes)
    BY <1>3
  <2>2. routes \subseteq Routes
    BY LifecycleAssumption DEF LifecycleAssumption
  <2>3. TypeOK' /\ UNCHANGED shardVars
    BY <2>1, <2>2 DEF IInv, TypeOK, FiltersStep, FiltersChange
  <2> QED
    BY <2>3, ShardFrame DEF IInv
<1> QED
  BY <1>1, <1>2, <1>3

\* The worker.
LEMMA WorkerStep ==
    ASSUME IInv, NEW f \in Feeds, NEW q \in Quotes, NEW at \in 1..clock, WorkerTick(f, q, at)
    PROVE  IInv'
<1>1. ProcessTick(f, q, at) /\ ValidTick(q) /\ TypeOK /\ PriceInv
  BY DEF WorkerTick, ProcessTick, IInv
<1>2. /\ prices' \in [Exchanges \X Markets -> PriceState]
      /\ active' \in [Routes -> RouteState]
      /\ lastNow' \in Time
      /\ PriceInv' /\ NoForgottenRoute'
  BY <1>1, TickStep
<1>3. PICK k \in SUBSET Event : k = EventsOfTick(f, q, at)
  BY <1>1, TickEventsTyped
<1>4. pend' = [pend EXCEPT !["worker"] = k]
  BY <1>3 DEF WorkerTick
<1>5. pend' \in [Senders -> SUBSET Event]
  BY <1>1, <1>4 DEF TypeOK, Senders
<1>6. UNCHANGED <<eligible, hardMin, clock, fundingVars, trackerChan, trackerVars,
                  jpc, command, phase, flushTimedOut, streamEvents, ignored>>
  BY <1>1 DEF WorkerTick, ProcessTick
<1>7. TypeOK'
  BY <1>1, <1>2, <1>5, <1>6 DEF TypeOK
<1> QED
  BY <1>2, <1>7 DEF IInv

\* The janitor's first half evicts funding records.
LEMMA EvictStep == ASSUME IInv, JanitorEvicts PROVE IInv'
<1>1. NoRecord \in FundingRecord
  BY FundingAssumption DEF NoRecord, FundingRecord, Time, FundingAssumption
<1>2. rates' \in [Exchanges -> FundingRecord]
  BY <1>1 DEF IInv, TypeOK, JanitorEvicts, EvictStale
<1>3. TypeOK' /\ UNCHANGED shardVars
  BY <1>2 DEF IInv, TypeOK, JanitorEvicts, EvictStale
<1> QED
  BY <1>3, ShardFrame DEF IInv

\* The CLOSED events of the janitor and of the flush are events.
LEMMA CloseEventTyped ==
    ASSUME TypeOK, NEW r \in Routes
    PROVE  CloseEvent(r) \in Event /\ Sound(CloseEvent(r)) /\ CloseEvent(r).route = r /\ CloseEvent(r).kind = "CLOSED"
<1>1. clock \in Time /\ clock # 0
  BY FundingAssumption DEF TypeOK, Time, FundingAssumption
<1> QED
  BY <1>1 DEF CloseEvent, Event, Sound

\* The janitor's second half evicts prices and closes stale routes.
LEMMA SweepStep == ASSUME IInv, JanitorSweeps PROVE IInv'
<1>0. TypeOK /\ PriceInv /\ NoForgottenRoute
  BY DEF IInv
<1>1. /\ prices' = [f \in DOMAIN prices |->
                      IF prices[f].at < clock - EvictFactor * PriceTTL THEN NoPrice ELSE prices[f]]
      /\ active' = [r \in Routes |-> IF r \in StaleRoutes THEN NoRoute ELSE active[r]]
  BY DEF JanitorSweeps, Janitor
<1>2. NoPrice \in PriceState /\ NoRoute \in RouteState /\ NoPrice.at = 0 /\ NoRoute.ts = 0
  BY FundingAssumption DEF NoPrice, PriceState, NoRoute, RouteState, Time, FundingAssumption
<1>3. prices' \in [Exchanges \X Markets -> PriceState] /\ \A f \in Exchanges \X Markets : prices'[f] \in {NoPrice, prices[f]}
  BY <1>0, <1>1, <1>2 DEF TypeOK
<1>4. active' \in [Routes -> RouteState] /\ \A r \in Routes : active'[r] \in {NoRoute, active[r]}
  BY <1>0, <1>1, <1>2 DEF TypeOK
<1>5. JanitorEvents \in SUBSET Event
  BY <1>0, CloseEventTyped DEF JanitorEvents, StaleRoutes
<1>6. PICK k \in SUBSET Event : k = JanitorEvents
  BY <1>5
<1>7. pend' = [pend EXCEPT !["janitor"] = k]
  BY <1>6 DEF JanitorSweeps
<1>8. pend' \in [Senders -> SUBSET Event]
  BY <1>0, <1>7 DEF TypeOK, Senders
<1>9. UNCHANGED <<eligible, hardMin, lastNow, clock, fundingVars, trackerChan, trackerVars,
                  command, phase, flushTimedOut, streamEvents, ignored>> /\ jpc' = "wait"
  BY DEF JanitorSweeps, Janitor
<1>10. TypeOK'
  BY <1>0, <1>3, <1>4, <1>8, <1>9 DEF TypeOK
<1>11. PriceInv'
  BY <1>0, <1>2, <1>3 DEF PriceInv
<1>12. NoForgottenRoute'
  <2> SUFFICES ASSUME NEW r \in Routes, active'[r].ts # 0
               PROVE  /\ active'[r].ts = lastNow
                      /\ \A leg \in {BuyLeg(prices', r), SellLeg(prices', r)} :
                            leg = NoPrice \/ (leg.at <= lastNow /\ lastNow - leg.at <= PriceTTL)
    BY <1>9 DEF NoForgottenRoute, IsActive
  <2>1. active'[r] = active[r] /\ IsActive(r)
    BY <1>2, <1>4 DEF IsActive
  <2>2. <<r[1], "SPOT">> \in Exchanges \X Markets /\ <<r[1], "FUTURES">> \in Exchanges \X Markets
        /\ <<r[2], "FUTURES">> \in Exchanges \X Markets
    BY DEF Routes
  <2>3. BuyLeg(prices', r) \in {NoPrice, BuyLeg(prices, r)} /\ SellLeg(prices', r) \in {NoPrice, SellLeg(prices, r)}
    BY <1>3, <2>2 DEF BuyLeg, SellLeg
  <2> QED
    BY <1>0, <2>1, <2>3 DEF NoForgottenRoute
<1> QED
  BY <1>10, <1>11, <1>12 DEF IInv

\* A sender moves one of its events into the channel.
LEMMA SendStep == ASSUME IInv, NEW sender \in Senders, SendEvent(sender) PROVE IInv'
<1>1. PICK e \in pend[sender] : trackerChan' = Append(trackerChan, e) /\ pend' = [pend EXCEPT ![sender] = @ \ {e}]
  BY DEF SendEvent
<1>2. e \in Event
  BY DEF IInv, TypeOK
<1>3. trackerChan' \in Seq(Event) /\ Len(trackerChan') <= ChanCap
  <2>1. trackerChan \in Seq(Event) /\ Len(trackerChan) < ChanCap
    BY DEF IInv, TypeOK, SendEvent
  <2>2. Len(trackerChan') = Len(trackerChan) + 1 /\ trackerChan' \in Seq(Event)
    BY <1>1, <1>2, <2>1
  <2> QED
    BY <2>1, <2>2, LifecycleAssumption DEF LifecycleAssumption
<1>4. pend' \in [Senders -> SUBSET Event]
  BY <1>1 DEF IInv, TypeOK
<1>5. UNCHANGED <<clock, fundingVars, aggregatorVars, trackerVars,
                  jpc, command, phase, flushTimedOut, streamEvents, ignored>>
  BY DEF SendEvent
<1>6. TypeOK'
  BY <1>3, <1>4, <1>5 DEF IInv, TypeOK
<1>7. UNCHANGED shardVars
  BY <1>5
<1> QED
  BY <1>6, <1>7, ShardFrame DEF IInv

\* What the tracker does with the event at the head of the channel: it opens,
\* raises or closes the signal of the route, and writes the same to the row.
Tracked(e) ==
    \/ /\ e.kind = "OPENED" /\ ~HasSignal(e.route)
       /\ activeSignals' = [activeSignals EXCEPT ![e.route] = [openedAt |-> e.ts, peak |-> e.spread]]
       /\ persisted' = [persisted EXCEPT ![e.route] = [active |-> TRUE, peak |-> e.spread]]
    \/ /\ e.kind = "UPDATED" /\ Applies(e) /\ e.spread > activeSignals[e.route].peak
       /\ activeSignals' = [activeSignals EXCEPT ![e.route] =
                               [openedAt |-> activeSignals[e.route].openedAt, peak |-> e.spread]]
       /\ persisted' = [persisted EXCEPT ![e.route] = [active |-> persisted[e.route].active, peak |-> e.spread]]
    \/ /\ e.kind = "CLOSED" /\ Applies(e)
       /\ activeSignals' = [activeSignals EXCEPT ![e.route] = NoSignal]
       /\ persisted' = [persisted EXCEPT ![e.route] =
                           [active |-> FALSE, peak |-> Larger(e.spread, activeSignals[e.route].peak)]]
    \/ UNCHANGED trackerVars /\ (Ignored(e) \/ e.spread < 0)
    \/ UNCHANGED trackerVars /\ e.kind = "UPDATED" /\ Applies(e) /\ e.spread <= activeSignals[e.route].peak

\* Those are the cases of HandleEvent.
LEMMA HandleCases ==
    ASSUME TypeOK, HandleEvent
    PROVE  /\ Head(trackerChan) \in Event
           /\ Tracked(Head(trackerChan))
           /\ trackerChan' = Tail(trackerChan)
<1>1. trackerChan \in Seq(Event) /\ trackerChan # <<>>
  BY DEF TypeOK, HandleEvent
<1>2. PICK e \in Event : e = Head(trackerChan)
  BY <1>1
<1>3. e.kind \in {"OPENED", "UPDATED", "CLOSED"} /\ e.route \in Routes /\ e.spread \in Int /\ e.ts \in Time
  BY <1>2 DEF Event
<1>4. activeSignals[e.route] \in Signal /\ persisted[e.route] \in Row
  BY <1>3 DEF TypeOK
<1>5. activeSignals[e.route].peak \in Int
  BY <1>4 DEF Signal
<1>body. (CASE e.spread < 0       -> UNCHANGED trackerVars
         [] e.spread >= 0 /\ e.kind = "OPENED"  -> OnOpened(e)
         [] e.spread >= 0 /\ e.kind = "UPDATED" -> OnUpdated(e)
         [] e.spread >= 0 /\ e.kind = "CLOSED"  -> OnClosed(e))
  BY <1>2 DEF HandleEvent
<1>tail. trackerChan' = Tail(trackerChan)
  BY DEF HandleEvent
<1>sign. e.spread < 0 <=> ~(e.spread >= 0)
  BY <1>3
<1>6. CASE e.spread < 0
  <2>1. UNCHANGED trackerVars
    BY <1>body, <1>sign, <1>6
  <2> QED
    BY <1>2, <1>tail, <1>6, <2>1 DEF Tracked
<1>7. CASE e.spread >= 0 /\ e.kind = "OPENED"
  <2>1. OnOpened(e)
    BY <1>body, <1>sign, <1>7
  <2> QED
    BY <1>2, <1>tail, <1>7, <2>1 DEF OnOpened, Tracked, Ignored
<1>8. CASE e.spread >= 0 /\ e.kind = "UPDATED"
  <2>1. OnUpdated(e)
    BY <1>body, <1>sign, <1>8
  <2>2. CASE Applies(e) /\ e.spread > activeSignals[e.route].peak
    <3>1. activeSignals' = [activeSignals EXCEPT ![e.route].peak = e.spread]
          /\ persisted' = [persisted EXCEPT ![e.route].peak = e.spread]
      BY <2>1, <2>2 DEF OnUpdated
    <3>2. [activeSignals[e.route] EXCEPT !.peak = e.spread] = [openedAt |-> activeSignals[e.route].openedAt, peak |-> e.spread]
      BY <1>4 DEF Signal
    <3>3. [persisted[e.route] EXCEPT !.peak = e.spread] = [active |-> persisted[e.route].active, peak |-> e.spread]
      BY <1>4 DEF Row
    <3>4. activeSignals' = [activeSignals EXCEPT ![e.route] = [activeSignals[e.route] EXCEPT !.peak = e.spread]]
          /\ persisted' = [persisted EXCEPT ![e.route] = [persisted[e.route] EXCEPT !.peak = e.spread]]
      BY <3>1
    <3> QED
      BY <1>2, <1>tail, <1>8, <2>2, <3>2, <3>3, <3>4 DEF Tracked
  <2>3. CASE ~(Applies(e) /\ e.spread > activeSignals[e.route].peak)
    <3>1. UNCHANGED trackerVars
      BY <2>1, <2>3 DEF OnUpdated
    <3>2. ~Applies(e) => Ignored(e)
      BY <1>8 DEF Ignored
    <3>3. Applies(e) => e.spread <= activeSignals[e.route].peak
      BY <1>3, <1>5, <2>3
    <3> QED
      BY <1>2, <1>tail, <1>8, <3>1, <3>2, <3>3 DEF Tracked
  <2> QED
    BY <2>2, <2>3
<1>9. CASE e.spread >= 0 /\ e.kind = "CLOSED"
  <2>1. OnClosed(e)
    BY <1>body, <1>sign, <1>9
  <2> QED
    BY <1>2, <1>tail, <1>9, <2>1 DEF OnClosed, Tracked, Ignored
<1> QED
  BY <1>3, <1>6, <1>7, <1>8, <1>9

\* The tracker takes an event.
LEMMA HandleStep == ASSUME IInv, HandleEvent PROVE IInv'
<1>0. TypeOK
  BY DEF IInv
<1>1. PICK e \in Event : e = Head(trackerChan)
  BY <1>0, HandleCases
<1>2. Tracked(e) /\ trackerChan' = Tail(trackerChan)
  BY <1>0, <1>1, HandleCases
<1>3. e.route \in Routes /\ e.spread \in Int /\ e.ts \in Time
  BY <1>1 DEF Event
<1>4. activeSignals[e.route] \in Signal /\ persisted[e.route] \in Row
  BY <1>0, <1>3 DEF TypeOK
<1>5. activeSignals[e.route].peak \in Int /\ activeSignals[e.route].openedAt \in Time /\ persisted[e.route].active \in BOOLEAN
  BY <1>4 DEF Signal, Row
<1>6. Larger(e.spread, activeSignals[e.route].peak) \in Int
  BY <1>3, <1>5 DEF Larger
<1>7. activeSignals' \in [Routes -> Signal]
  <2>1. /\ [openedAt |-> e.ts, peak |-> e.spread] \in Signal
        /\ [openedAt |-> activeSignals[e.route].openedAt, peak |-> e.spread] \in Signal
        /\ NoSignal \in Signal
    BY <1>3, <1>5, FundingAssumption DEF Signal, NoSignal, Time, FundingAssumption
  <2> QED
    BY <1>0, <1>2, <1>3, <2>1 DEF Tracked, TypeOK
<1>8. persisted' \in [Routes -> Row]
  <2>1. [active |-> TRUE, peak |-> e.spread] \in Row
    BY <1>3 DEF Row
  <2>2. [active |-> persisted[e.route].active, peak |-> e.spread] \in Row
    BY <1>3, <1>5 DEF Row
  <2>3. [active |-> FALSE, peak |-> Larger(e.spread, activeSignals[e.route].peak)] \in Row
    BY <1>6 DEF Row
  <2> QED
    BY <1>0, <1>2, <1>3, <2>1, <2>2, <2>3 DEF Tracked, TypeOK
<1>9. trackerChan' \in Seq(Event) /\ Len(trackerChan') <= ChanCap
  <2>1. trackerChan \in Seq(Event) /\ Len(trackerChan) <= ChanCap /\ trackerChan # <<>>
    BY <1>0 DEF TypeOK, HandleEvent
  <2>2. trackerChan' \in Seq(Event) /\ Len(trackerChan') = Len(trackerChan) - 1
    BY <1>2, <2>1
  <2> QED
    BY <2>1, <2>2, LifecycleAssumption DEF LifecycleAssumption
<1>10. ignored' \subseteq Routes
  <2>1. ignored' \subseteq ignored \cup {e.route}
    BY <1>1 DEF HandleEvent
  <2> QED
    BY <1>0, <1>3, <2>1 DEF TypeOK
<1>11. UNCHANGED <<clock, fundingVars, aggregatorVars, pend, jpc, command, phase, flushTimedOut, streamEvents>>
  BY DEF HandleEvent
<1>12. TypeOK'
  BY <1>0, <1>7, <1>8, <1>9, <1>10, <1>11 DEF TypeOK
<1>13. UNCHANGED shardVars
  BY <1>11
<1> QED
  BY <1>12, <1>13, ShardFrame DEF IInv

\* Cleanup, but for its flush, changes the phase and drops events.
LEMMA CleanupStep ==
    ASSUME IInv, CloseJanitor \/ StopWorkers \/ FlushTimeout \/ CloseTrackerChan \/ TrackerDone
    PROVE  IInv'
<1>1. UNCHANGED <<clock, fundingVars, aggregatorVars, trackerChan, trackerVars, jpc, command, streamEvents, ignored>>
  BY DEF CloseJanitor, StopWorkers, FlushTimeout, CloseTrackerChan, TrackerDone, CleanupFrame
<1>2. phase' \in {"run", "janitorStop", "workersStop", "flush", "drain", "done"}
  BY DEF CloseJanitor, StopWorkers, FlushTimeout, CloseTrackerChan, TrackerDone, IInv, TypeOK
<1>3. flushTimedOut' \in BOOLEAN
  BY DEF CloseJanitor, StopWorkers, FlushTimeout, CloseTrackerChan, TrackerDone, IInv, TypeOK
<1>4. pend' \in [Senders -> SUBSET Event]
  <2>1. pend' = pend \/ pend' = [pend EXCEPT !["main"] = {}]
    BY DEF CloseJanitor, StopWorkers, FlushTimeout, CloseTrackerChan, TrackerDone
  <2> QED
    BY <2>1 DEF IInv, TypeOK
<1>5. TypeOK'
  BY <1>1, <1>2, <1>3, <1>4 DEF IInv, TypeOK
<1>6. UNCHANGED shardVars
  BY <1>1
<1> QED
  BY <1>5, <1>6, ShardFrame DEF IInv

\* The flush closes what is still open.
LEMMA FlushStep == ASSUME IInv, FlushRoutes PROVE IInv'
<1>0. TypeOK /\ PriceInv
  BY DEF IInv
<1>1. NoRoute \in RouteState /\ NoRoute.ts = 0
  BY FundingAssumption DEF NoRoute, RouteState, Time, FundingAssumption
<1>2. active' = [r \in Routes |-> NoRoute] /\ UNCHANGED <<prices, eligible, hardMin, lastNow>>
  BY DEF FlushRoutes, FlushActive
<1>3. FlushEvents \in SUBSET Event
  BY <1>0, CloseEventTyped DEF FlushEvents
<1>4. PICK k \in SUBSET Event : k = FlushEvents
  BY <1>3
<1>5. pend' = [pend EXCEPT !["main"] = k]
  BY <1>4 DEF FlushRoutes
<1>6. pend' \in [Senders -> SUBSET Event]
  BY <1>0, <1>5 DEF TypeOK
<1>7. active' \in [Routes -> RouteState]
  BY <1>1, <1>2
<1>8. UNCHANGED <<clock, fundingVars, trackerChan, trackerVars, jpc, command, flushTimedOut, streamEvents, ignored>> /\ phase' = "flush"
  BY DEF FlushRoutes, CleanupFrame
<1>9. TypeOK'
  BY <1>0, <1>2, <1>6, <1>7, <1>8 DEF TypeOK
<1>10. PriceInv' /\ NoForgottenRoute'
  BY <1>0, <1>1, <1>2 DEF PriceInv, NoForgottenRoute, IsActive
<1> QED
  BY <1>9, <1>10 DEF IInv

\* Nothing happens.
LEMMA StutterStep == ASSUME IInv, UNCHANGED vars PROVE IInv'
<1>1. TypeOK' /\ UNCHANGED shardVars
  BY DEF IInv, TypeOK, vars
<1> QED
  BY <1>1, ShardFrame DEF IInv

\* Every step keeps the invariant.
LEMMA NextStep == IInv /\ [Next]_vars => IInv'
<1> SUFFICES ASSUME IInv, [Next]_vars PROVE IInv'
  OBVIOUS
<1>1. CASE TickArrives
  BY <1>1, WorkerStep DEF TickArrives
<1>2. CASE Cleanup \/ CloseJanitor \/ FlushTimeout
  BY <1>2, CleanupStep, FlushStep DEF Cleanup
<1>3. CASE UNCHANGED vars
  BY <1>3, StutterStep
<1> QED
  BY <1>1, <1>2, <1>3, AdvanceStep, StreamStep, OperatorStep, EvictStep, SweepStep, SendStep, HandleStep
     DEF Next, Terminated

\* Types, prices and fresh routes in every reachable state.
LEMMA Inductive == Spec => []IInv
  BY InitHolds, NextStep, PTL DEF Spec

\* Every reachable state is type correct: the channel to the tracker respects its
\* capacity, no spread is the quotient of a missing price, and peaks, rows and
\* events are what ProcessTick, Janitor, FlushActive and HandleEvent make them.
THEOREM TypeCorrect == Spec => []TypeOK
<1>1. IInv => TypeOK
  BY DEF IInv
<1> QED
  BY <1>1, Inductive, PTL

\* No tick leaves an active route behind with a leg that is stale or from the
\* future (the close loop of ProcessTick), and neither the janitor's evictions
\* nor ticks that arrive late make one.
THEOREM NoRouteIsForgotten == Spec => []NoForgottenRoute
<1>1. IInv => NoForgottenRoute
  BY DEF IInv
<1> QED
  BY <1>1, Inductive, PTL

-----------------------------------------------------------------------------
(* Action properties of a tick. *)

\* A candidate has known funding.
LEMMA CandidateFunding ==
    ASSUME NEW p, NEW r \in Routes, NEW now, Candidate(p, r, now), TypeOK, now \in Time
    PROVE  /\ FundingKnown(r[2], now)
           /\ ~Intra(r) => FundingKnown(r[1], now)
<1>1. ValidRecord(r[2], now) /\ (~Intra(r) => ValidRecord(r[1], now))
  BY DEF Candidate, FundingProfitable, SpotFuturesProfitable, FuturesPairProfitable, Intra
<1>2. r[1] \in Exchanges /\ r[2] \in Exchanges
  BY DEF Routes
<1>3. \A e \in Exchanges : rates[e].at \in Int
  BY DEF TypeOK, FundingRecord, Time
<1>4. FundingMaxAge \in Int /\ now \in Int
  BY FundingAssumption DEF FundingAssumption, Time
<1> QED
  BY <1>1, <1>2, <1>3, <1>4 DEF ValidRecord, IsStale, FundingKnown

\* Funding is fail-closed: after a tick no route is active without a complete,
\* recent record of a live stream for each leg that pays funding, and that holds
\* for routes that were open before the record expired or the stream was lost.
THEOREM FundingIsFailClosed == Spec => FundingFailClosed
<1> DEFINE Closed == \A r \in Routes : active'[r].ts # 0 =>
                        /\ FundingKnown(r[2], lastNow')
                        /\ ~Intra(r) => FundingKnown(r[1], lastNow')
<1>1. ASSUME IInv, [Next]_vars PROVE [Closed \/ ~TickArrives]_vars
  <2> SUFFICES ASSUME TickArrives PROVE Closed
    OBVIOUS
  <2>1. PICK f \in Feeds, q \in Quotes, at \in 1..clock : WorkerTick(f, q, at)
    BY DEF TickArrives
  <2>2. ProcessTick(f, q, at) /\ ValidTick(q) /\ TypeOK /\ PriceInv
    BY <1>1, <2>1 DEF WorkerTick, ProcessTick, IInv
  <2>3. PICK p \in [Exchanges \X Markets -> PriceState] : p = PriceStored(f, q, at)
    BY <2>2, PriceStoredStep
  <2>4. PICK keys : keys = CurrentKeys(p, f[1], at)
    OBVIOUS
  <2>5. active' = ActiveAfter(p, keys, at) /\ lastNow' = at
    BY <2>2, <2>3, <2>4 DEF ProcessTick
  <2>6. at \in Time /\ at # 0 /\ active \in [Routes -> RouteState]
    BY <2>2, PriceStoredStep DEF TypeOK
  <2> SUFFICES ASSUME NEW r \in Routes, active'[r].ts # 0
               PROVE  /\ FundingKnown(r[2], lastNow')
                      /\ ~Intra(r) => FundingKnown(r[1], lastNow')
    OBVIOUS
  <2>7. r \in keys
    BY <2>5, <2>6, ActiveAfterStep
  <2>8. Candidate(p, r, at)
    BY <2>4, <2>7 DEF CurrentKeys
  <2> QED
    BY <2>2, <2>5, <2>6, <2>8, CandidateFunding
<1> QED
  BY <1>1, InitHolds, NextStep, PTL DEF Spec, FundingFailClosed

-----------------------------------------------------------------------------
(* One route on its way from the aggregator to the tracker. *)

\* An event of r that has no effect leaves the signal lost, any other one does
\* what the tracker does.
LEMMA AfterCases ==
    ASSUME NEW r \in Routes, NEW s \in Signal, NEW e \in Event, Sound(e)
    PROVE  /\ After(r, s, e) \in Signal
           /\ e.route # r \/ s = Lost => After(r, s, e) = s
           /\ e.route = r /\ s # Lost /\ e.kind = "OPENED" =>
                 After(r, s, e) = IF s.openedAt = 0 THEN [openedAt |-> e.ts, peak |-> e.spread] ELSE Lost
           /\ e.route = r /\ s # Lost /\ e.kind = "UPDATED" =>
                 After(r, s, e) = IF s.openedAt # 0 /\ e.ts >= s.openedAt
                                  THEN [openedAt |-> s.openedAt, peak |-> Larger(e.spread, s.peak)] ELSE Lost
           /\ e.route = r /\ s # Lost /\ e.kind = "CLOSED" =>
                 After(r, s, e) = IF s.openedAt # 0 /\ e.ts >= s.openedAt THEN NoSignal ELSE Lost
<1>1. e.kind \in {"OPENED", "UPDATED", "CLOSED"} /\ e.ts \in Time /\ e.spread \in Int
  BY DEF Event
<1>2. s.openedAt \in Time /\ s.peak \in Int
  BY DEF Signal
<1>3. NoSignal \in Signal /\ Lost \in Signal
  BY FundingAssumption DEF Signal, NoSignal, Lost, Time, FundingAssumption
<1>4. [openedAt |-> e.ts, peak |-> e.spread] \in Signal
  BY <1>1 DEF Signal
<1>5. [openedAt |-> s.openedAt, peak |-> Larger(e.spread, s.peak)] \in Signal
  BY <1>1, <1>2 DEF Signal, Larger
<1>6. CASE e.route # r \/ s = Lost
  <2>1. After(r, s, e) = s
    BY <1>6 DEF After
  <2> QED
    BY <1>6, <2>1
<1>7. CASE e.route = r /\ s # Lost /\ e.kind = "OPENED"
  <2>1. After(r, s, e) = IF s.openedAt = 0 THEN [openedAt |-> e.ts, peak |-> e.spread] ELSE Lost
    BY <1>7 DEF After
  <2> QED
    BY <1>3, <1>4, <1>7, <2>1
<1>8. CASE e.route = r /\ s # Lost /\ e.kind = "UPDATED"
  <2>1. After(r, s, e) = IF s.openedAt # 0 /\ e.ts >= s.openedAt
                         THEN [openedAt |-> s.openedAt, peak |-> Larger(e.spread, s.peak)] ELSE Lost
    BY <1>8 DEF After
  <2> QED
    BY <1>3, <1>5, <1>8, <2>1
<1>9. CASE e.route = r /\ s # Lost /\ e.kind = "CLOSED"
  <2>1. After(r, s, e) = IF s.openedAt # 0 /\ e.ts >= s.openedAt THEN NoSignal ELSE Lost
    BY <1>9 DEF After
  <2> QED
    BY <1>3, <1>9, <2>1
<1> QED
  BY <1>1, <1>6, <1>7, <1>8, <1>9

\* The events of a sender: sound, and at most one for a route.
Outbox(set) == \A e \in set : e \in Event /\ Sound(e) /\ \A x \in set : x.route = e.route => x = e

\* What a sender will do to the signal of a route.
LEMMA SentCases ==
    ASSUME NEW r \in Routes, NEW s \in Signal, NEW set, Outbox(set)
    PROVE  /\ Sent(set, r, s) \in Signal
           /\ ~Holds(set, r) => Sent(set, r, s) = s
           /\ \A e \in set : e.route = r => Holds(set, r) /\ Sent(set, r, s) = After(r, s, e)
           /\ s = Lost => Sent(set, r, s) = Lost
<1>1. CASE ~Holds(set, r)
  <2>1. Sent(set, r, s) = s
    BY <1>1 DEF Sent
  <2> QED
    BY <1>1, <2>1 DEF Holds
<1>2. CASE Holds(set, r)
  <2>1. PICK e \in set : e.route = r
    BY <1>2 DEF Holds
  <2>2. (CHOOSE x \in set : x.route = r) = e
    <3>1. \A x \in set : x.route = r => x = e
      BY <2>1 DEF Outbox
    <3> QED
      BY <2>1, <3>1
  <2>3. Sent(set, r, s) = After(r, s, e)
    BY <1>2, <2>2 DEF Sent
  <2>4. e \in Event /\ Sound(e)
    BY <2>1 DEF Outbox
  <2>5. After(r, s, e) \in Signal /\ (s = Lost => After(r, s, e) = Lost)
    BY <2>4, AfterCases
  <2>6. \A x \in set : x.route = r => x = e
    BY <2>1 DEF Outbox
  <2> QED
    BY <1>2, <2>3, <2>5, <2>6
<1> QED
  BY <1>1, <1>2

\* An outbox of CLOSED events closes a signal that is open, and is lost on any other.
LEMMA Closing ==
    ASSUME NEW r \in Routes, NEW s \in Signal, NEW set, Outbox(set), \A e \in set : e.kind = "CLOSED", Holds(set, r)
    PROVE  /\ Sent(set, r, s) \in {NoSignal, Lost}
           /\ s.openedAt = 0 => Sent(set, r, s) = Lost
<1>1. PICK e \in set : e.route = r
  BY DEF Holds
<1>2. Sent(set, r, s) = After(r, s, e) /\ e \in Event /\ Sound(e) /\ e.kind = "CLOSED"
  BY <1>1, SentCases DEF Outbox
<1> QED
  BY <1>1, <1>2, AfterCases

\* What a tick does to a route and to the outbox of the worker.
Moves(r, a, b, w) ==
    \/ ~Holds(w, r) /\ (a.ts # 0 <=> b.ts # 0) /\ (a.ts # 0 => a.peak = b.peak)
    \/ \E e \in w : e.route = r /\ e.kind = "OPENED" /\ a.ts = 0 /\ b.ts # 0 /\ b.peak = e.spread
    \/ \E e \in w : e.route = r /\ e.kind = "UPDATED" /\ a.ts # 0 /\ b.ts # 0 /\ b.peak = e.spread /\ e.spread > a.peak
    \/ \E e \in w : e.route = r /\ e.kind = "CLOSED" /\ a.ts # 0 /\ b.ts = 0

\* A tick: the outbox of the worker was empty.
LEMMA TickSettles ==
    ASSUME NEW r \in Routes, NEW a \in RouteState, NEW b \in RouteState, NEW s \in Signal,
           NEW w, Outbox(w), NEW j, Outbox(j), \A e \in j : e.kind = "CLOSED",
           Settles(r, a, {}, j, {}, s), Moves(r, a, b, w)
    PROVE  Settles(r, b, w, j, {}, s)
<1>0. Outbox({}) /\ ~Holds({}, r)
  BY DEF Outbox, Holds
<1>1. \A t \in Signal : Sent({}, r, t) = t
  BY <1>0, SentCases
<1>2. Sent(j, r, s) \in Signal /\ Sent(w, r, s) \in Signal
  BY SentCases
<1>3. PICK sj \in Signal : sj = Sent(j, r, s)
  BY <1>2
<1>4. PICK sw \in Signal : sw = Sent(w, r, s)
  BY <1>2
<1>5. Sent(j, r, sw) \in Signal /\ Sent(w, r, sj) \in Signal
  BY SentCases
<1>6. Matches(a, sj) /\ (Holds(j, r) => s = Lost \/ (a.ts = 0 /\ s.openedAt # 0))
  BY <1>1, <1>2, <1>3 DEF Settles
<1> DEFINE Goal == /\ Matches(b, Sent(j, r, sw))
                   /\ Matches(b, Sent(w, r, sj))
                   /\ Holds(j, r) => sw = Lost \/ (b.ts = 0 /\ sw.openedAt # 0)
                   /\ \A e \in w : e.route = r /\ e.kind = "OPENED" => sj \in {Lost, NoSignal}
<1>7. SUFFICES Goal
  BY <1>1, <1>3, <1>4, <1>5 DEF Settles
<1>8. ~Holds(j, r) => sj = s /\ Sent(j, r, sw) = sw
  BY <1>3, SentCases
<1>9. s = Lost => sj = Lost /\ sw = Lost
  BY <1>3, <1>4, SentCases
<1>10. sw = Lost => Sent(j, r, sw) = Lost
  BY SentCases
<1>11. sj = Lost => Sent(w, r, sj) = Lost
  BY SentCases
<1>12. Holds(j, r) => sj \in {NoSignal, Lost}
  BY <1>3, Closing
<1>13. NoSignal # Lost /\ NoSignal.openedAt = 0 /\ Lost.openedAt = 0
  BY DEF NoSignal, Lost
<1>14. CASE ~Holds(w, r) /\ (a.ts # 0 <=> b.ts # 0) /\ (a.ts # 0 => a.peak = b.peak)
  <2>1. sw = s /\ Sent(w, r, sj) = sj /\ Sent(j, r, sw) = sj
    BY <1>3, <1>4, <1>14, SentCases
  <2>2. Matches(b, sj)
    BY <1>6, <1>14 DEF Matches
  <2> QED
    BY <1>6, <1>14, <2>1, <2>2 DEF Holds
<1>15. ASSUME NEW e \in w, e.route = r, e.kind = "OPENED", a.ts = 0, b.ts # 0, b.peak = e.spread
       PROVE  Goal
  <2>1. sj \in {Lost, NoSignal}
    BY <1>6, <1>15 DEF Matches
  <2>2. e \in Event /\ Sound(e) /\ sw = After(r, s, e) /\ Sent(w, r, sj) = After(r, sj, e)
    BY <1>4, <1>15, SentCases DEF Outbox
  <2>3. Matches(b, Sent(w, r, sj))
    BY <1>13, <1>15, <2>1, <2>2, AfterCases DEF Matches, Sound
  <2>4. CASE Holds(j, r)
    <3>1. sw = Lost
      BY <1>6, <1>9, <1>15, <2>2, <2>4, AfterCases
    <3> QED
      BY <1>10, <2>1, <2>3, <3>1 DEF Matches
  <2>5. CASE ~Holds(j, r)
    BY <1>8, <2>1, <2>2, <2>3, <2>5
  <2> QED
    BY <2>4, <2>5
<1>16. ASSUME NEW e \in w, e.route = r, e.kind = "UPDATED", a.ts # 0, b.ts # 0, b.peak = e.spread, e.spread > a.peak
       PROVE  Goal
  <2>1. e \in Event /\ Sound(e) /\ sw = After(r, s, e) /\ \A x \in w : x.route = r => x = e
    BY <1>4, <1>16, SentCases DEF Outbox
  <2>2. CASE s = Lost
    BY <1>9, <1>10, <1>11, <1>16, <2>1, <2>2 DEF Matches
  <2>3. CASE s # Lost /\ Holds(j, r)
    BY <1>6, <1>16, <2>3
  <2>4. CASE s # Lost /\ ~Holds(j, r)
    <3>1. s.openedAt # 0 /\ s.peak = a.peak
      BY <1>6, <1>8, <1>16, <2>4 DEF Matches
    <3>2. e.spread \in Int /\ a.peak \in Int
      BY <2>1 DEF Event, RouteState
    <3>3. Larger(e.spread, s.peak) = e.spread
      BY <1>16, <3>1, <3>2 DEF Larger
    <3>4. sw = Lost \/ sw = [openedAt |-> s.openedAt, peak |-> e.spread]
      BY <1>16, <2>1, <2>4, <3>3, AfterCases
    <3>5. Matches(b, sw)
      BY <1>16, <3>1, <3>4 DEF Matches
    <3> QED
      BY <1>4, <1>8, <1>16, <2>1, <2>4, <3>5
  <2> QED
    BY <2>2, <2>3, <2>4
<1>17. ASSUME NEW e \in w, e.route = r, e.kind = "CLOSED", a.ts # 0, b.ts = 0
       PROVE  Goal
  <2>1. e \in Event /\ Sound(e) /\ sw = After(r, s, e) /\ \A x \in w : x.route = r => x = e
    BY <1>4, <1>17, SentCases DEF Outbox
  <2>2. CASE s = Lost
    BY <1>9, <1>10, <1>11, <1>17, <2>1, <2>2 DEF Matches
  <2>3. CASE s # Lost /\ Holds(j, r)
    BY <1>6, <1>17, <2>3
  <2>4. CASE s # Lost /\ ~Holds(j, r)
    <3>1. sw \in {Lost, NoSignal}
      BY <1>17, <2>1, <2>4, AfterCases
    <3>2. Matches(b, sw)
      BY <1>17, <3>1 DEF Matches
    <3> QED
      BY <1>4, <1>8, <1>17, <2>1, <2>4, <3>2
  <2> QED
    BY <2>2, <2>3, <2>4
<1> QED
  BY <1>14, <1>15, <1>16, <1>17 DEF Moves

\* A sweep of the janitor that closes the route: its outbox was empty.
LEMMA SweepSettles ==
    ASSUME NEW r \in Routes, NEW a \in RouteState, a.ts # 0, NEW s \in Signal,
           NEW w, Outbox(w), NEW j, Outbox(j), \A e \in j : e.kind = "CLOSED", Holds(j, r),
           Settles(r, a, w, {}, {}, s)
    PROVE  Settles(r, NoRoute, w, j, {}, s)
<1>0. Outbox({}) /\ ~Holds({}, r) /\ NoRoute.ts = 0
  BY DEF Outbox, Holds, NoRoute
<1>1. \A t \in Signal : Sent({}, r, t) = t
  BY <1>0, SentCases
<1>2. Sent(j, r, s) \in Signal /\ Sent(w, r, s) \in Signal
  BY SentCases
<1>3. PICK sj \in Signal : sj = Sent(j, r, s)
  BY <1>2
<1>4. PICK sw \in Signal : sw = Sent(w, r, s)
  BY <1>2
<1>5. Sent(j, r, sw) \in Signal /\ Sent(w, r, sj) \in Signal
  BY SentCases
<1>6. Matches(a, sw) /\ \A e \in w : e.route = r /\ e.kind = "OPENED" => s \in {Lost, NoSignal}
  BY <1>1, <1>2, <1>4 DEF Settles
<1>7. NoSignal # Lost /\ NoSignal.openedAt = 0 /\ Lost.openedAt = 0
  BY DEF NoSignal, Lost
<1>8. sj \in {NoSignal, Lost} /\ Sent(j, r, sw) \in {NoSignal, Lost} /\ (s.openedAt = 0 => sj = Lost)
  BY <1>3, Closing
<1>9. sw = Lost \/ sw.openedAt # 0
  BY <1>6 DEF Matches
<1>10. Sent(w, r, sj) \in {NoSignal, Lost}
  <2>1. CASE ~Holds(w, r)
    BY <1>8, <2>1, SentCases
  <2>2. CASE sj = Lost
    BY <2>2, SentCases
  <2>3. CASE Holds(w, r) /\ sj # Lost
    <3>1. PICK e \in w : e.route = r
      BY <2>3 DEF Holds
    <3>2. e \in Event /\ Sound(e) /\ Sent(w, r, sj) = After(r, sj, e) /\ e.kind \in {"OPENED", "UPDATED", "CLOSED"}
      BY <3>1, SentCases DEF Outbox, Event
    <3>3. e.kind # "OPENED"
      BY <1>6, <1>7, <1>8, <2>3, <3>1
    <3> QED
      BY <1>7, <1>8, <2>3, <3>1, <3>2, <3>3, AfterCases
  <2> QED
    BY <2>1, <2>2, <2>3
<1> QED
  BY <1>0, <1>1, <1>3, <1>4, <1>5, <1>8, <1>9, <1>10 DEF Settles, Matches

\* The flush: every other outbox is empty, and the main one holds an event for a
\* route that was active.
LEMMA FlushSettles ==
    ASSUME NEW r \in Routes, NEW a \in RouteState, NEW s \in Signal,
           NEW m, Outbox(m), \A e \in m : e.kind = "CLOSED", Holds(m, r) <=> a.ts # 0,
           Settles(r, a, {}, {}, {}, s)
    PROVE  Settles(r, NoRoute, {}, {}, m, s)
<1>0. Outbox({}) /\ ~Holds({}, r) /\ NoRoute.ts = 0
  BY DEF Outbox, Holds, NoRoute
<1>1. \A t \in Signal : Sent({}, r, t) = t
  BY <1>0, SentCases
<1>2. Matches(a, s)
  BY <1>1 DEF Settles
<1>3. Sent(m, r, s) \in {NoSignal, Lost}
  <2>1. CASE Holds(m, r)
    BY <2>1, Closing
  <2>2. CASE ~Holds(m, r)
    BY <1>2, <2>2, SentCases DEF Matches
  <2> QED
    BY <2>1, <2>2
<1> QED
  BY <1>0, <1>1, <1>3 DEF Settles, Matches

\* What is left in an outbox when event e of it is sent.
Rest(set, e, r, s) ==
    /\ Outbox(set \ {e})
    /\ e.route = r => ~Holds(set \ {e}, r) /\ Sent(set, r, s) = After(r, s, e) /\ Sent(set \ {e}, r, s) = s
    /\ e.route # r => /\ Sent(set \ {e}, r, s) = Sent(set, r, s) /\ After(r, s, e) = s
                      /\ (Holds(set \ {e}, r) <=> Holds(set, r))

\* An outbox is one after a send, and the event is the only one for its route.
LEMMA OutboxRest ==
    ASSUME NEW r \in Routes, NEW set, Outbox(set), NEW e \in set, NEW s \in Signal
    PROVE  Rest(set, e, r, s)
<1>1. Outbox(set \ {e})
  BY DEF Outbox
<1>2. e \in Event /\ Sound(e)
  BY DEF Outbox
<1>3. CASE e.route = r
  <2>1. ~Holds(set \ {e}, r)
    BY <1>3 DEF Outbox, Holds
  <2> QED
    BY <1>1, <1>3, <2>1, SentCases DEF Rest
<1>4. CASE e.route # r
  <2>1. Holds(set \ {e}, r) <=> Holds(set, r)
    BY <1>4 DEF Holds
  <2>2. After(r, s, e) = s
    BY <1>2, <1>4, AfterCases
  <2>3. Sent(set \ {e}, r, s) = Sent(set, r, s)
    <3>1. CASE ~Holds(set, r)
      BY <1>1, <2>1, <3>1, SentCases
    <3>2. CASE Holds(set, r)
      <4>1. PICK x \in set : x.route = r
        BY <3>2 DEF Holds
      <4>2. x \in set \ {e}
        BY <1>4, <4>1
      <4> QED
        BY <1>1, <4>1, <4>2, SentCases
    <3> QED
      BY <3>1, <3>2
  <2> QED
    BY <1>1, <1>4, <2>1, <2>2, <2>3 DEF Rest
<1> QED
  BY <1>3, <1>4

\* The worker sends: whatever the order of the senders was to be, it comes first.
LEMMA WorkerSends ==
    ASSUME NEW r \in Routes, NEW a \in RouteState, NEW s \in Signal, NEW w, Outbox(w), NEW j, Outbox(j),
           NEW m, Outbox(m), NEW e \in w, Settles(r, a, w, j, m, s)
    PROVE  Settles(r, a, w \ {e}, j, m, After(r, s, e))
<1>1. PICK u : u = w \ {e}
  OBVIOUS
<1>rest. \A t \in Signal : Rest(w, e, r, t)
  BY OutboxRest
<1>2. Outbox(u)
  BY <1>1, <1>rest DEF Rest
<1>3. CASE e.route # r
  <2>1. \A t \in Signal : Sent(u, r, t) = Sent(w, r, t)
    BY <1>1, <1>3, <1>rest DEF Rest
  <2>2. After(r, s, e) = s
    BY <1>3, <1>rest DEF Rest
  <2>3. Sent(j, r, s) \in Signal
    BY SentCases
  <2>4. Settles(r, a, u, j, m, s)
    BY <1>1, <2>1, <2>3 DEF Settles
  <2> QED
    BY <1>1, <2>2, <2>4
<1>4. CASE e.route = r
  <2>1. PICK t \in Signal : t = After(r, s, e)
    BY AfterCases DEF Outbox
  <2>2. Sent(w, r, s) = t /\ ~Holds(u, r)
    BY <1>1, <1>4, <2>1, <1>rest DEF Rest
  <2>3. \A x \in Signal : Sent(u, r, x) = x
    BY <1>2, <2>2, SentCases
  <2>4. Sent(j, r, t) \in Signal
    BY SentCases
  <2>5. Matches(a, Sent(m, r, Sent(j, r, t))) /\ (Holds(j, r) => t = Lost \/ (a.ts = 0 /\ t.openedAt # 0))
    BY <2>2 DEF Settles
  <2>6. \A x \in u : x.route # r
    BY <2>2 DEF Holds
  <2>7. Settles(r, a, u, j, m, t)
    BY <2>3, <2>4, <2>5, <2>6 DEF Settles
  <2> QED
    BY <1>1, <2>1, <2>7
<1> QED
  BY <1>3, <1>4

\* The janitor sends.
LEMMA JanitorSends ==
    ASSUME NEW r \in Routes, NEW a \in RouteState, NEW s \in Signal, NEW w, Outbox(w), NEW j, Outbox(j),
           NEW m, Outbox(m), NEW e \in j, Settles(r, a, w, j, m, s)
    PROVE  Settles(r, a, w, j \ {e}, m, After(r, s, e))
<1>1. PICK u : u = j \ {e}
  OBVIOUS
<1>rest. \A t \in Signal : Rest(j, e, r, t)
  BY OutboxRest
<1>2. Outbox(u)
  BY <1>1, <1>rest DEF Rest
<1>3. CASE e.route # r
  <2>1. \A t \in Signal : Sent(u, r, t) = Sent(j, r, t)
    BY <1>1, <1>3, <1>rest DEF Rest
  <2>2. After(r, s, e) = s /\ (Holds(u, r) <=> Holds(j, r))
    BY <1>1, <1>3, <1>rest DEF Rest
  <2>3. Sent(w, r, s) \in Signal
    BY SentCases
  <2>4. Settles(r, a, w, u, m, s)
    BY <1>1, <2>1, <2>2, <2>3 DEF Settles
  <2> QED
    BY <1>1, <2>2, <2>4
<1>4. CASE e.route = r
  <2>1. PICK t \in Signal : t = After(r, s, e)
    BY AfterCases DEF Outbox
  <2>2. Sent(j, r, s) = t /\ ~Holds(u, r)
    BY <1>1, <1>4, <2>1, <1>rest DEF Rest
  <2>3. \A x \in Signal : Sent(u, r, x) = x
    BY <1>2, <2>2, SentCases
  <2>4. Sent(w, r, t) \in Signal
    BY SentCases
  <2>5. Matches(a, Sent(m, r, Sent(w, r, t))) /\ \A x \in w : x.route = r /\ x.kind = "OPENED" => t \in {Lost, NoSignal}
    BY <2>2 DEF Settles
  <2>6. Settles(r, a, w, u, m, t)
    BY <2>2, <2>3, <2>4, <2>5 DEF Settles
  <2> QED
    BY <1>1, <2>1, <2>6
<1> QED
  BY <1>3, <1>4

\* Cleanup sends: the other outboxes are empty.
LEMMA MainSends ==
    ASSUME NEW r \in Routes, NEW a \in RouteState, NEW s \in Signal,
           NEW m, Outbox(m), NEW e \in m, Settles(r, a, {}, {}, m, s)
    PROVE  Settles(r, a, {}, {}, m \ {e}, After(r, s, e))
<1>0. Outbox({}) /\ ~Holds({}, r)
  BY DEF Outbox, Holds
<1>1. \A t \in Signal : Sent({}, r, t) = t
  BY <1>0, SentCases
<1>2. PICK t \in Signal : t = After(r, s, e)
  BY AfterCases DEF Outbox
<1>rest. \A x \in Signal : Rest(m, e, r, x)
  BY OutboxRest
<1>3. Sent(m \ {e}, r, t) = Sent(m, r, s)
  BY <1>2, <1>rest DEF Rest
<1>4. Matches(a, Sent(m \ {e}, r, t))
  BY <1>1, <1>3 DEF Settles
<1> QED
  BY <1>0, <1>1, <1>2, <1>4 DEF Settles

\* The walk through the channel gets longer by what is sent.
LEMMA WalkAppend ==
    ASSUME NEW r \in Routes, NEW s, NEW c \in Seq(Event), NEW d, Walks(r, s, c, d), NEW e \in Event, Sound(e)
    PROVE  \E g : Walks(r, s, Append(c, e), g) /\ g[Len(Append(c, e)) + 1] = After(r, d[Len(c) + 1], e)
<1>1. PICK n \in Nat : n = Len(c)
  OBVIOUS
<1>2. d \in [1..(n + 1) -> Signal] /\ d[1] = s /\ \A i \in 1..n : d[i + 1] = After(r, d[i], c[i])
  BY <1>1 DEF Walks
<1>3. After(r, d[n + 1], e) \in Signal
  BY <1>1, <1>2, AfterCases
<1>4. PICK t \in Signal : t = After(r, d[n + 1], e)
  BY <1>3
<1>5. Len(Append(c, e)) = n + 1 /\ Append(c, e)[n + 1] = e /\ \A i \in 1..n : Append(c, e)[i] = c[i]
  BY <1>1
<1>6. PICK g : g = [i \in 1..(n + 2) |-> IF i = n + 2 THEN t ELSE d[i]]
  OBVIOUS
<1>7. g \in [1..(n + 2) -> Signal] /\ g[1] = s /\ g[n + 2] = t /\ \A i \in 1..(n + 1) : g[i] = d[i]
  BY <1>1, <1>2, <1>6
<1>8. \A i \in 1..(n + 1) : g[i + 1] = After(r, g[i], Append(c, e)[i])
  <2> TAKE i \in 1..(n + 1)
  <2>1. CASE i = n + 1
    BY <1>1, <1>4, <1>5, <1>7, <2>1
  <2>2. CASE i \in 1..n
    <3>1. i + 1 \in 1..(n + 1)
      BY <1>1, <2>2
    <3> QED
      BY <1>2, <1>5, <1>7, <2>2, <3>1
  <2> QED
    BY <1>1, <2>1, <2>2
<1>9. n + 1 + 1 = n + 2
  BY <1>1
<1>10. Walks(r, s, Append(c, e), g)
  BY SMTT(30), <1>5, <1>7, <1>8, <1>9 DEF Walks
<1>11. g[Len(Append(c, e)) + 1] = After(r, d[Len(c) + 1], e)
  BY SMTT(30), <1>1, <1>4, <1>5, <1>7, <1>9
<1> QED
  BY <1>10, <1>11

\* The walk gets shorter by what is handled.
LEMMA WalkTail ==
    ASSUME NEW r \in Routes, NEW s, NEW c \in Seq(Event), c # <<>>, NEW d, Walks(r, s, c, d)
    PROVE  \E g : Walks(r, After(r, s, Head(c)), Tail(c), g) /\ g[Len(Tail(c)) + 1] = d[Len(c) + 1]
<1>1. PICK n \in Nat : n + 1 = Len(c)
  <2>1. Len(c) \in Nat /\ Len(c) # 0
    OBVIOUS
  <2>2. Len(c) - 1 \in Nat /\ Len(c) - 1 + 1 = Len(c)
    BY <2>1
  <2> QED
    BY <2>2
<1>2. d \in [1..(n + 2) -> Signal] /\ d[1] = s /\ \A i \in 1..(n + 1) : d[i + 1] = After(r, d[i], c[i])
  <2>1. n + 1 + 1 = n + 2
    BY <1>1
  <2> QED
    BY <1>1, <2>1 DEF Walks
<1>3. Len(Tail(c)) = n /\ Head(c) = c[1] /\ \A i \in 1..n : Tail(c)[i] = c[i + 1]
  BY <1>1
<1>4. PICK g : g = [i \in 1..(n + 1) |-> d[i + 1]]
  OBVIOUS
<1>5. g \in [1..(n + 1) -> Signal] /\ \A i \in 1..(n + 1) : g[i] = d[i + 1]
  BY <1>1, <1>2, <1>4
<1>6. g[1] = After(r, s, Head(c))
  <2>1. 1 \in 1..(n + 1) /\ 1 + 1 = 2
    BY <1>1
  <2> QED
    BY <1>2, <1>3, <1>5, <2>1
<1>7. \A i \in 1..n : g[i + 1] = After(r, g[i], Tail(c)[i])
  <2> TAKE i \in 1..n
  <2>1. i \in 1..(n + 1) /\ i + 1 \in 1..(n + 1)
    BY <1>1
  <2> QED
    BY <1>2, <1>3, <1>5, <2>1
<1>8. Walks(r, After(r, s, Head(c)), Tail(c), g)
  BY <1>3, <1>5, <1>6, <1>7 DEF Walks
<1>9. g[Len(Tail(c)) + 1] = d[Len(c) + 1]
  BY <1>1, <1>3, <1>5
<1> QED
  BY SMTT(30), <1>8, <1>9

\* What a tick does to every route is what its events say.
LEMMA TickMoves ==
    ASSUME IInv, NEW f \in Feeds, NEW q \in Quotes, NEW at \in 1..clock, ProcessTick(f, q, at)
    PROVE  /\ Outbox(EventsOfTick(f, q, at))
           /\ \A r \in Routes : Moves(r, active[r], active'[r], EventsOfTick(f, q, at))
<1>0. ValidTick(q) /\ TypeOK /\ PriceInv
  BY DEF IInv, ProcessTick
<1>1. PICK p \in [Exchanges \X Markets -> PriceState] : p = PriceStored(f, q, at)
  BY <1>0, PriceStoredStep
<1>2. PICK keys : keys = CurrentKeys(p, f[1], at)
  OBVIOUS
<1>3. PICK w \in SUBSET Event : w = EventsOfTick(f, q, at)
  BY <1>0, TickEventsTyped
<1>4. w = {[kind |-> Lifecycle(p, keys, r), route |-> r,
            spread |-> IF r \in keys THEN NetSpread(p, r) ELSE 0, ts |-> at] :
              r \in {x \in Routes : Lifecycle(p, keys, x) # "NONE"}}
  BY <1>1, <1>2, <1>3 DEF EventsOfTick, TickEvents
<1>5. at # 0 /\ active \in [Routes -> RouteState] /\ active' = ActiveAfter(p, keys, at)
  BY <1>0, <1>1, <1>2, PriceStoredStep DEF TypeOK, ProcessTick
<1>6. Outbox(w)
  <2>1. \A e \in w : e.spread >= 0
    BY <1>0, <1>3, TickEventsTyped
  <2>2. \A e \in w : e.ts # 0
    BY <1>4, <1>5
  <2>3. \A e, x \in w : x.route = e.route => x = e
    BY <1>4
  <2> QED
    BY <1>3, <2>1, <2>2, <2>3 DEF Outbox, Sound
<1>7. ASSUME NEW r \in Routes
      PROVE  Moves(r, active[r], active'[r], w)
  <2>1. PICK L \in {"OPENED", "UPDATED", "CLOSED", "NONE"} : L = Lifecycle(p, keys, r)
    BY LifecycleStep
  <2>2. /\ L \in {"OPENED", "UPDATED"} => r \in keys /\ active'[r] = [peak |-> NetSpread(p, r), ts |-> at]
        /\ L = "CLOSED" => active'[r] = NoRoute
        /\ L = "NONE" => active'[r] = IF IsActive(r) THEN [peak |-> active[r].peak, ts |-> at] ELSE NoRoute
    <3>1. L \in {"OPENED", "UPDATED"} => r \in keys
      BY <2>1, LifecycleStep
    <3>2. active'[r] = ActiveAfter(p, keys, at)[r]
      BY <1>5
    <3> QED
      BY <1>5, <2>1, <3>1, <3>2, ActiveAfterCases
  <2>3. /\ L = "OPENED" => active[r].ts = 0
        /\ L \in {"UPDATED", "CLOSED"} => active[r].ts # 0
        /\ L = "UPDATED" => NetSpread(p, r) > active[r].peak
    BY <2>1, LifecycleStep DEF IsActive
  <2>4. L # "NONE" => \E e \in w : e.route = r /\ e.kind = L /\ (r \in keys => e.spread = NetSpread(p, r))
    <3> SUFFICES ASSUME L # "NONE" PROVE \E e \in w : e.route = r /\ e.kind = L /\ (r \in keys => e.spread = NetSpread(p, r))
      OBVIOUS
    <3>1. PICK e : e = [kind |-> Lifecycle(p, keys, r), route |-> r,
                        spread |-> IF r \in keys THEN NetSpread(p, r) ELSE 0, ts |-> at]
      OBVIOUS
    <3>2. e \in w
      BY <1>4, <2>1, <3>1
    <3> QED
      BY <2>1, <3>1, <3>2
  <2>5. L = "NONE" => ~Holds(w, r)
    <3> SUFFICES ASSUME NEW e \in w, e.route = r PROVE L # "NONE"
      BY DEF Holds
    <3>1. PICK x \in Routes : Lifecycle(p, keys, x) # "NONE" /\ e.route = x
      BY <1>4
    <3> QED
      BY <2>1, <3>1
  <2>6. CASE L = "NONE"
    BY <1>5, <2>2, <2>5, <2>6 DEF Moves, IsActive, NoRoute
  <2>7. CASE L = "OPENED"
    BY <1>5, <2>2, <2>3, <2>4, <2>7 DEF Moves
  <2>8. CASE L = "UPDATED"
    BY <1>5, <2>2, <2>3, <2>4, <2>8 DEF Moves
  <2>9. CASE L = "CLOSED"
    BY <2>2, <2>3, <2>4, <2>9 DEF Moves, NoRoute
  <2> QED
    BY <2>1, <2>6, <2>7, <2>8, <2>9
<1> QED
  BY <1>3, <1>6, <1>7

-----------------------------------------------------------------------------
(* The tracker follows: one step per action. *)

\* The outboxes, as EventInv describes them.
LEMMA Outboxes ==
    ASSUME TypeOK, EventInv, NEW z \in Senders
    PROVE  Outbox(pend[z]) /\ (z # "worker" => \A e \in pend[z] : e.kind = "CLOSED")
  BY DEF TypeOK, EventInv, Outbox

\* The invariant holds at the start.
LEMMA TrackInit == Init => TrackInv
<1> SUFFICES ASSUME Init PROVE TrackInv
  OBVIOUS
<1>1. PhaseInv /\ EventInv
  BY DEF Init, PhaseInv, EventInv, Senders
<1>2. SnapshotInv
  BY DEF Init, SnapshotInv, NoSignal
<1>3. ConvergeInv
  <2> SUFFICES ASSUME NEW r \in Routes
               PROVE  \E d : Walks(r, NoSignal, <<>>, d) /\ Settles(r, NoRoute, {}, {}, {}, d[Len(<<>>) + 1])
    BY DEF Init, AggregatorInit, ConvergeInv, Senders
  <2>1. PICK d : d = [i \in 1..1 |-> NoSignal]
    OBVIOUS
  <2>2. NoSignal \in Signal /\ NoRoute.ts = 0
    BY FundingAssumption DEF NoSignal, Signal, NoRoute, Time, FundingAssumption
  <2>3. Len(<<>>) = 0 /\ 0 + 1 = 1 /\ d[1] = NoSignal /\ d \in [1..1 -> Signal]
    BY <2>1, <2>2
  <2>4. Walks(r, NoSignal, <<>>, d)
    BY <2>3 DEF Walks
  <2>5. Outbox({}) /\ ~Holds({}, r)
    BY DEF Outbox, Holds
  <2>6. Sent({}, r, NoSignal) = NoSignal
    BY <2>2, <2>5, SentCases
  <2>7. Settles(r, NoRoute, {}, {}, {}, NoSignal)
    BY <2>2, <2>5, <2>6 DEF Settles, Matches
  <2> QED
    BY <2>3, <2>4, <2>7
<1> QED
  BY <1>1, <1>2, <1>3 DEF TrackInv

\* What the parts of the invariant depend on.
LEMMA TrackFrame ==
    /\ EventInv /\ UNCHANGED <<pend, trackerChan>> => EventInv'
    /\ SnapshotInv /\ UNCHANGED trackerVars => SnapshotInv'
    /\ ConvergeInv /\ UNCHANGED <<pend, trackerChan, activeSignals, active, flushTimedOut, ignored>> => ConvergeInv'
<1>1. ASSUME EventInv, UNCHANGED <<pend, trackerChan>> PROVE EventInv'
  BY <1>1 DEF EventInv
<1>2. ASSUME SnapshotInv, UNCHANGED trackerVars PROVE SnapshotInv'
  BY <1>2 DEF SnapshotInv
<1>3. ASSUME ConvergeInv, UNCHANGED <<pend, trackerChan, activeSignals, active, flushTimedOut, ignored>> PROVE ConvergeInv'
  BY <1>3 DEF ConvergeInv
<1> QED
  BY <1>1, <1>2, <1>3

\* Time, streams, the operator and the first half of the janitor are out of the way.
LEMMA QuietTrack ==
    ASSUME IInv, TrackInv,
           \/ Advance
           \/ \E e \in Exchanges : FundingArrives(e) \/ FundingStreamEnds(e)
           \/ \E v \in HardMins : HardSpreadCommand(v)
           \/ HardSpreadApplied
           \/ \E routes \in FilterSets : FiltersStep(routes)
           \/ JanitorEvicts
           \/ UNCHANGED vars
    PROVE  TrackInv'
<1>1. UNCHANGED <<pend, trackerChan, trackerVars, active, phase, flushTimedOut, ignored>>
  BY DEF Advance, FundingArrives, FundingStreamEnds, StreamFrame, HardSpreadCommand, HardSpreadApplied,
         SetHardMinSpread, FiltersStep, FiltersChange, JanitorEvicts, vars
<1>2. jpc' = jpc \/ (jpc' = "sweep" /\ phase \in {"run", "janitorStop"} /\ pend["janitor"] = {})
  BY DEF Advance, FundingArrives, FundingStreamEnds, StreamFrame, HardSpreadCommand, HardSpreadApplied,
         FiltersStep, JanitorEvicts, vars
<1>3. PhaseInv'
  BY <1>1, <1>2 DEF TrackInv, PhaseInv, IsActive
<1> QED
  BY <1>1, <1>3, TrackFrame DEF TrackInv

\* Cleanup waits for the senders before it goes on.
LEMMA CleanupTrack ==
    ASSUME IInv, TrackInv, CloseJanitor \/ StopWorkers \/ CloseTrackerChan \/ TrackerDone
    PROVE  TrackInv'
<1>1. UNCHANGED <<pend, trackerChan, trackerVars, active, jpc, flushTimedOut, ignored>>
  BY DEF CloseJanitor, StopWorkers, CloseTrackerChan, TrackerDone, CleanupFrame
<1>2. \/ phase = "run" /\ phase' = "janitorStop"
      \/ phase = "janitorStop" /\ phase' = "workersStop" /\ jpc = "wait" /\ pend["janitor"] = {}
      \/ phase = "flush" /\ phase' = "drain" /\ pend["main"] = {}
      \/ phase = "drain" /\ phase' = "done" /\ trackerChan = <<>>
  BY DEF CloseJanitor, StopWorkers, CloseTrackerChan, TrackerDone
<1>3. PhaseInv'
  BY <1>1, <1>2 DEF TrackInv, PhaseInv, IsActive
<1> QED
  BY <1>1, <1>3, TrackFrame DEF TrackInv

\* The flush gives up.
LEMMA TimeoutTrack == ASSUME IInv, TrackInv, FlushTimeout PROVE TrackInv'
<1>1. /\ phase = "flush" /\ pend' = [pend EXCEPT !["main"] = {}] /\ flushTimedOut'
      /\ UNCHANGED <<trackerChan, trackerVars, active, jpc, phase, ignored>>
  BY DEF FlushTimeout, CleanupFrame
<1>2. /\ pend \in [Senders -> SUBSET Event]
      /\ pend'["worker"] = pend["worker"] /\ pend'["janitor"] = pend["janitor"] /\ pend'["main"] = {}
  BY <1>1 DEF IInv, TypeOK, Senders
<1>3. PhaseInv'
  BY <1>1, <1>2 DEF TrackInv, PhaseInv, IsActive
<1>4. EventInv'
  BY <1>1, <1>2 DEF TrackInv, EventInv, Senders
<1>5. ConvergeInv'
  BY <1>1 DEF ConvergeInv
<1> QED
  BY <1>1, <1>3, <1>4, <1>5, TrackFrame DEF TrackInv

\* The worker's tick.
LEMMA TickTrack ==
    ASSUME IInv, TrackInv, NEW f \in Feeds, NEW q \in Quotes, NEW at \in 1..clock, WorkerTick(f, q, at)
    PROVE  TrackInv'
<1>1. ProcessTick(f, q, at) /\ TypeOK /\ active \in [Routes -> RouteState]
  BY DEF WorkerTick, IInv, TypeOK
<1>2. PICK w : w = EventsOfTick(f, q, at)
  OBVIOUS
<1>3. Outbox(w) /\ \A r \in Routes : Moves(r, active[r], active'[r], w)
  BY <1>1, <1>2, TickMoves
<1>4. pend' = [pend EXCEPT !["worker"] = w] /\ pend["worker"] = {} /\ phase \in {"run", "janitorStop", "workersStop"}
  BY <1>2 DEF WorkerTick
<1>5. /\ pend \in [Senders -> SUBSET Event]
      /\ pend'["worker"] = w /\ pend'["janitor"] = pend["janitor"] /\ pend'["main"] = pend["main"]
  BY <1>1, <1>4 DEF TypeOK, Senders
<1>6. pend["main"] = {} /\ ~flushTimedOut
  BY <1>4 DEF TrackInv, PhaseInv
<1>7. UNCHANGED <<trackerChan, trackerVars, jpc, phase, flushTimedOut, ignored>>
  BY DEF WorkerTick
<1>8. active' \in [Routes -> RouteState]
  BY <1>1, TickStep
<1>9. PhaseInv'
  BY <1>4, <1>5, <1>7 DEF TrackInv, PhaseInv
<1>10. EventInv'
  BY <1>3, <1>5, <1>7 DEF TrackInv, EventInv, Outbox, Senders
<1>11. ConvergeInv'
  <2>1. PICK j : j = pend["janitor"]
    OBVIOUS
  <2>2. Outbox(j) /\ \A e \in j : e.kind = "CLOSED"
    BY <1>1, <2>1, Outboxes DEF TrackInv, Senders
  <2> SUFFICES ASSUME NEW r \in Routes \ ignored
               PROVE  \E d : /\ Walks(r, activeSignals[r], trackerChan, d)
                             /\ Settles(r, active'[r], w, j, {}, d[Len(trackerChan) + 1])
    BY <1>5, <1>6, <1>7, <2>1 DEF ConvergeInv
  <2>3. PICK d : /\ Walks(r, activeSignals[r], trackerChan, d)
                 /\ Settles(r, active[r], {}, j, {}, d[Len(trackerChan) + 1])
    BY <1>4, <1>6, <2>1 DEF TrackInv, ConvergeInv
  <2>4. PICK s \in Signal : s = d[Len(trackerChan) + 1]
    <3>1. Len(trackerChan) \in Nat
      BY <1>1 DEF TypeOK
    <3> QED
      BY <2>3, <3>1 DEF Walks
  <2>5. PICK a \in RouteState, b \in RouteState : a = active[r] /\ b = active'[r]
    BY <1>1, <1>8
  <2>6. Settles(r, b, w, j, {}, s)
    BY <1>3, <2>2, <2>3, <2>4, <2>5, TickSettles
  <2> QED
    BY <2>3, <2>4, <2>5, <2>6
<1> QED
  BY <1>7, <1>9, <1>10, <1>11, TrackFrame DEF TrackInv

\* The events that close a set of routes.
LEMMA CloseEvents ==
    ASSUME TypeOK, NEW R \in SUBSET Routes, NEW k, k = {CloseEvent(r) : r \in R}
    PROVE  /\ Outbox(k)
           /\ \A e \in k : e.kind = "CLOSED"
           /\ \A r \in Routes : Holds(k, r) <=> r \in R
<1>1. \A e \in k : \E r \in R : e = CloseEvent(r)
  OBVIOUS
<1>2. \A r \in R : /\ CloseEvent(r) \in k /\ CloseEvent(r) \in Event /\ Sound(CloseEvent(r))
                    /\ CloseEvent(r).route = r /\ CloseEvent(r).kind = "CLOSED"
  BY CloseEventTyped
<1> QED
  BY <1>1, <1>2 DEF Outbox, Holds

\* The janitor's sweep.
LEMMA SweepTrack == ASSUME IInv, TrackInv, JanitorSweeps PROVE TrackInv'
<1>1. TypeOK /\ active \in [Routes -> RouteState]
  BY DEF IInv, TypeOK
<1>2. PICK R \in SUBSET Routes : R = StaleRoutes
  BY DEF StaleRoutes
<1>3. PICK k : k = {CloseEvent(r) : r \in R}
  OBVIOUS
<1>4. Outbox(k) /\ (\A e \in k : e.kind = "CLOSED") /\ \A r \in Routes : Holds(k, r) <=> r \in R
  BY <1>1, <1>3, CloseEvents
<1>5. jpc = "sweep" /\ pend' = [pend EXCEPT !["janitor"] = k] /\ jpc' = "wait"
  BY <1>2, <1>3 DEF JanitorSweeps, JanitorEvents
<1>6. active' = [r \in Routes |-> IF r \in R THEN NoRoute ELSE active[r]] /\ \A r \in R : active[r].ts # 0
  BY <1>2 DEF JanitorSweeps, Janitor, StaleRoutes, IsActive
<1>7. UNCHANGED <<trackerChan, trackerVars, phase, flushTimedOut, ignored>>
  BY DEF JanitorSweeps
<1>8. pend["janitor"] = {} /\ phase \in {"run", "janitorStop"} /\ pend["main"] = {} /\ ~flushTimedOut
  BY <1>1, <1>5 DEF TrackInv, PhaseInv, TypeOK
<1>9. /\ pend \in [Senders -> SUBSET Event]
      /\ pend'["worker"] = pend["worker"] /\ pend'["janitor"] = k /\ pend'["main"] = pend["main"]
  BY <1>1, <1>5 DEF TypeOK, Senders
<1>10. PhaseInv'
  BY <1>5, <1>7, <1>8, <1>9 DEF PhaseInv
<1>11. EventInv'
  BY <1>4, <1>7, <1>9 DEF TrackInv, EventInv, Outbox, Senders
<1>12. ConvergeInv'
  <2>1. PICK w : w = pend["worker"]
    OBVIOUS
  <2>2. Outbox(w)
    BY <1>1, <2>1, Outboxes DEF TrackInv, Senders
  <2> SUFFICES ASSUME NEW r \in Routes \ ignored
               PROVE  \E d : /\ Walks(r, activeSignals[r], trackerChan, d)
                             /\ Settles(r, active'[r], w, k, {}, d[Len(trackerChan) + 1])
    BY <1>7, <1>8, <1>9, <2>1 DEF ConvergeInv
  <2>3. PICK d : /\ Walks(r, activeSignals[r], trackerChan, d)
                 /\ Settles(r, active[r], w, {}, {}, d[Len(trackerChan) + 1])
    BY <1>8, <2>1 DEF TrackInv, ConvergeInv
  <2>4. PICK s \in Signal : s = d[Len(trackerChan) + 1]
    <3>1. Len(trackerChan) \in Nat
      BY <1>1 DEF TypeOK
    <3> QED
      BY <2>3, <3>1 DEF Walks
  <2>5. PICK a \in RouteState : a = active[r]
    BY <1>1
  <2>6. CASE r \in R
    <3>1. active'[r] = NoRoute /\ a.ts # 0 /\ Holds(k, r)
      BY <1>4, <1>6, <2>5, <2>6
    <3>2. Settles(r, NoRoute, w, k, {}, s)
      BY <1>4, <2>2, <2>3, <2>4, <2>5, <3>1, SweepSettles
    <3> QED
      BY <2>3, <2>4, <3>1, <3>2
  <2>7. CASE r \notin R
    <3>1. active'[r] = a /\ ~Holds(k, r) /\ ~Holds({}, r) /\ Outbox({})
      BY <1>4, <1>6, <2>5, <2>7 DEF Holds, Outbox
    <3>2. \A t \in Signal : Sent(k, r, t) = t /\ Sent({}, r, t) = t
      BY <1>4, <3>1, SentCases
    <3>3. Sent(w, r, s) \in Signal
      BY <2>2, SentCases
    <3>4. Settles(r, a, w, k, {}, s)
      BY <2>3, <2>4, <2>5, <3>1, <3>2, <3>3 DEF Settles
    <3> QED
      BY <2>3, <2>4, <3>1, <3>4
  <2> QED
    BY <2>6, <2>7
<1> QED
  BY <1>7, <1>10, <1>11, <1>12, TrackFrame DEF TrackInv

\* The flush.
LEMMA FlushTrack == ASSUME IInv, TrackInv, FlushRoutes PROVE TrackInv'
<1>1. TypeOK /\ active \in [Routes -> RouteState]
  BY DEF IInv, TypeOK
<1>2. PICK R \in SUBSET Routes : R = {r \in Routes : active[r].ts # 0}
  OBVIOUS
<1>3. PICK k : k = {CloseEvent(r) : r \in R}
  OBVIOUS
<1>4. Outbox(k) /\ (\A e \in k : e.kind = "CLOSED") /\ \A r \in Routes : Holds(k, r) <=> r \in R
  BY <1>1, <1>3, CloseEvents
<1>5. /\ phase = "workersStop" /\ phase' = "flush" /\ pend["worker"] = {}
      /\ pend' = [pend EXCEPT !["main"] = k]
      /\ active' = [r \in Routes |-> NoRoute]
  BY <1>2, <1>3 DEF FlushRoutes, FlushActive, FlushEvents, IsActive
<1>6. UNCHANGED <<trackerChan, trackerVars, jpc, flushTimedOut, ignored>>
  BY DEF FlushRoutes, CleanupFrame
<1>7. jpc = "wait" /\ pend["janitor"] = {} /\ pend["main"] = {} /\ ~flushTimedOut
  BY <1>5 DEF TrackInv, PhaseInv
<1>8. /\ pend \in [Senders -> SUBSET Event]
      /\ pend'["worker"] = {} /\ pend'["janitor"] = {} /\ pend'["main"] = k
  BY <1>1, <1>5, <1>7 DEF TypeOK, Senders
<1>9. PhaseInv'
  BY <1>5, <1>6, <1>7, <1>8 DEF PhaseInv, IsActive, NoRoute
<1>10. EventInv'
  BY <1>4, <1>6, <1>8 DEF TrackInv, EventInv, Outbox, Senders
<1>11. ConvergeInv'
  <2> SUFFICES ASSUME NEW r \in Routes \ ignored
               PROVE  \E d : /\ Walks(r, activeSignals[r], trackerChan, d)
                             /\ Settles(r, NoRoute, {}, {}, k, d[Len(trackerChan) + 1])
    BY <1>5, <1>6, <1>7, <1>8 DEF ConvergeInv
  <2>1. PICK d : /\ Walks(r, activeSignals[r], trackerChan, d)
                 /\ Settles(r, active[r], {}, {}, {}, d[Len(trackerChan) + 1])
    BY <1>5, <1>7 DEF TrackInv, ConvergeInv
  <2>2. PICK s \in Signal : s = d[Len(trackerChan) + 1]
    <3>1. Len(trackerChan) \in Nat
      BY <1>1 DEF TypeOK
    <3> QED
      BY <2>1, <3>1 DEF Walks
  <2>3. PICK a \in RouteState : a = active[r]
    BY <1>1
  <2>4. Holds(k, r) <=> a.ts # 0
    BY <1>2, <1>4, <2>3
  <2>5. Settles(r, NoRoute, {}, {}, k, s)
    BY <1>4, <2>1, <2>2, <2>3, <2>4, FlushSettles
  <2> QED
    BY <2>1, <2>2, <2>5
<1> QED
  BY <1>6, <1>9, <1>10, <1>11, TrackFrame DEF TrackInv

\* A send.
LEMMA SendTrack == ASSUME IInv, TrackInv, NEW sender \in Senders, SendEvent(sender) PROVE TrackInv'
<1>1. TypeOK /\ active \in [Routes -> RouteState] /\ trackerChan \in Seq(Event) /\ pend \in [Senders -> SUBSET Event]
  BY DEF IInv, TypeOK
<1>2. PICK e \in pend[sender] : trackerChan' = Append(trackerChan, e) /\ pend' = [pend EXCEPT ![sender] = @ \ {e}]
  BY DEF SendEvent
<1>3. UNCHANGED <<active, trackerVars, jpc, phase, flushTimedOut, ignored>>
  BY DEF SendEvent
<1>4. e \in Event /\ Sound(e)
  BY <1>1, <1>2 DEF TrackInv, EventInv
<1>5. \A z \in Senders : pend'[z] = IF z = sender THEN pend[z] \ {e} ELSE pend[z]
  BY <1>1, <1>2
<1>6. pend[sender] # {} /\ \A z \in Senders : pend[z] = {} => pend'[z] = {}
  BY <1>1, <1>2, <1>5
<1>7. PhaseInv'
  <2>1. "worker" \in Senders /\ "janitor" \in Senders /\ "main" \in Senders
    BY DEF Senders
  <2>2. phase # "done"
    BY <1>6 DEF TrackInv, PhaseInv, Senders
  <2> QED
    BY <1>3, <1>6, <2>1, <2>2 DEF TrackInv, PhaseInv, IsActive
<1>8. EventInv'
  <2>1. \A i \in 1..Len(trackerChan') : Sound(trackerChan'[i])
    <3>1. Len(trackerChan') = Len(trackerChan) + 1 /\ Len(trackerChan) \in Nat
          /\ trackerChan'[Len(trackerChan) + 1] = e /\ \A i \in 1..Len(trackerChan) : trackerChan'[i] = trackerChan[i]
      BY <1>1, <1>2, <1>4
    <3>2. \A i \in 1..(Len(trackerChan) + 1) : i = Len(trackerChan) + 1 \/ i \in 1..Len(trackerChan)
      BY <3>1
    <3> QED
      BY <1>4, <3>1, <3>2 DEF TrackInv, EventInv
  <2>2. \A z \in Senders : pend'[z] \subseteq pend[z]
    BY <1>5
  <2> QED
    BY <2>1, <2>2 DEF TrackInv, EventInv
<1>9. ConvergeInv'
  <2>1. PICK w, j, m : w = pend["worker"] /\ j = pend["janitor"] /\ m = pend["main"]
    OBVIOUS
  <2>2. Outbox(w) /\ Outbox(j) /\ Outbox(m)
    BY <1>1, <2>1, Outboxes DEF TrackInv, Senders
  <2>3. PICK w1, j1, m1 : w1 = pend'["worker"] /\ j1 = pend'["janitor"] /\ m1 = pend'["main"]
    OBVIOUS
  <2>4. PICK c \in Seq(Event) : c = trackerChan
    BY <1>1
  <2> SUFFICES ASSUME ~flushTimedOut, NEW r \in Routes \ ignored
               PROVE  \E g : /\ Walks(r, activeSignals[r], Append(c, e), g)
                             /\ Settles(r, active[r], w1, j1, m1, g[Len(Append(c, e)) + 1])
    BY <1>2, <1>3, <2>3, <2>4 DEF ConvergeInv
  <2>5. PICK d : /\ Walks(r, activeSignals[r], c, d)
                 /\ Settles(r, active[r], w, j, m, d[Len(c) + 1])
    BY <2>1, <2>4 DEF TrackInv, ConvergeInv
  <2>6. PICK s \in Signal : s = d[Len(c) + 1]
    <3>1. Len(c) \in Nat
      OBVIOUS
    <3> QED
      BY <2>5, <3>1 DEF Walks
  <2>7. PICK a \in RouteState : a = active[r]
    BY <1>1
  <2>8. Settles(r, a, w, j, m, s)
    BY <2>5, <2>6, <2>7
  <2>9. Settles(r, a, w1, j1, m1, After(r, s, e))
    <3>1. CASE sender = "worker"
      <4>1. e \in w /\ w1 = w \ {e} /\ j1 = j /\ m1 = m
        BY <1>2, <1>5, <2>1, <2>3, <3>1 DEF Senders
      <4> QED
        BY <2>2, <2>8, <4>1, WorkerSends
    <3>2. CASE sender = "janitor"
      <4>1. e \in j /\ w1 = w /\ j1 = j \ {e} /\ m1 = m
        BY <1>2, <1>5, <2>1, <2>3, <3>2 DEF Senders
      <4> QED
        BY <2>2, <2>8, <4>1, JanitorSends
    <3>3. CASE sender = "main"
      <4>1. e \in m /\ w1 = w /\ j1 = j /\ m1 = m \ {e}
        BY <1>2, <1>5, <2>1, <2>3, <3>3 DEF Senders
      <4>2. w = {} /\ j = {}
        BY <1>1, <2>1, <4>1 DEF TrackInv, PhaseInv, TypeOK
      <4> QED
        BY <2>2, <2>8, <4>1, <4>2, MainSends
    <3> QED
      BY <3>1, <3>2, <3>3 DEF Senders
  <2>10. PICK g : Walks(r, activeSignals[r], Append(c, e), g) /\ g[Len(Append(c, e)) + 1] = After(r, d[Len(c) + 1], e)
    BY <1>4, <2>5, WalkAppend
  <2> QED
    BY <2>6, <2>7, <2>9, <2>10
<1> QED
  BY <1>3, <1>7, <1>8, <1>9, TrackFrame DEF TrackInv

\* The tracker.
LEMMA HandleTrack == ASSUME IInv, TrackInv, HandleEvent PROVE TrackInv'
<1>1. /\ TypeOK /\ trackerChan \in Seq(Event) /\ trackerChan # <<>>
      /\ activeSignals \in [Routes -> Signal] /\ persisted \in [Routes -> Row]
  BY DEF IInv, TypeOK, HandleEvent
<1>2. PICK c \in Seq(Event) : c = trackerChan /\ c # <<>>
  BY <1>1
<1>3. PICK e \in Event : e = Head(c)
  BY <1>2
<1>4. Tracked(e) /\ trackerChan' = Tail(c)
  BY <1>1, <1>2, <1>3, HandleCases
<1>5. Sound(e)
  <2>1. Head(c) = c[1] /\ 1 \in 1..Len(c)
    BY <1>2
  <2> QED
    BY <1>2, <1>3, <2>1 DEF TrackInv, EventInv
<1>6. UNCHANGED <<active, pend, jpc, phase, flushTimedOut>>
  BY DEF HandleEvent
<1>7. ignored \subseteq ignored' /\ (Ignored(e) => e.route \in ignored')
  <2>1. ignored' = ignored \cup {y.route : y \in {x \in {e} : Ignored(x)}}
    BY <1>2, <1>3 DEF HandleEvent
  <2> QED
    BY <2>1
<1>8. e.route \in Routes /\ e.spread \in Int /\ e.ts \in Time /\ e.ts # 0 /\ e.spread >= 0 /\ ~(e.spread < 0)
  BY <1>5 DEF Event, Sound
<1>9. PICK s \in Signal : s = activeSignals[e.route]
  BY <1>1, <1>8
<1>10. s.openedAt \in Time /\ s.peak \in Int /\ s = [openedAt |-> s.openedAt, peak |-> s.peak]
  BY DEF Signal
<1>11. (s.openedAt = 0 => s = NoSignal) /\ s # Lost
  <2>1. s.openedAt = 0 => s = NoSignal
    BY <1>8, <1>9 DEF TrackInv, SnapshotInv
  <2> QED
    BY <2>1 DEF NoSignal, Lost
<1>12. HasSignal(e.route) <=> s.openedAt # 0
  BY <1>9 DEF HasSignal
<1>13. Applies(e) <=> s.openedAt # 0 /\ e.ts >= s.openedAt
  BY <1>9, <1>12 DEF Applies
<1>14. \A r \in Routes : r # e.route => activeSignals'[r] = activeSignals[r] /\ persisted'[r] = persisted[r]
  BY <1>1, <1>4, <1>8 DEF Tracked
<1>15. SnapshotInv'
  <2> SUFFICES ASSUME NEW r \in Routes
               PROVE  /\ activeSignals'[r].openedAt = 0 => activeSignals'[r] = NoSignal
                      /\ activeSignals'[r].openedAt # 0 => persisted'[r] = [active |-> TRUE, peak |-> activeSignals'[r].peak]
                      /\ activeSignals'[r].openedAt = 0 => ~persisted'[r].active
    BY DEF SnapshotInv
  <2>1. CASE r # e.route
    BY <1>14, <2>1 DEF TrackInv, SnapshotInv
  <2>2. CASE r = e.route /\ UNCHANGED trackerVars
    BY <2>2 DEF TrackInv, SnapshotInv
  <2>3. CASE r = e.route /\ ~UNCHANGED trackerVars
    <3>1. CASE /\ activeSignals' = [activeSignals EXCEPT ![e.route] = [openedAt |-> e.ts, peak |-> e.spread]]
               /\ persisted' = [persisted EXCEPT ![e.route] = [active |-> TRUE, peak |-> e.spread]]
      BY <1>1, <1>8, <2>3, <3>1
    <3>2. CASE /\ Applies(e)
               /\ activeSignals' = [activeSignals EXCEPT ![e.route] =
                                      [openedAt |-> activeSignals[e.route].openedAt, peak |-> e.spread]]
               /\ persisted' = [persisted EXCEPT ![e.route] = [active |-> persisted[e.route].active, peak |-> e.spread]]
      <4>1. persisted[e.route] = [active |-> TRUE, peak |-> s.peak] /\ s.openedAt # 0
        BY <1>8, <1>9, <1>13, <3>2 DEF TrackInv, SnapshotInv
      <4>2. activeSignals'[r] = [openedAt |-> s.openedAt, peak |-> e.spread] /\ persisted'[r] = [active |-> TRUE, peak |-> e.spread]
        BY <1>1, <1>8, <1>9, <2>3, <3>2, <4>1
      <4> QED
        BY <4>1, <4>2
    <3>3. CASE /\ activeSignals' = [activeSignals EXCEPT ![e.route] = NoSignal]
               /\ persisted' = [persisted EXCEPT ![e.route] =
                                  [active |-> FALSE, peak |-> Larger(e.spread, activeSignals[e.route].peak)]]
      <4>1. activeSignals'[r] = NoSignal /\ ~persisted'[r].active
        BY <1>1, <1>8, <2>3, <3>3
      <4> QED
        BY <4>1 DEF NoSignal
    <3> QED
      BY <1>4, <2>3, <3>1, <3>2, <3>3 DEF Tracked
  <2> QED
    BY <2>1, <2>2, <2>3
<1>16. ASSUME NEW r \in Routes \ ignored'
       PROVE  After(r, activeSignals[r], e) = activeSignals'[r]
  <2>1. CASE r # e.route
    BY <1>1, <1>5, <1>14, <2>1, AfterCases
  <2>2. CASE r = e.route
    <3>1. ~Ignored(e)
      BY <1>7, <2>2
    <3>2. CASE e.kind = "OPENED"
      <4>1. s.openedAt = 0
        BY <1>12, <3>1, <3>2 DEF Ignored
      <4>2. activeSignals'[r] = [openedAt |-> e.ts, peak |-> e.spread]
        BY <1>1, <1>4, <1>8, <2>2, <3>1, <3>2 DEF Tracked
      <4> QED
        BY <1>5, <1>9, <1>11, <2>2, <3>2, <4>1, <4>2, AfterCases
    <3>3. CASE e.kind = "UPDATED"
      <4>1. s.openedAt # 0 /\ e.ts >= s.openedAt
        BY <1>13, <3>1, <3>3 DEF Ignored
      <4>2. After(r, s, e) = [openedAt |-> s.openedAt, peak |-> Larger(e.spread, s.peak)]
        BY <1>5, <1>11, <2>2, <3>3, <4>1, AfterCases
      <4>3. CASE e.spread > s.peak
        <5>1. activeSignals'[r] = [openedAt |-> s.openedAt, peak |-> e.spread]
          BY <1>1, <1>4, <1>8, <1>9, <1>10, <2>2, <3>1, <3>3, <4>3 DEF Tracked
        <5> QED
          BY <1>9, <2>2, <4>2, <4>3, <5>1 DEF Larger
      <4>4. CASE ~(e.spread > s.peak)
        <5>1. activeSignals'[r] = s
          BY <1>4, <1>9, <2>2, <3>3, <4>4 DEF Tracked
        <5> QED
          BY <1>9, <1>10, <2>2, <4>2, <4>4, <5>1 DEF Larger
      <4> QED
        BY <4>3, <4>4
    <3>4. CASE e.kind = "CLOSED"
      <4>1. s.openedAt # 0 /\ e.ts >= s.openedAt
        BY <1>13, <3>1, <3>4 DEF Ignored
      <4>2. activeSignals'[r] = NoSignal
        BY <1>1, <1>4, <1>8, <2>2, <3>1, <3>4 DEF Tracked
      <4> QED
        BY <1>5, <1>9, <1>11, <2>2, <3>4, <4>1, <4>2, AfterCases
    <3> QED
      BY <3>2, <3>3, <3>4 DEF Event
  <2> QED
    BY <2>1, <2>2
<1>17. ConvergeInv'
  <2>1. PICK w, j, m : w = pend["worker"] /\ j = pend["janitor"] /\ m = pend["main"]
    OBVIOUS
  <2> SUFFICES ASSUME ~flushTimedOut, NEW r \in Routes \ ignored'
               PROVE  \E g : /\ Walks(r, activeSignals'[r], Tail(c), g)
                             /\ Settles(r, active[r], w, j, m, g[Len(Tail(c)) + 1])
    BY <1>4, <1>6, <2>1 DEF ConvergeInv
  <2>2. PICK d : /\ Walks(r, activeSignals[r], c, d)
                 /\ Settles(r, active[r], w, j, m, d[Len(c) + 1])
    BY <1>2, <1>7, <2>1 DEF TrackInv, ConvergeInv
  <2>3. PICK g : Walks(r, After(r, activeSignals[r], Head(c)), Tail(c), g) /\ g[Len(Tail(c)) + 1] = d[Len(c) + 1]
    BY <1>2, <2>2, WalkTail
  <2> QED
    BY <1>3, <1>16, <2>2, <2>3
<1>18. PhaseInv'
  <2>1. phase # "done"
    BY <1>1 DEF TrackInv, PhaseInv
  <2> QED
    BY <1>6, <2>1 DEF TrackInv, PhaseInv, IsActive
<1>19. EventInv'
  <2>1. \A i \in 1..Len(Tail(c)) : i + 1 \in 1..Len(c) /\ Tail(c)[i] = c[i + 1]
    BY <1>2
  <2>2. \A i \in 1..Len(c) : Sound(c[i])
    BY <1>2 DEF TrackInv, EventInv
  <2> QED
    BY <1>4, <1>6, <2>1, <2>2 DEF TrackInv, EventInv
<1> QED
  BY <1>15, <1>17, <1>18, <1>19 DEF TrackInv

\* Every step keeps the invariant.
LEMMA TrackStep == IInv /\ TrackInv /\ [Next]_vars => TrackInv'
<1> SUFFICES ASSUME IInv, TrackInv, [Next]_vars PROVE TrackInv'
  OBVIOUS
<1>1. CASE TickArrives
  BY <1>1, TickTrack DEF TickArrives
<1>2. CASE Cleanup \/ CloseJanitor \/ FlushTimeout
  BY <1>2, CleanupTrack, FlushTrack, TimeoutTrack DEF Cleanup
<1>3. CASE \E sender \in Senders : SendEvent(sender)
  BY <1>3, SendTrack
<1> QED
  BY <1>1, <1>2, <1>3, QuietTrack, SweepTrack, HandleTrack DEF Next, Terminated

\* Once every event is handled, the tracker and the aggregator agree on a route.
LEMMA HandledAgree ==
    ASSUME IInv, TrackInv, AllHandled, ~flushTimedOut, NEW r \in Routes \ ignored
    PROVE  /\ HasSignal(r) <=> IsActive(r)
           /\ IsActive(r) => activeSignals[r].peak = active[r].peak
<1>1. trackerChan = <<>> /\ pend["worker"] = {} /\ pend["janitor"] = {} /\ pend["main"] = {}
  BY DEF AllHandled, Senders
<1>2. PICK d : /\ Walks(r, activeSignals[r], <<>>, d)
               /\ Settles(r, active[r], {}, {}, {}, d[Len(<<>>) + 1])
  BY <1>1 DEF TrackInv, ConvergeInv
<1>3. Len(<<>>) = 0 /\ 0 + 1 = 1
  OBVIOUS
<1>4. Settles(r, active[r], {}, {}, {}, activeSignals[r])
  BY <1>2, <1>3 DEF Walks
<1>5. activeSignals[r] \in Signal /\ Outbox({}) /\ ~Holds({}, r)
  BY DEF IInv, TypeOK, Outbox, Holds
<1>6. Sent({}, r, activeSignals[r]) = activeSignals[r]
  BY <1>5, SentCases
<1>7. Matches(active[r], activeSignals[r])
  BY <1>4, <1>6 DEF Settles
<1>8. activeSignals[r].openedAt = 0 => activeSignals[r] = NoSignal
  BY DEF TrackInv, SnapshotInv
<1>9. activeSignals[r] # Lost
  BY <1>8 DEF Lost, NoSignal
<1> QED
  BY <1>7, <1>9 DEF Matches, HasSignal, IsActive, NoSignal

\* The types, the fresh routes and the path of every event, for every state.
LEMMA AlwaysTracked == Spec => [](IInv /\ TrackInv)
<1>1. Init => IInv /\ TrackInv
  BY InitHolds, TrackInit
<1>2. IInv /\ TrackInv /\ [Next]_vars => IInv' /\ TrackInv'
  BY NextStep, TrackStep
<1> QED
  BY <1>1, <1>2, PTL DEF Spec

\* A controlled shutdown leaves no active row, however the janitor, the worker
\* and the flush got their events into the channel, unless the flush timed out
\* or the tracker ignored an event of the route.
THEOREM ShutdownClosesRows == Spec => []NoActiveRowAfterShutdown
<1>1. IInv /\ TrackInv => NoActiveRowAfterShutdown
  <2> SUFFICES ASSUME IInv, TrackInv, phase = "done", ~flushTimedOut, NEW r \in Routes \ ignored
               PROVE  ~persisted[r].active
    BY DEF NoActiveRowAfterShutdown
  <2>1. AllHandled /\ ~IsActive(r)
    BY DEF TrackInv, PhaseInv, AllHandled, Senders
  <2>2. ~HasSignal(r)
    BY <2>1, HandledAgree
  <2> QED
    BY <2>2 DEF HasSignal, TrackInv, SnapshotInv
<1> QED
  BY <1>1, AlwaysTracked, PTL

\* No peak is lost: once every event is handled, an open signal and its database
\* row carry the aggregator's peak, unless an event of the route was ignored.
THEOREM PeaksAgree == Spec => []PeakAgrees
<1>1. IInv /\ TrackInv => PeakAgrees
  <2> SUFFICES ASSUME IInv, TrackInv, AllHandled, NEW r \in Routes \ ignored, IsActive(r), HasSignal(r)
               PROVE  /\ activeSignals[r].peak = active[r].peak
                      /\ persisted[r] = [active |-> TRUE, peak |-> active[r].peak]
    BY DEF PeakAgrees
  <2>1. ~flushTimedOut
    BY DEF IInv, TypeOK, TrackInv, PhaseInv
  <2>2. activeSignals[r].peak = active[r].peak
    BY <2>1, HandledAgree
  <2> QED
    BY <2>2 DEF TrackInv, SnapshotInv, HasSignal
<1> QED
  BY <1>1, AlwaysTracked, PTL

\* The tracker follows the aggregator, for any order of ticks and sends and any
\* time-to-live of a route, but for routes of which it ignored an event.
THEOREM TrackerFollowsAggregator == Spec => []TrackerFollows
<1>1. IInv /\ TrackInv => TrackerFollows
  BY HandledAgree DEF TrackerFollows
<1> QED
  BY <1>1, AlwaysTracked, PTL

=============================================================================
