-------------------------- MODULE SignalLifecycle --------------------------
(***************************************************************************)
(* The signal engine of one symbol, end to end: the ingestion worker and   *)
(* the janitor change the aggregator under the shard lock and send the     *)
(* resulting events to trackerChan after the unlock; the one tracker       *)
(* worker turns them into signals and database snapshots; the cleanup of   *)
(* Application.Run stops them in order and flushes.                        *)
(***************************************************************************)
EXTENDS Aggregator, Sequences

CONSTANTS
    MaxSendDelay, \* bound: how long an event of the worker may wait for its send
    MaxLag,       \* bound: how late the worker may process a received tick
    ChanCap,      \* capacity of trackerChan
    InitialMin,   \* HARD_MIN_SPREAD at start
    HardMins,     \* the values an administrator may send with /sethardspread
    FilterSets,   \* the sets of routes the user and volume filters may admit
    EventTimes,   \* the event times a funding update may carry; 0 is none
    StreamEvents  \* bound: funding updates and stream losses

ASSUME LifecycleAssumption ==
    /\ MaxLag \in Nat /\ MaxSendDelay \in Nat /\ StreamEvents \in Nat /\ ChanCap \in Nat \ {0}
    /\ InitialMin \in Nat \ {0} /\ HardMins \subseteq Nat \ {0}
    /\ FilterSets \subseteq SUBSET Routes
    /\ EventTimes \subseteq Time

VARIABLES
    pend,           \* events computed under the lock and not yet sent, per sender
    trackerChan,    \* the channel to the tracker
    activeSignals,  \* Tracker.activeSignals, by route
    persisted,      \* the last snapshot given to persistence, by route
    jpc,            \* the janitor goroutine: "wait" or "sweep"
    command,        \* 0, or the /sethardspread value between its two updates
    phase,          \* Run: "run", "janitorStop", "workersStop", "flush", "drain", "done"
    flushTimedOut,  \* the 10s budget of the shutdown flush ran out
    streamEvents,   \* funding updates and losses so far
    ignored         \* history: routes of which the tracker has ignored an event

trackerVars == <<activeSignals, persisted>>
aggregatorVars == <<shardVars, eligible, hardMin>>
vars == <<clock, fundingVars, aggregatorVars, pend, trackerChan, trackerVars,
          jpc, command, phase, flushTimedOut, streamEvents, ignored>>

Senders == {"worker", "janitor", "main"}
Signal == [openedAt : Time, peak : Int]
NoSignal == [openedAt |-> 0, peak |-> 0]
HasSignal(r) == activeSignals[r].openedAt # 0
Row == [active : BOOLEAN, peak : Int]

-----------------------------------------------------------------------------
(* Time, funding streams, operator *)

Advance ==
    /\ clock < MaxTime
    /\ \A e \in pend["worker"] : clock < e.ts + MaxSendDelay
    /\ clock' = clock + 1
    /\ UNCHANGED <<fundingVars, aggregatorVars, pend, trackerChan, trackerVars,
                   jpc, command, phase, flushTimedOut, streamEvents, ignored>>

StreamFrame ==
    /\ phase \in {"run", "janitorStop"}
    /\ streamEvents < StreamEvents
    /\ streamEvents' = streamEvents + 1
    /\ UNCHANGED <<clock, aggregatorVars, pend, trackerChan, trackerVars,
                   jpc, command, phase, flushTimedOut, ignored>>

FundingArrives(e) ==
    /\ \E rate \in FundingRates, known \in BOOLEAN, event \in {t \in EventTimes : t <= clock} :
          UpdateFunding(e, rate, known, event)
    /\ StreamFrame

FundingStreamEnds(e) ==
    /\ health[e]
    /\ StreamLost(e)
    /\ StreamFrame

\* /sethardspread: first the funding threshold, then the configuration.
HardSpreadCommand(v) ==
    /\ phase = "run"
    /\ command = 0
    /\ UpdateConfig(v)
    /\ command' = v
    /\ UNCHANGED <<clock, aggregatorVars, pend, trackerChan, trackerVars,
                   jpc, phase, flushTimedOut, streamEvents, ignored>>

HardSpreadApplied ==
    /\ command # 0
    /\ SetHardMinSpread(command)
    /\ command' = 0
    /\ UNCHANGED <<clock, fundingVars, pend, trackerChan, trackerVars,
                   jpc, phase, flushTimedOut, streamEvents, ignored>>

FiltersStep(routes) ==
    /\ phase = "run"
    /\ eligible # routes
    /\ FiltersChange(routes)
    /\ UNCHANGED <<clock, fundingVars, pend, trackerChan, trackerVars,
                   jpc, command, phase, flushTimedOut, streamEvents, ignored>>

-----------------------------------------------------------------------------
(* The ingestion worker and the janitor *)

\* ingestionWorker takes the next tick once the previous one's events are sent.
\* The ingress delivers the ticks of different feeds in any order, so the tick
\* may have been received up to MaxLag before the worker gets to it.
WorkerTick(f, q, at) ==
    /\ phase \in {"run", "janitorStop", "workersStop"}
    /\ pend["worker"] = {}
    /\ at >= clock - MaxLag
    /\ ProcessTick(f, q, at)
    /\ pend' = [pend EXCEPT !["worker"] = EventsOfTick(f, q, at)]
    /\ UNCHANGED <<clock, fundingVars, trackerChan, trackerVars,
                   jpc, command, phase, flushTimedOut, streamEvents, ignored>>

JanitorEvicts ==
    /\ phase \in {"run", "janitorStop"}
    /\ jpc = "wait"
    /\ pend["janitor"] = {}
    /\ EvictStale
    /\ jpc' = "sweep"
    /\ UNCHANGED <<clock, aggregatorVars, pend, trackerChan, trackerVars,
                   command, phase, flushTimedOut, streamEvents, ignored>>

JanitorSweeps ==
    /\ jpc = "sweep"
    /\ Janitor
    /\ pend' = [pend EXCEPT !["janitor"] = JanitorEvents]
    /\ jpc' = "wait"
    /\ UNCHANGED <<clock, fundingVars, trackerChan, trackerVars,
                   command, phase, flushTimedOut, streamEvents, ignored>>

\* sendEvent (and the flush loop of cleanup): blocks while the channel is full.
\* The events of one sender are about distinct routes and come out of a map, so
\* they leave in any order.
SendEvent(sender) ==
    /\ Len(trackerChan) < ChanCap
    /\ \E e \in pend[sender] :
          /\ trackerChan' = Append(trackerChan, e)
          /\ pend' = [pend EXCEPT ![sender] = @ \ {e}]
    /\ UNCHANGED <<clock, fundingVars, aggregatorVars, trackerVars,
                   jpc, command, phase, flushTimedOut, streamEvents, ignored>>

-----------------------------------------------------------------------------
(* Tracker.HandleEvent *)

Larger(a, b) == IF a > b THEN a ELSE b

\* SignalOpened: only a route without a signal gets one.
OnOpened(e) ==
    IF HasSignal(e.route)
    THEN UNCHANGED trackerVars
    ELSE /\ activeSignals' = [activeSignals EXCEPT ![e.route] = [openedAt |-> e.ts, peak |-> e.spread]]
         /\ persisted' = [persisted EXCEPT ![e.route] = [active |-> TRUE, peak |-> e.spread]]

\* An event that is older than the signal it meets is ignored.
Applies(e) == HasSignal(e.route) /\ e.ts >= activeSignals[e.route].openedAt

\* Mutation of OnUpdated: a new peak is not persisted.
UpdateInMemory(e) ==
    /\ activeSignals' = [activeSignals EXCEPT ![e.route].peak =
                            IF Applies(e) THEN Larger(e.spread, @) ELSE @]
    /\ UNCHANGED persisted

\* SignalUpdated: a new peak is persisted and offered as an update.
OnUpdated(e) ==
    IF Applies(e) /\ e.spread > activeSignals[e.route].peak
    THEN /\ activeSignals' = [activeSignals EXCEPT ![e.route].peak = e.spread]
         /\ persisted' = [persisted EXCEPT ![e.route].peak = e.spread]
    ELSE UNCHANGED trackerVars

\* SignalClosed: Update, Close, remove, persist, notify.
OnClosed(e) ==
    IF Applies(e)
    THEN /\ activeSignals' = [activeSignals EXCEPT ![e.route] = NoSignal]
         /\ persisted' = [persisted EXCEPT ![e.route] =
                [active |-> FALSE, peak |-> Larger(e.spread, activeSignals[e.route].peak)]]
    ELSE UNCHANGED trackerVars

\* An event without effect: an OPENED for an open signal, any other one without a
\* signal or older than it.
Ignored(e) == IF e.kind = "OPENED" THEN HasSignal(e.route) ELSE ~Applies(e)

HandleEvent ==
    /\ trackerChan # <<>>
    /\ LET e == Head(trackerChan) IN
          CASE e.spread < 0       -> UNCHANGED trackerVars
            [] e.spread >= 0 /\ e.kind = "OPENED"  -> OnOpened(e)
            [] e.spread >= 0 /\ e.kind = "UPDATED" -> OnUpdated(e)
            [] e.spread >= 0 /\ e.kind = "CLOSED"  -> OnClosed(e)
    /\ trackerChan' = Tail(trackerChan)
    /\ ignored' = ignored \cup {e.route : e \in {x \in {Head(trackerChan)} : Ignored(x)}}
    /\ UNCHANGED <<clock, fundingVars, aggregatorVars, pend,
                   jpc, command, phase, flushTimedOut, streamEvents>>

-----------------------------------------------------------------------------
(* cleanup of Application.Run *)

CleanupFrame == UNCHANGED <<clock, fundingVars, trackerVars, jpc, command, streamEvents, ignored>>

\* close(janitorStop); janitorWg.Wait() is the guard of the next step.
CloseJanitor ==
    /\ phase = "run"
    /\ phase' = "janitorStop"
    /\ UNCHANGED <<aggregatorVars, pend, trackerChan, flushTimedOut>>
    /\ CleanupFrame

\* Mutation of StopWorkers: cleanup does not wait for the janitor.
StopWithoutJanitorWait ==
    /\ phase = "janitorStop"
    /\ phase' = "workersStop"
    /\ UNCHANGED <<aggregatorVars, pend, trackerChan, flushTimedOut>>
    /\ CleanupFrame

\* Mutation of StopWorkers: an error of StopAll ends cleanup.
StopAllErrorReturns ==
    /\ phase = "janitorStop"
    /\ jpc = "wait" /\ pend["janitor"] = {}
    /\ UNCHANGED <<phase, aggregatorVars, pend, trackerChan, flushTimedOut>>
    /\ CleanupFrame

\* StopAll, DrainAndStop, close(ingestionStop).
StopWorkers ==
    /\ phase = "janitorStop"
    /\ jpc = "wait" /\ pend["janitor"] = {}
    /\ phase' = "workersStop"
    /\ UNCHANGED <<aggregatorVars, pend, trackerChan, flushTimedOut>>
    /\ CleanupFrame

\* ingestionWg.Wait() has returned: FlushActive.
FlushRoutes ==
    /\ phase = "workersStop"
    /\ pend["worker"] = {}
    /\ FlushActive
    /\ pend' = [pend EXCEPT !["main"] = FlushEvents]
    /\ phase' = "flush"
    /\ UNCHANGED <<trackerChan, flushTimedOut>>
    /\ CleanupFrame

\* The 10s flush budget runs out: the events that are left are not sent.
FlushTimeout ==
    /\ phase = "flush"
    /\ pend["main"] # {}
    /\ pend' = [pend EXCEPT !["main"] = {}]
    /\ flushTimedOut' = TRUE
    /\ UNCHANGED <<aggregatorVars, trackerChan, phase>>
    /\ CleanupFrame

\* Mutation of CloseTrackerChan: the channel is closed before the flush is in.
CloseChanEarly ==
    /\ phase = "flush"
    /\ phase' = "drain"
    /\ UNCHANGED <<aggregatorVars, pend, trackerChan, flushTimedOut>>
    /\ CleanupFrame

\* close(trackerChan) after the last flushed event is in.
CloseTrackerChan ==
    /\ phase = "flush"
    /\ pend["main"] = {}
    /\ phase' = "drain"
    /\ UNCHANGED <<aggregatorVars, pend, trackerChan, flushTimedOut>>
    /\ CleanupFrame

\* trackerWg.Wait() has returned.
TrackerDone ==
    /\ phase = "drain"
    /\ trackerChan = <<>>
    /\ phase' = "done"
    /\ UNCHANGED <<aggregatorVars, pend, trackerChan, flushTimedOut>>
    /\ CleanupFrame

Terminated == phase = "done" /\ UNCHANGED vars

-----------------------------------------------------------------------------
Init ==
    /\ clock = 1
    /\ FundingInit
    /\ minSpread = InitialMin
    /\ AggregatorInit
    /\ hardMin = InitialMin
    /\ pend = [s \in Senders |-> {}]
    /\ trackerChan = <<>>
    /\ activeSignals = [r \in Routes |-> NoSignal]
    /\ persisted = [r \in Routes |-> [active |-> FALSE, peak |-> 0]]
    /\ jpc = "wait"
    /\ command = 0
    /\ phase = "run"
    /\ flushTimedOut = FALSE
    /\ streamEvents = 0
    /\ ignored = {}

TickArrives == \E f \in Feeds, q \in Quotes, at \in 1..clock : WorkerTick(f, q, at)

Cleanup == StopWorkers \/ FlushRoutes \/ CloseTrackerChan \/ TrackerDone

Next ==
    \/ Advance
    \/ \E e \in Exchanges : FundingArrives(e) \/ FundingStreamEnds(e)
    \/ \E v \in HardMins : HardSpreadCommand(v)
    \/ HardSpreadApplied
    \/ \E routes \in FilterSets : FiltersStep(routes)
    \/ TickArrives
    \/ JanitorEvicts
    \/ JanitorSweeps
    \/ \E sender \in Senders : SendEvent(sender)
    \/ HandleEvent
    \/ CloseJanitor
    \/ Cleanup
    \/ FlushTimeout
    \/ Terminated

Spec == Init /\ [][Next]_vars

(* The goroutines run: a ready send, the tracker, a janitor sweep that has  *)
(* begun and the cleanup sequence are not delayed forever. After            *)
(* close(ingestionStop) a worker may still prefer a ready tick in its       *)
(* select, but not forever: hence strong fairness of the flush, and of      *)
(* leaving the janitor loop.                                                *)
FairSpec ==
    /\ Spec
    /\ \A sender \in Senders : SF_vars(SendEvent(sender))
    /\ WF_vars(HandleEvent)
    /\ WF_vars(JanitorSweeps)
    /\ SF_vars(StopWorkers)
    /\ SF_vars(FlushRoutes)
    /\ WF_vars(CloseTrackerChan)
    /\ WF_vars(TrackerDone)

-----------------------------------------------------------------------------
(* Properties *)

\* Type correctness of the whole engine; the channel respects its capacity.
TypeOK ==
    /\ clock \in 1..MaxTime
    /\ rates \in [Exchanges -> FundingRecord]
    /\ health \in [Exchanges -> BOOLEAN]
    /\ minSpread \in HardMins \cup {InitialMin}
    /\ prices \in [Exchanges \X Markets -> PriceState]
    /\ active \in [Routes -> RouteState]
    /\ eligible \subseteq Routes
    /\ hardMin \in HardMins \cup {InitialMin}
    /\ lastNow \in Time
    /\ pend \in [Senders -> SUBSET Event]
    /\ trackerChan \in Seq(Event) /\ Len(trackerChan) <= ChanCap
    /\ activeSignals \in [Routes -> Signal]
    /\ persisted \in [Routes -> Row]
    /\ jpc \in {"wait", "sweep"}
    /\ command \in HardMins \cup {0}
    /\ phase \in {"run", "janitorStop", "workersStop", "flush", "drain", "done"}
    /\ flushTimedOut \in BOOLEAN
    /\ streamEvents \in 0..StreamEvents
    /\ ignored \subseteq Routes

\* Every active route was observed by the last processed tick of the symbol,
\* with both legs fresh at that tick: no tick leaves a route behind with a
\* stale or future leg (the close loop of ProcessTick).
NoForgottenRoute ==
    \A r \in Routes : IsActive(r) =>
        /\ active[r].ts = lastNow
        /\ \A leg \in {BuyLeg(prices, r), SellLeg(prices, r)} :
              leg = NoPrice \/ (leg.at <= lastNow /\ lastNow - leg.at <= PriceTTL)

\* Every event that was computed has been handled by the tracker.
AllHandled == trackerChan = <<>> /\ \A s \in Senders : pend[s] = {}

\* The tracker follows the aggregator: once every event is handled it has a
\* signal for exactly the active routes, whatever the order in which late ticks
\* were processed and worker, janitor and cleanup got their events out. Nothing is
\* said of a route of which the tracker has ignored an event, in one of two ways:
\* a late tick's CLOSED is older than the signal, which then stays without a
\* route; or the OPENED of the worker overtakes the janitor's CLOSED, is refused
\* as a duplicate, and the CLOSED then leaves the route without a signal.
TrackerFollows ==
    AllHandled /\ ~flushTimedOut => \A r \in Routes \ ignored : HasSignal(r) <=> IsActive(r)

\* Once every event is handled an open signal and its database snapshot carry
\* the aggregator's peak: no UPDATED event was lost or overtaken.
PeakAgrees ==
    AllHandled => \A r \in Routes \ ignored : IsActive(r) /\ HasSignal(r) =>
        activeSignals[r].peak = active[r].peak /\ persisted[r] = [active |-> TRUE, peak |-> active[r].peak]

\* A controlled shutdown leaves no active row (FlushActive), unless its flush
\* timed out or the tracker has ignored an event of the route.
NoActiveRowAfterShutdown ==
    phase = "done" /\ ~flushTimedOut => \A r \in Routes \ ignored : ~persisted[r].active

\* What the comment on FlushActive says without that exception: no active row
\* survives "merely because the process stopped" (sharded_aggregator.go:178).
ShutdownLeavesNoActiveRow ==
    phase = "done" /\ ~flushTimedOut => \A r \in Routes : ~persisted[r].active

\* The exchange has a complete record that is at most FundingMaxAge old, and a
\* live stream that will renew it.
FundingKnown(e, now) ==
    health[e] /\ rates[e].nextKnown /\ rates[e].at # 0 /\ now - rates[e].at <= FundingMaxAge

\* After a tick every active route has valid funding records behind it:
\* funding is fail-closed for routes that were already open too.
FundingFailClosed ==
    [][\/ \A r \in Routes : active'[r].ts # 0 =>
            /\ FundingKnown(r[2], lastNow')
            /\ ~Intra(r) => FundingKnown(r[1], lastNow')
       \/ ~TickArrives]_vars

\* Cleanup always reaches its end: every sender gets its events out, the
\* tracker drains the channel and nobody waits for anybody forever.
ShutdownCompletes == (phase = "janitorStop") ~> (phase = "done")
=============================================================================
