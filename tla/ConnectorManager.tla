-------------------------- MODULE ConnectorManager --------------------------
(***************************************************************************)
(* The connectors and their manager, composed with the tick path: admin    *)
(* commands add, replace and remove connectors while ticks flow, and the   *)
(* application's cleanup stops everything in its order, although a         *)
(* connector may ignore its cancellation for longer than the stop timeout. *)
(***************************************************************************)
EXTENDS Ingress

CONSTANT Workers   \* the bot's command workers that run an admin command

NoConnector == 0
ASSUME ConnectorAssumption ==
    /\ NoConnector \notin Connectors /\ Connectors \subseteq Nat
    /\ "free" \notin Workers

VARIABLES
    entries,     \* ConnectorManager.entries: [exchange |-> connector]
    mgrStopped,  \* ConnectorManager.stopped
    lifecycle,   \* who holds lifecycleMu
    connector,   \* [connector |-> its exchange, cancellation and life]
    command,     \* [worker |-> where its AddConnector or RemoveConnector stands]
    cleanup,     \* where the application's cleanup stands
    stopping,    \* the connectors StopAll took over and still waits for
    stopErr      \* StopAll returned an error (first # nil)

managerVars == <<entries, mgrStopped, lifecycle, connector, command, cleanup, stopping, stopErr>>
vars == <<ingressVars, managerVars>>

NoCommand == [pc |-> "idle", op |-> "none", e |-> CHOOSE e \in Exchanges : TRUE]
Unborn == [e |-> CHOOSE e \in Exchanges : TRUE, life |-> "unborn", cancelled |-> FALSE]
Running(e) == [e |-> e, life |-> "running", cancelled |-> FALSE]

\* Run has started one connector per exchange.
Init ==
    /\ IngressInit
    /\ \E first \in [Exchanges -> Connectors] :
        /\ \A d, e \in Exchanges : d # e => first[d] # first[e]
        /\ \A e \in Exchanges, c \in Connectors : c < first[e] => \E d \in Exchanges : first[d] = c
        /\ entries = first
        /\ connector = [c \in Connectors |->
                            IF \E e \in Exchanges : first[e] = c
                            THEN Running(CHOOSE e \in Exchanges : first[e] = c) ELSE Unborn]
    /\ mgrStopped = FALSE /\ lifecycle = "free"
    /\ command = [w \in Workers |-> NoCommand]
    /\ cleanup = "running" /\ stopping = {} /\ stopErr = FALSE

-----------------------------------------------------------------------------
(* Connectors. *)

\* A connector's streams submit a tick; also after its cancellation, until they
\* notice it.
Produce(c) ==
    /\ connector[c].life = "running"
    /\ \E m \in Markets : SubmitLoad(<<c, m>>, <<connector[c].e, m>>)
    /\ UNCHANGED managerVars

SubmitStep(c) ==
    /\ \E m \in Markets : SubmitStore(<<c, m>>) \/ SubmitNotify(<<c, m>>)
    /\ UNCHANGED managerVars

\* All its streams have returned: wg.Wait returns and stopped is closed.
ConnectorReturns(c) ==
    /\ connector[c].life = "running" /\ connector[c].cancelled
    /\ \A m \in Markets : submitting[<<c, m>>].pc = "idle"
    /\ connector' = [connector EXCEPT ![c].life = "ended"]
    /\ UNCHANGED <<ingressVars, entries, mgrStopped, lifecycle, command, cleanup, stopping, stopErr>>

\* The identity of the next connector to start.
Fresh == {c \in Connectors : connector[c].life = "unborn" /\ \A d \in Connectors :
                                connector[d].life = "unborn" => c <= d}

-----------------------------------------------------------------------------
(* AddConnector and RemoveConnector. *)

SetCommand(w, r) == command' = [command EXCEPT ![w] = r]
Finish(w) == SetCommand(w, NoCommand) /\ lifecycle' = "free"

\* lifecycleMu is taken for the whole call; a stopped manager refuses, and so
\* does RemoveConnector without an entry. An old connector is cancelled first.
BeginCommand(w, op, e) ==
    /\ command[w].pc = "idle" /\ lifecycle = "free"
    /\ ~mgrStopped
    /\ entries[e] = NoConnector => op = "add" /\ Fresh # {}
    /\ LET old == entries[e]
       IN  IF old = NoConnector
           THEN /\ SetCommand(w, [pc |-> "start", op |-> op, e |-> e])
                /\ UNCHANGED connector
           ELSE /\ SetCommand(w, [pc |-> "stop", op |-> op, e |-> e])
                /\ connector' = [connector EXCEPT ![old].cancelled = TRUE]
    /\ lifecycle' = w
    /\ UNCHANGED <<ingressVars, entries, mgrStopped, cleanup, stopping, stopErr>>

\* Mutation of StopOld: after the timeout the replacement starts all the same.
StopOldImpatient(w) ==
    LET k == command[w]
    IN  /\ k.pc = "stop"
        /\ entries' = [entries EXCEPT ![k.e] = NoConnector]
        /\ IF k.op = "add" /\ Fresh # {}
           THEN SetCommand(w, [k EXCEPT !.pc = "start"]) /\ UNCHANGED lifecycle
           ELSE Finish(w)
        /\ UNCHANGED <<ingressVars, mgrStopped, connector, cleanup, stopping, stopErr>>

\* connectorEntry.stop: the old connector has returned and its entry goes, or the
\* timeout passes, its entry stays and the call fails.
StopOld(w) ==
    LET k   == command[w]
        old == entries[k.e]
    IN  /\ k.pc = "stop"
        /\ \/ /\ connector[old].life = "ended"
              /\ entries' = [entries EXCEPT ![k.e] = NoConnector]
              /\ IF k.op = "add" /\ Fresh # {}
                 THEN SetCommand(w, [k EXCEPT !.pc = "start"]) /\ UNCHANGED lifecycle
                 ELSE Finish(w)
           \/ /\ connector[old].life = "running"
              /\ Finish(w)
              /\ UNCHANGED entries
        /\ UNCHANGED <<ingressVars, mgrStopped, connector, cleanup, stopping, stopErr>>

\* newConnectorEntry: the streams start and the entry is recorded.
StartNew(w) ==
    LET k == command[w]
    IN  /\ k.pc = "start"
        /\ \E c \in Fresh :
            /\ connector' = [connector EXCEPT ![c] = Running(k.e)]
            /\ entries' = [entries EXCEPT ![k.e] = c]
        /\ Finish(w)
        /\ UNCHANGED <<ingressVars, mgrStopped, cleanup, stopping, stopErr>>

-----------------------------------------------------------------------------
(* The application's cleanup, up to the ingestion workers' end. *)

SetCleanup(from, to) == cleanup = from /\ cleanup' = to

\* StopAll: under lifecycleMu the manager is stopped and its entries are taken;
\* then all of them are cancelled.
StopAllBegin ==
    /\ SetCleanup("running", "stopall")
    /\ lifecycle = "free"
    /\ mgrStopped' = TRUE
    /\ stopping' = {entries[e] : e \in Exchanges} \ {NoConnector}
    /\ connector' = [c \in Connectors |->
                        [connector[c] EXCEPT !.cancelled = @ \/ c \in stopping']]
    /\ entries' = [e \in Exchanges |-> NoConnector]
    /\ UNCHANGED <<ingressVars, lifecycle, command, stopErr>>

\* Mutation of StopAllWait: there is no timeout.
StopAllWaitPatient(c) ==
    /\ cleanup = "stopall" /\ c \in stopping
    /\ connector[c].life = "ended"
    /\ stopping' = stopping \ {c}
    /\ UNCHANGED <<ingressVars, entries, mgrStopped, lifecycle, connector, command, cleanup, stopErr>>

\* Each connector returns or its timeout passes, which is the error StopAll
\* reports.
StopAllWait(c) ==
    /\ cleanup = "stopall" /\ c \in stopping
    /\ stopping' = stopping \ {c}
    /\ stopErr' = (stopErr \/ connector[c].life = "running")
    /\ UNCHANGED <<ingressVars, entries, mgrStopped, lifecycle, connector, command, cleanup>>

\* DrainAndStop, first part: the state (a new one, if no tick ever came) is
\* stopped.
DrainStop ==
    /\ SetCleanup("stopall", "draining") /\ stopping = {}
    /\ \E s \in States :
        /\ LoadOrStore(s)
        /\ stopped' = [stopped EXCEPT ![s] = TRUE]
    /\ UNCHANGED <<latest, notify, done, submitting, submitted, tickChan, panicked, dispatchVars,
                   stopVars, entries, mgrStopped, lifecycle, connector, command, stopping, stopErr>>

\* Second part: what is pending is discarded and done is closed.
DrainClear ==
    /\ SetCleanup("draining", "drained")
    /\ latest' = [latest EXCEPT ![registered] = [e \in Keys |-> 0]]
    /\ done' = [done EXCEPT ![registered] = TRUE]
    /\ UNCHANGED <<registered, created, notify, stopped, runner, submitting, submitted, tickChan,
                   panicked, dispatchVars, stopVars, entries, mgrStopped, lifecycle, connector,
                   command, stopping, stopErr>>

\* runDone: the run goroutine has ended. Then ingestionStop, dispatchStop and
\* tickChan are closed.
CloseQueues ==
    /\ SetCleanup("drained", "closed")
    /\ runner[registered].pc = "ended"
    /\ ingestionStop' = TRUE /\ dispatchStop' = TRUE /\ tickClosed' = TRUE
    /\ UNCHANGED <<registered, created, stateVars, submitting, submitted, tickChan, panicked,
                   dispatchVars, entries, mgrStopped, lifecycle, connector, command, stopping,
                   stopErr>>

\* Mutation of ForgetState: also after StopAll timed out on a connector.
ForgetAlways ==
    /\ SetCleanup("closed", "done")
    /\ dispatcher.pc = "ended" /\ worker.pc = "ended"
    /\ registered' = 0
    /\ UNCHANGED <<created, stateVars, submitting, submitted, tickChan, panicked, dispatchVars,
                   stopVars, entries, mgrStopped, lifecycle, connector, command, stopping, stopErr>>

\* ingestionWg.Wait, then Forget, only if every connector is known to be gone.
ForgetState ==
    /\ SetCleanup("closed", "done")
    /\ dispatcher.pc = "ended" /\ worker.pc = "ended"
    /\ registered' = IF stopErr THEN registered ELSE 0
    /\ UNCHANGED <<created, stateVars, submitting, submitted, tickChan, panicked, dispatchVars,
                   stopVars, entries, mgrStopped, lifecycle, connector, command, stopping, stopErr>>

-----------------------------------------------------------------------------
TickStep ==
    /\ \/ \E s \in States : RunSelect(s) \/ FlushNext(s) \/ FlushSend(s)
       \/ DispatchTake \/ DispatchPush \/ WorkerTake \/ WorkerProcess
    /\ UNCHANGED managerVars

CleanupStep ==
    \/ StopAllBegin \/ (\E c \in Connectors : StopAllWait(c)) \/ DrainStop \/ DrainClear
    \/ CloseQueues \/ ForgetState

CommandStep(w) ==
    StopOld(w) \/ StartNew(w) \/ \E op \in {"add", "remove"}, e \in Exchanges : BeginCommand(w, op, e)

Next ==
    \/ TickStep \/ CleanupStep
    \/ \E c \in Connectors : Produce(c) \/ SubmitStep(c) \/ ConnectorReturns(c)
    \/ \E w \in Workers : CommandStep(w)

\* Every goroutine of the tick path runs; timers end the waits for a connector;
\* a call that holds lifecycleMu ends, and cleanup, waiting for it, gets it. No
\* tick, command or shutdown has to come, and a connector need not obey.
Fairness ==
    /\ WF_vars(TickStep)
    /\ \A c \in Connectors : WF_vars(SubmitStep(c))
    /\ \A w \in Workers : WF_vars(StopOld(w) \/ StartNew(w))
    /\ WF_vars(cleanup # "running" /\ CleanupStep)

Spec == Init /\ [][Next]_vars /\ Fairness

-----------------------------------------------------------------------------
(* Properties. *)

\* Type correctness of the coalescers, the connectors, the manager and Run; the
\* channels respect their capacities.
TypeOK ==
    /\ registered \in 0..created /\ created \in 0..2
    /\ latest \in [States -> [Keys -> Ticks]]
    /\ \A s \in States : runner[s].pc \in {"none", "idle", "flush", "send", "ended"}
    /\ \A c \in Streams : submitting[c].pc \in {"idle", "loaded", "stored"}
    /\ \A c \in Connectors : connector[c].life \in {"unborn", "running", "ended"}
    /\ submitted \in [Keys -> Ticks] /\ delivered \in [Keys -> Ticks]
    /\ Len(tickChan) <= TickCap /\ Len(queue) <= QueueCap
    /\ entries \in [Exchanges -> Connectors \cup {NoConnector}]
    /\ lifecycle \in Workers \cup {"free"}
    /\ stopping \subseteq Connectors
    /\ cleanup \in {"running", "stopall", "draining", "drained", "closed", "done"}

\* No goroutine ever sends into the closed tick channel, although a connector
\* that outlived its stop timeout may still call Submit: it finds the stopped
\* state, because a state is forgotten only when no connector is left
\* (ingress/latest.go:25, the comment on the registry).
NeverSendsToClosed == ~panicked /\ (tickClosed => \A s \in States : runner[s].pc # "send")

\* At most one connector of an exchange is alive, replacements and timeouts
\* included (connector_manager.go:209), and every one that is alive can still be
\* stopped: it is registered, or StopAll has taken it over and cancelled it.
ConnectorsSupervised ==
    \A c \in Connectors : connector[c].life = "running" =>
        /\ c = entries[connector[c].e] \/ (mgrStopped /\ connector[c].cancelled)
        /\ \A d \in Connectors \ {c} : connector[d].life = "running" => connector[c].e # connector[d].e

\* The aggregator sees the ticks of an exchange in the order of their Submit
\* calls: coalescing skips ticks but neither repeats nor reorders them, across
\* the replacement of a connector too.
DeliveredInOrder == [][\A k \in Keys : delivered'[k] >= delivered[k]]_delivered

\* Nothing is lost but what a newer tick replaces: the newest tick of an exchange
\* reaches the aggregator, although notifications are coalesced, or the
\* application stops.
NewestArrives ==
    \A k \in Keys : \A t \in 1..MaxTicks :
        submitted[k] = t ~> (delivered[k] >= t \/ cleanup # "running")

\* Cleanup gets to its end whatever the connectors and the queues do: nothing in
\* it waits for a full queue or for a connector without a timeout.
CleanupCompletes == cleanup # "running" ~> cleanup = "done"
=============================================================================
