------------------------------ MODULE Ingress ------------------------------
(***************************************************************************)
(* The way of a market tick from an adapter to the aggregator: the         *)
(* coalescer of internal/ingress, which keeps the latest tick of every     *)
(* key, the tick channel, the dispatcher and the ingestion workers.        *)
(*                                                                         *)
(* One symbol: a key is an exchange and a market, and all the ticks go to  *)
(* one ingestion queue (the symbol's hash selects it). The ticks of a key  *)
(* are numbered in the order of their Submit calls. A producer is the      *)
(* stream of a market of a connector (see ConnectorManager). A coalescer   *)
(* state is registered for the tick channel by the first caller that finds *)
(* none; there is a second one only if the first has been forgotten.       *)
(***************************************************************************)
EXTENDS Integers, Sequences, FiniteSets, Functions

CONSTANTS
    Exchanges,    \* the exchanges
    Markets,      \* the markets; an exchange and a market are a key
    Connectors,   \* identities of connectors
    TickCap,      \* capacity of tickChan
    QueueCap,     \* capacity of an ingestion queue
    MaxTicks      \* bound: ticks submitted

ASSUME IngressAssumption ==
    /\ TickCap \in Nat \ {0} /\ QueueCap \in Nat \ {0} /\ MaxTicks \in Nat
    /\ Exchanges # {} /\ Markets # {}

States == {1, 2}
Ticks == 0..MaxTicks   \* 0: no tick
Keys == Exchanges \X Markets
Streams == Connectors \X Markets

VARIABLES
    registered,   \* the registry's state of the tick channel, 0 if none
    created,      \* number of states created
    latest,       \* [state |-> [key |-> the pending tick]]
    notify,       \* [state |-> a token is in its notify channel]
    stopped,      \* [state |-> state.stopped]
    done,         \* [state |-> its done channel is closed]
    runner,       \* [state |-> its run goroutine]
    submitting,   \* [stream |-> where its Submit call stands]
    submitted,    \* [key |-> the newest tick given to Submit]
    tickChan,     \* the tick channel
    tickClosed,   \* it is closed
    panicked,     \* a send into the closed channel happened
    dispatcher,   \* the dispatchTicks goroutine
    queue,        \* the ingestion queue of the symbol
    worker,       \* its ingestion worker
    delivered,    \* [key |-> the last tick given to the aggregator]
    dispatchStop, \* the channels of this name are closed
    ingestionStop

stateVars == <<latest, notify, stopped, done, runner>>
dispatchVars == <<dispatcher, queue, worker, delivered>>
stopVars == <<tickClosed, dispatchStop, ingestionStop>>
ingressVars == <<registered, created, stateVars, submitting, submitted, tickChan, panicked,
                 dispatchVars, stopVars>>

Idle == [pc |-> "idle", s |-> 0, e |-> CHOOSE e \in Keys : TRUE, t |-> 0]
Resting == [pc |-> "idle", e |-> CHOOSE e \in Keys : TRUE, t |-> 0]
NotRunning == [Resting EXCEPT !.pc = "none"]

IngressInit ==
    /\ registered = 0 /\ created = 0
    /\ latest = [s \in States |-> [e \in Keys |-> 0]]
    /\ notify = [s \in States |-> FALSE]
    /\ stopped = [s \in States |-> FALSE]
    /\ done = [s \in States |-> FALSE]
    /\ runner = [s \in States |-> NotRunning]
    /\ submitting = [c \in Streams |-> Idle]
    /\ submitted = [e \in Keys |-> 0]
    /\ tickChan = <<>> /\ tickClosed = FALSE /\ panicked = FALSE
    /\ dispatcher = Resting
    /\ queue = <<>> /\ worker = Resting
    /\ delivered = [e \in Keys |-> 0]
    /\ dispatchStop = FALSE /\ ingestionStop = FALSE

-----------------------------------------------------------------------------
(* The coalescer. *)

\* registry.LoadOrStore: the registered state, or a new one whose run starts.
LoadOrStore(s) ==
    IF registered # 0
    THEN s = registered /\ UNCHANGED <<registered, created, runner>>
    ELSE /\ created < 2 /\ s = created + 1
         /\ registered' = s /\ created' = s
         /\ runner' = [runner EXCEPT ![s] = Resting]

\* Submit(out, t), first part: the state of the channel.
SubmitLoad(c, e) ==
    /\ submitting[c].pc = "idle" /\ SumFunction(submitted) < MaxTicks
    /\ \E s \in States :
        /\ LoadOrStore(s)
        /\ submitting' = [submitting EXCEPT ![c] =
                            [pc |-> "loaded", s |-> s, e |-> e, t |-> submitted[e] + 1]]
    /\ submitted' = [submitted EXCEPT ![e] = @ + 1]
    /\ UNCHANGED <<latest, notify, stopped, done, tickChan, panicked, dispatchVars, stopVars>>

\* Second part, under the state's mutex: the tick replaces the pending one of its
\* key unless the state is stopped.
SubmitStore(c) ==
    LET p == submitting[c]
    IN  /\ p.pc = "loaded"
        /\ IF stopped[p.s]
           THEN submitting' = [submitting EXCEPT ![c] = Idle] /\ UNCHANGED latest
           ELSE /\ latest' = [latest EXCEPT ![p.s][p.e] = p.t]
                /\ submitting' = [submitting EXCEPT ![c].pc = "stored"]
        /\ UNCHANGED <<registered, created, notify, stopped, done, runner, submitted, tickChan,
                       panicked, dispatchVars, stopVars>>

\* Third part: a token, dropped if there is one already.
SubmitNotify(c) ==
    LET p == submitting[c]
    IN  /\ p.pc = "stored"
        /\ notify' = [notify EXCEPT ![p.s] = TRUE]
        /\ submitting' = [submitting EXCEPT ![c] = Idle]
        /\ UNCHANGED <<registered, created, latest, stopped, done, runner, submitted, tickChan,
                       panicked, dispatchVars, stopVars>>

\* run: a token starts a flush, the closed done channel ends the goroutine.
RunSelect(s) ==
    /\ runner[s].pc = "idle"
    /\ \/ /\ notify[s]
          /\ notify' = [notify EXCEPT ![s] = FALSE]
          /\ runner' = [runner EXCEPT ![s].pc = "flush"]
       \/ /\ done[s]
          /\ runner' = [runner EXCEPT ![s].pc = "ended"]
          /\ UNCHANGED notify
    /\ UNCHANGED <<registered, created, latest, stopped, done, submitting, submitted, tickChan,
                   panicked, dispatchVars, stopVars>>

\* flush, next: any pending tick is taken; without one the flush is over.
FlushNext(s) ==
    /\ runner[s].pc = "flush"
    /\ \/ \E e \in Keys :
            /\ latest[s][e] # 0
            /\ latest' = [latest EXCEPT ![s][e] = 0]
            /\ runner' = [runner EXCEPT ![s] = [pc |-> "send", e |-> e, t |-> latest[s][e]]]
       \/ /\ \A e \in Keys : latest[s][e] = 0
          /\ runner' = [runner EXCEPT ![s] = Resting]
          /\ UNCHANGED latest
    /\ UNCHANGED <<registered, created, notify, stopped, done, submitting, submitted, tickChan,
                   panicked, dispatchVars, stopVars>>

\* Mutation of FlushSend: a tick that finds the channel full is dropped.
FlushSendDrops(s) ==
    /\ runner[s].pc = "send" /\ ~tickClosed
    /\ tickChan' = IF Len(tickChan) = TickCap THEN tickChan
                   ELSE Append(tickChan, [e |-> runner[s].e, t |-> runner[s].t])
    /\ runner' = [runner EXCEPT ![s] = [Resting EXCEPT !.pc = "flush"]]
    /\ UNCHANGED <<registered, created, latest, notify, stopped, done, submitting, submitted,
                   panicked, dispatchVars, stopVars>>

\* flush: the tick is sent when the channel has room (a panic if it is closed),
\* or put back, which a stopped state refuses, because of done.
FlushSend(s) ==
    /\ runner[s].pc = "send"
    /\ \/ /\ tickClosed
          /\ panicked' = TRUE
          /\ UNCHANGED <<tickChan, runner, latest>>
       \/ /\ ~tickClosed /\ Len(tickChan) < TickCap
          /\ tickChan' = Append(tickChan, [e |-> runner[s].e, t |-> runner[s].t])
          /\ runner' = [runner EXCEPT ![s] = [Resting EXCEPT !.pc = "flush"]]
          /\ UNCHANGED <<latest, panicked>>
       \/ /\ done[s]
          /\ latest' = IF stopped[s] THEN latest
                       ELSE [latest EXCEPT ![s][runner[s].e] = runner[s].t]
          /\ runner' = [runner EXCEPT ![s] = Resting]
          /\ UNCHANGED <<tickChan, panicked>>
    /\ UNCHANGED <<registered, created, notify, stopped, done, submitting, submitted,
                   dispatchVars, stopVars>>

-----------------------------------------------------------------------------
(* The dispatcher and the ingestion workers. *)

\* dispatchTicks: ends at dispatchStop or at the end of the closed channel.
DispatchTake ==
    /\ dispatcher.pc = "idle"
    /\ \/ /\ tickChan # <<>>
          /\ dispatcher' = [pc |-> "push", e |-> Head(tickChan).e, t |-> Head(tickChan).t]
          /\ tickChan' = Tail(tickChan)
       \/ /\ dispatchStop \/ (tickClosed /\ tickChan = <<>>)
          /\ dispatcher' = [Resting EXCEPT !.pc = "ended"]
          /\ UNCHANGED tickChan
    /\ UNCHANGED <<registered, created, stateVars, submitting, submitted, panicked, queue, worker,
                   delivered, stopVars>>

\* The tick goes to the queue of its symbol's worker, unless dispatchStop wins.
DispatchPush ==
    /\ dispatcher.pc = "push"
    /\ \/ /\ Len(queue) < QueueCap
          /\ queue' = Append(queue, [e |-> dispatcher.e, t |-> dispatcher.t])
          /\ dispatcher' = Resting
       \/ /\ dispatchStop
          /\ dispatcher' = [Resting EXCEPT !.pc = "ended"]
          /\ UNCHANGED queue
    /\ UNCHANGED <<registered, created, stateVars, submitting, submitted, tickChan, panicked, worker,
                   delivered, stopVars>>

\* ingestionWorker: takes a tick, or ends at ingestionStop or when the dispatcher
\* has closed its queue and it is empty.
WorkerTake ==
    /\ worker.pc = "idle"
    /\ \/ /\ queue # <<>>
          /\ worker' = [pc |-> "process", e |-> Head(queue).e, t |-> Head(queue).t]
          /\ queue' = Tail(queue)
       \/ /\ ingestionStop \/ (dispatcher.pc = "ended" /\ queue = <<>>)
          /\ worker' = [Resting EXCEPT !.pc = "ended"]
          /\ UNCHANGED queue
    /\ UNCHANGED <<registered, created, stateVars, submitting, submitted, tickChan, panicked,
                   dispatcher, delivered, stopVars>>

\* The aggregator's ProcessTick.
WorkerProcess ==
    /\ worker.pc = "process"
    /\ delivered' = [delivered EXCEPT ![worker.e] = worker.t]
    /\ worker' = Resting
    /\ UNCHANGED <<registered, created, stateVars, submitting, submitted, tickChan, panicked,
                   dispatcher, queue, stopVars>>
=============================================================================
