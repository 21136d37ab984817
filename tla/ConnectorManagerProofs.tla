----------------------- MODULE ConnectorManagerProofs -----------------------
(* Proofs about ConnectorManager and the tick path of Ingress, for any      *)
(* exchanges, markets, connectors, command workers and channel capacities.  *)
EXTENDS ConnectorManager, TLAPS

USE DEF managerVars, stateVars, dispatchVars, stopVars, ingressVars

-----------------------------------------------------------------------------
(* The manager's invariant. *)

ConnectorRec == [e : Exchanges, life : {"unborn", "running", "ended"}, cancelled : BOOLEAN]
CommandRec == [pc : {"idle", "stop", "start"}, op : {"none", "add", "remove"}, e : Exchanges]

\* Type correctness of the manager's part.
ManagerTyped ==
    /\ entries \in [Exchanges -> Connectors \cup {NoConnector}]
    /\ mgrStopped \in BOOLEAN /\ stopErr \in BOOLEAN
    /\ lifecycle \in Workers \cup {"free"}
    /\ connector \in [Connectors -> ConnectorRec]
    /\ command \in [Workers -> CommandRec]
    /\ cleanup \in {"running", "stopall", "draining", "drained", "closed", "done"}
    /\ stopping \subseteq Connectors

\* A command in progress holds lifecycleMu of a manager that is not stopped, and
\* starts a connector only where the entry is empty.
CommandInv ==
    \A w \in Workers : command[w].pc # "idle" =>
        /\ lifecycle = w /\ ~mgrStopped
        /\ command[w].pc = "start" <=> entries[command[w].e] = NoConnector

\* An entry is a connector of its exchange.
EntryInv ==
    \A e \in Exchanges : entries[e] # NoConnector =>
        connector[entries[e]].e = e /\ connector[entries[e]].life # "unborn"

\* StopAll has taken every entry, and waits for whoever is alive or has an error.
StopInv ==
    /\ mgrStopped <=> cleanup # "running"
    /\ mgrStopped => /\ \A e \in Exchanges : entries[e] = NoConnector
                     /\ \A c \in Connectors : connector[c].life = "running" => c \in stopping \/ stopErr
    /\ cleanup \notin {"running", "stopall"} => stopping = {}

\* A step that leaves every live connector alive and with its exchange.
LivesKept ==
    \A c \in Connectors : connector[c].life = "running" =>
        connector'[c].life = "running" /\ connector'[c].e = connector[c].e

ManagerInv == ManagerTyped /\ CommandInv /\ EntryInv /\ StopInv /\ ConnectorsSupervised

-----------------------------------------------------------------------------
(* Records. *)

\* A connector has an exchange.
LEMMA ConnectorExchange == ASSUME ManagerInv PROVE \A c \in Connectors : connector[c].e \in Exchanges
  BY DEF ManagerInv, ManagerTyped, ConnectorRec

\* The values a connector and a command start with.
LEMMA Values ==
    /\ NoCommand \in CommandRec /\ NoCommand.pc = "idle"
    /\ Unborn \in ConnectorRec /\ Unborn.life = "unborn"
    /\ \A e \in Exchanges :
        /\ Running(e) \in ConnectorRec
        /\ Running(e).e = e /\ Running(e).life = "running" /\ ~Running(e).cancelled
<1>1. (CHOOSE e \in Exchanges : TRUE) \in Exchanges
  BY IngressAssumption DEF IngressAssumption
<1> DEFINE x == CHOOSE e \in Exchanges : TRUE
<1> HIDE DEF x
<1>2. x \in Exchanges
  BY <1>1 DEF x
<1>3. NoCommand = [pc |-> "idle", op |-> "none", e |-> x] /\ Unborn = [e |-> x, life |-> "unborn", cancelled |-> FALSE]
  BY DEF NoCommand, Unborn, x
<1> QED
  BY <1>2, <1>3 DEF CommandRec, ConnectorRec, Running

-----------------------------------------------------------------------------
(* The manager's invariant is inductive. *)

\* Run has started a connector per exchange.
LEMMA ManagerInit == Init => ManagerInv
<1> SUFFICES ASSUME Init PROVE ManagerInv
  OBVIOUS
<1>1. PICK first \in [Exchanges -> Connectors] :
        /\ \A d, e \in Exchanges : d # e => first[d] # first[e]
        /\ entries = first
        /\ connector = [c \in Connectors |->
                            IF \E e \in Exchanges : first[e] = c
                            THEN Running(CHOOSE e \in Exchanges : first[e] = c) ELSE Unborn]
  BY DEF Init
<1>2. /\ mgrStopped = FALSE /\ lifecycle = "free" /\ command = [w \in Workers |-> NoCommand]
      /\ cleanup = "running" /\ stopping = {} /\ stopErr = FALSE
  BY DEF Init
<1>3. ASSUME NEW e \in Exchanges PROVE connector[first[e]] = Running(e)
  <2>1. first[e] \in Connectors /\ (CHOOSE d \in Exchanges : first[d] = first[e]) = e
    BY <1>1
  <2> QED
    BY <1>1, <2>1
<1>4. ASSUME NEW c \in Connectors, ~ \E e \in Exchanges : first[e] = c PROVE connector[c] = Unborn
  BY <1>1, <1>4
<1>5. \A c \in Connectors : connector[c] \in ConnectorRec
  BY <1>3, <1>4, Values
<1>6. ManagerTyped
  <2>1. mgrStopped \in BOOLEAN /\ stopErr \in BOOLEAN
    BY <1>2
  <2>2. connector \in [Connectors -> ConnectorRec]
    BY <1>1, <1>5
  <2> QED
    BY <1>1, <1>2, <2>1, <2>2, Values DEF ManagerTyped
<1>7. CommandInv /\ StopInv
  BY <1>2, Values DEF CommandInv, StopInv
<1>8. EntryInv
  BY <1>1, <1>3, Values DEF EntryInv
<1>9. ConnectorsSupervised
  <2>1. ASSUME NEW c \in Connectors, connector[c].life = "running"
        PROVE  connector[c].e \in Exchanges /\ first[connector[c].e] = c
    <3>1. PICK e \in Exchanges : first[e] = c
      BY <1>4, <2>1, Values
    <3> QED
      BY <1>3, <3>1, Values
  <2>2. \A c \in Connectors : connector[c].life = "running" =>
            connector[c].e \in Exchanges /\ entries[connector[c].e] = c
    BY <1>1, <2>1
  <2> QED
    BY <2>2 DEF ConnectorsSupervised
<1> QED
  BY <1>6, <1>7, <1>8, <1>9 DEF ManagerInv

\* A command begins: the old connector, if there is one, is cancelled.
LEMMA BeginInv ==
    ASSUME ManagerInv, NEW w \in Workers, NEW op \in {"add", "remove"}, NEW e \in Exchanges,
           BeginCommand(w, op, e)
    PROVE  ManagerInv' /\ LivesKept
<1>1. /\ lifecycle = "free" /\ ~mgrStopped /\ lifecycle' = w
      /\ UNCHANGED <<entries, mgrStopped, cleanup, stopping, stopErr>>
  BY DEF BeginCommand
<1>2. \A x \in Workers : command[x].pc = "idle"
  BY <1>1, ConnectorAssumption DEF ConnectorAssumption, ManagerInv, CommandInv
<1>3. /\ command' \in [Workers -> CommandRec]
      /\ \A x \in Workers : x # w => command'[x] = command[x]
      /\ command'[w].e = e /\ command'[w].pc = IF entries[e] = NoConnector THEN "start" ELSE "stop"
  BY DEF BeginCommand, SetCommand, ManagerInv, ManagerTyped, CommandRec
<1>4. /\ connector' \in [Connectors -> ConnectorRec]
      /\ \A c \in Connectors : connector'[c].life = connector[c].life /\ connector'[c].e = connector[c].e
  <2>1. CASE entries[e] = NoConnector
    BY <2>1 DEF BeginCommand, ManagerInv, ManagerTyped
  <2>2. CASE entries[e] # NoConnector
    <3>1. entries[e] \in Connectors /\ connector[entries[e]] \in ConnectorRec
      BY <2>2 DEF ManagerInv, ManagerTyped
    <3>2. connector' = [connector EXCEPT ![entries[e]] = [connector[entries[e]] EXCEPT !.cancelled = TRUE]]
      BY <2>2 DEF BeginCommand
    <3> DEFINE k == [connector[entries[e]] EXCEPT !.cancelled = TRUE]
    <3>3. k \in ConnectorRec /\ k.life = connector[entries[e]].life /\ k.e = connector[entries[e]].e
      BY <3>1 DEF ConnectorRec
    <3>4. connector' = [connector EXCEPT ![entries[e]] = k]
      BY <3>2
    <3> HIDE DEF k
    <3> QED
      BY <3>1, <3>3, <3>4 DEF ManagerInv, ManagerTyped
  <2> QED
    BY <2>1, <2>2
<1>5. ManagerTyped'
  BY <1>1, <1>3, <1>4 DEF ManagerInv, ManagerTyped
<1>6. CommandInv'
  BY <1>1, <1>2, <1>3 DEF CommandInv
<1>7. EntryInv' /\ StopInv'
  BY <1>1, <1>4 DEF ManagerInv, ManagerTyped, EntryInv, StopInv
<1>8. ConnectorsSupervised'
  BY <1>1, <1>4 DEF ManagerInv, ConnectorsSupervised
<1>20. LivesKept
  BY <1>4 DEF LivesKept
<1> QED
  BY <1>20, <1>5, <1>6, <1>7, <1>8 DEF ManagerInv

\* The old connector has returned and its entry goes, or the call fails.
LEMMA StopOldInv ==
    ASSUME ManagerInv, NEW w \in Workers, StopOld(w)
    PROVE  ManagerInv' /\ LivesKept
<1> DEFINE k == command[w]
<1>1. /\ k.pc = "stop" /\ k \in CommandRec /\ k.e \in Exchanges
      /\ lifecycle = w /\ ~mgrStopped /\ entries[k.e] # NoConnector
  BY DEF ManagerInv, ManagerTyped, CommandInv, StopOld, CommandRec
<1>2. UNCHANGED <<mgrStopped, connector, cleanup, stopping, stopErr>>
  BY DEF StopOld
<1>3. \A x \in Workers : x # w => command[x].pc = "idle"
  BY <1>1 DEF ManagerInv, CommandInv
<1>4. \/ Finish(w)
      \/ /\ SetCommand(w, [k EXCEPT !.pc = "start"]) /\ UNCHANGED lifecycle
         /\ entries' = [entries EXCEPT ![k.e] = NoConnector]
  BY DEF StopOld
<1>5. /\ command' \in [Workers -> CommandRec] /\ lifecycle' \in Workers \cup {"free"}
      /\ \A x \in Workers : x # w => command'[x] = command[x]
      /\ command'[w].pc = "idle" \/
            (command'[w].pc = "start" /\ command'[w].e = k.e /\ lifecycle' = w /\ entries'[k.e] = NoConnector)
  <2>1. [k EXCEPT !.pc = "start"] \in CommandRec /\ [k EXCEPT !.pc = "start"].pc = "start"
        /\ [k EXCEPT !.pc = "start"].e = k.e
    BY <1>1 DEF CommandRec
  <2> HIDE DEF k
  <2>2. CASE Finish(w)
    BY <2>2, Values DEF Finish, SetCommand, ManagerInv, ManagerTyped
  <2>3. CASE /\ SetCommand(w, [k EXCEPT !.pc = "start"]) /\ UNCHANGED lifecycle
             /\ entries' = [entries EXCEPT ![k.e] = NoConnector]
    BY <1>1, <2>1, <2>3 DEF SetCommand, ManagerInv, ManagerTyped
  <2> QED
    BY <1>4, <2>2, <2>3
<1>6. \/ entries' = entries
      \/ entries' = [entries EXCEPT ![k.e] = NoConnector] /\ connector[entries[k.e]].life = "ended"
  BY DEF StopOld
<1> HIDE DEF k
<1>7. ManagerTyped'
  BY <1>1, <1>2, <1>5, <1>6 DEF ManagerInv, ManagerTyped
<1>8. CommandInv'
  BY <1>1, <1>2, <1>3, <1>5 DEF CommandInv
<1>9. EntryInv' /\ StopInv'
  BY <1>1, <1>2, <1>6 DEF ManagerInv, ManagerTyped, EntryInv, StopInv
<1>10. ConnectorsSupervised'
  <2>1. ASSUME NEW c \in Connectors, connector[c].life = "running"
        PROVE  c = entries'[connector[c].e]
    <3>1. c = entries[connector[c].e] /\ connector[c].e \in Exchanges
      BY <1>1, <2>1, ConnectorExchange DEF ManagerInv, ConnectorsSupervised
    <3> QED
      BY <1>1, <1>6, <2>1, <3>1 DEF ManagerInv, ManagerTyped
  <2> QED
    BY <1>2, <2>1 DEF ManagerInv, ConnectorsSupervised
<1>20. LivesKept
  BY <1>2 DEF LivesKept
<1> QED
  BY <1>20, <1>7, <1>8, <1>9, <1>10 DEF ManagerInv

\* A new connector starts where none is alive.
LEMMA StartNewInv ==
    ASSUME ManagerInv, NEW w \in Workers, StartNew(w)
    PROVE  ManagerInv' /\ LivesKept
<1> DEFINE e == command[w].e
<1>1. /\ command[w].pc = "start" /\ e \in Exchanges
      /\ lifecycle = w /\ ~mgrStopped /\ entries[e] = NoConnector
  BY DEF ManagerInv, ManagerTyped, CommandInv, StartNew, CommandRec
<1>2. UNCHANGED <<mgrStopped, cleanup, stopping, stopErr>> /\ Finish(w)
  BY DEF StartNew
<1>3. \A x \in Workers : x # w => command[x].pc = "idle"
  BY <1>1 DEF ManagerInv, CommandInv
<1>4. /\ command' \in [Workers -> CommandRec] /\ lifecycle' \in Workers \cup {"free"}
      /\ \A x \in Workers : command'[x].pc = "idle"
  BY <1>2, <1>3, Values DEF Finish, SetCommand, ManagerInv, ManagerTyped
<1>5. PICK c \in Connectors :
        /\ connector[c].life = "unborn"
        /\ connector' = [connector EXCEPT ![c] = Running(e)]
        /\ entries' = [entries EXCEPT ![e] = c]
  BY DEF StartNew, Fresh
<1> HIDE DEF e
<1>6. /\ connector' \in [Connectors -> ConnectorRec]
      /\ connector'[c].e = e /\ connector'[c].life = "running"
      /\ \A d \in Connectors : d # c => connector'[d] = connector[d]
      /\ entries' \in [Exchanges -> Connectors \cup {NoConnector}] /\ entries'[e] = c
      /\ \A d \in Exchanges : d # e => entries'[d] = entries[d]
  BY <1>1, <1>5, Values DEF ManagerInv, ManagerTyped
<1>7. ManagerTyped'
  BY <1>2, <1>4, <1>6 DEF ManagerInv, ManagerTyped
<1>8. CommandInv'
  BY <1>4 DEF CommandInv
<1>9. EntryInv'
  BY <1>5, <1>6 DEF ManagerInv, ManagerTyped, EntryInv
<1>10. StopInv'
  BY <1>1, <1>2 DEF ManagerInv, StopInv
<1>11. \A d \in Connectors : connector[d].life = "running" => d = entries[connector[d].e] /\ connector[d].e # e
  BY <1>1, ConnectorAssumption DEF ConnectorAssumption, ManagerInv, ConnectorsSupervised
<1>12. ConnectorsSupervised'
  <2>1. ASSUME NEW a \in Connectors, connector'[a].life = "running"
        PROVE  a = entries'[connector'[a].e]
    <3>1. connector[a].e \in Exchanges
      BY ConnectorExchange
    <3> QED
      BY <1>6, <1>11, <2>1, <3>1
  <2>2. ASSUME NEW a \in Connectors, NEW b \in Connectors, a # b,
               connector'[a].life = "running", connector'[b].life = "running"
        PROVE  connector'[a].e # connector'[b].e
    BY <1>6, <1>11, <2>2 DEF ManagerInv, ConnectorsSupervised
  <2> QED
    BY <2>1, <2>2 DEF ConnectorsSupervised
<1>20. LivesKept
  BY <1>5, <1>6 DEF LivesKept
<1> QED
  BY <1>20, <1>7, <1>8, <1>9, <1>10, <1>12 DEF ManagerInv

\* A connector's streams have returned.
LEMMA ReturnsInv ==
    ASSUME ManagerInv, NEW c \in Connectors, ConnectorReturns(c)
    PROVE  ManagerInv'
<1> DEFINE k == [connector[c] EXCEPT !.life = "ended"]
<1>1. connector' = [connector EXCEPT ![c] = k] /\ connector[c].life = "running"
  BY DEF ConnectorReturns
<1>2. UNCHANGED <<entries, mgrStopped, lifecycle, command, cleanup, stopping, stopErr>>
  BY DEF ConnectorReturns
<1>3. k \in ConnectorRec /\ k.life = "ended" /\ k.e = connector[c].e
  BY DEF ConnectorRec, ManagerInv, ManagerTyped
<1> HIDE DEF k
<1>4. /\ connector' \in [Connectors -> ConnectorRec]
      /\ connector'[c].life = "ended" /\ connector'[c].e = connector[c].e
      /\ \A d \in Connectors : d # c => connector'[d] = connector[d]
  BY <1>1, <1>3 DEF ManagerInv, ManagerTyped
<1>5. ManagerTyped' /\ CommandInv'
  BY <1>2, <1>4 DEF ManagerInv, ManagerTyped, CommandInv
<1>6. EntryInv'
  BY <1>2, <1>4 DEF ManagerInv, ManagerTyped, EntryInv
<1>7. StopInv'
  BY <1>2, <1>4 DEF ManagerInv, StopInv
<1>8. ConnectorsSupervised'
  BY <1>2, <1>4 DEF ManagerInv, ConnectorsSupervised
<1> QED
  BY <1>5, <1>6, <1>7, <1>8 DEF ManagerInv

\* StopAll takes every entry over and cancels its connector.
LEMMA StopAllBeginInv ==
    ASSUME ManagerInv, StopAllBegin
    PROVE  ManagerInv' /\ LivesKept
<1> DEFINE taken == {entries[e] : e \in Exchanges} \ {NoConnector}
<1>1. /\ cleanup = "running" /\ cleanup' = "stopall" /\ lifecycle = "free" /\ mgrStopped' = TRUE
      /\ stopping' = taken /\ entries' = [e \in Exchanges |-> NoConnector]
      /\ UNCHANGED <<lifecycle, command, stopErr>>
  BY DEF StopAllBegin, SetCleanup
<1>2. taken \subseteq Connectors
  BY DEF ManagerInv, ManagerTyped
<1>3. \A w \in Workers : command[w].pc = "idle"
  BY <1>1, ConnectorAssumption DEF ConnectorAssumption, ManagerInv, CommandInv
<1>4. connector' = [c \in Connectors |-> [connector[c] EXCEPT !.cancelled = @ \/ c \in taken]]
  BY <1>1 DEF StopAllBegin
<1>5. ASSUME NEW c \in Connectors
      PROVE  /\ connector'[c] \in ConnectorRec
             /\ connector'[c].life = connector[c].life /\ connector'[c].e = connector[c].e
             /\ c \in taken => connector'[c].cancelled
  <2>1. connector[c] \in ConnectorRec
    BY DEF ManagerInv, ManagerTyped
  <2>2. connector'[c] = [connector[c] EXCEPT !.cancelled = connector[c].cancelled \/ c \in taken]
    BY <1>4
  <2>3. (connector[c].cancelled \/ c \in taken) \in BOOLEAN
    OBVIOUS
  <2> HIDE DEF taken
  <2> DEFINE b == connector[c].cancelled \/ c \in taken
  <2>4. b \in BOOLEAN /\ (c \in taken => b) /\ connector'[c] = [connector[c] EXCEPT !.cancelled = b]
    BY <2>2, <2>3
  <2> HIDE DEF b
  <2> QED
    BY <2>1, <2>4 DEF ConnectorRec
<1>6. ManagerTyped'
  BY <1>1, <1>2, <1>4, <1>5 DEF ManagerInv, ManagerTyped
<1>7. CommandInv' /\ EntryInv'
  BY <1>1, <1>3 DEF CommandInv, EntryInv
<1>8. ASSUME NEW c \in Connectors, connector[c].life = "running" PROVE c \in taken
  <2>1. connector[c].e \in Exchanges
    BY ConnectorExchange
  <2>2. c = entries[connector[c].e]
    BY <1>1, <1>8 DEF ManagerInv, ConnectorsSupervised, StopInv
  <2> QED
    BY <2>1, <2>2, ConnectorAssumption DEF ConnectorAssumption
<1> HIDE DEF taken
<1>9. StopInv'
  BY <1>1, <1>5, <1>8 DEF StopInv
<1>10. ConnectorsSupervised'
  BY <1>1, <1>5, <1>8 DEF ManagerInv, ConnectorsSupervised
<1>20. LivesKept
  BY <1>5 DEF LivesKept
<1> QED
  BY <1>20, <1>6, <1>7, <1>9, <1>10 DEF ManagerInv

\* StopAll stops waiting for a connector, with an error if it is alive.
LEMMA StopAllWaitInv ==
    ASSUME ManagerInv, NEW c \in Connectors, StopAllWait(c)
    PROVE  ManagerInv'
<1>1. /\ cleanup = "stopall" /\ stopping' = stopping \ {c}
      /\ stopErr' = (stopErr \/ connector[c].life = "running")
      /\ UNCHANGED <<entries, mgrStopped, lifecycle, connector, command, cleanup>>
  BY DEF StopAllWait
<1>2. stopErr' \in BOOLEAN
  BY <1>1, Zenon
<1>3. ManagerTyped'
  BY <1>1, <1>2 DEF ManagerInv, ManagerTyped
<1>4. CommandInv' /\ EntryInv' /\ ConnectorsSupervised'
  BY <1>1 DEF ManagerInv, CommandInv, EntryInv, ConnectorsSupervised
<1>5. StopInv'
  BY <1>1 DEF ManagerInv, StopInv
<1> QED
  BY <1>3, <1>4, <1>5 DEF ManagerInv

\* The later steps of cleanup find StopAll at its end.
LEMMA LateCleanupInv ==
    ASSUME ManagerInv, DrainStop \/ DrainClear \/ CloseQueues \/ ForgetState
    PROVE  ManagerInv'
<1>1. /\ UNCHANGED <<entries, mgrStopped, lifecycle, connector, command, stopping, stopErr>>
      /\ cleanup # "running" /\ cleanup' \in {"draining", "drained", "closed", "done"}
      /\ stopping = {}
  BY DEF DrainStop, DrainClear, CloseQueues, ForgetState, SetCleanup, ManagerInv, StopInv
<1>2. ManagerTyped' /\ CommandInv' /\ EntryInv' /\ ConnectorsSupervised'
  BY <1>1 DEF ManagerInv, ManagerTyped, CommandInv, EntryInv, ConnectorsSupervised
<1>3. StopInv'
  BY <1>1 DEF ManagerInv, StopInv
<1> QED
  BY <1>2, <1>3 DEF ManagerInv

\* Every step of the system preserves the manager's invariant.
LEMMA ManagerStep == ManagerInv /\ [Next]_vars => ManagerInv'
<1> SUFFICES ASSUME ManagerInv, [Next]_vars PROVE ManagerInv'
  OBVIOUS
<1>1. CASE UNCHANGED managerVars
  BY <1>1 DEF ManagerInv, ManagerTyped, CommandInv, EntryInv, StopInv, ConnectorsSupervised
<1>2. CASE CleanupStep
  BY <1>2, StopAllBeginInv, StopAllWaitInv, LateCleanupInv DEF CleanupStep
<1>3. CASE \E w \in Workers : CommandStep(w)
  BY <1>3, StopOldInv, StartNewInv, BeginInv DEF CommandStep
<1>4. CASE \E c \in Connectors : ConnectorReturns(c)
  BY <1>4, ReturnsInv
<1>5. TickStep \/ (\E c \in Connectors : Produce(c) \/ SubmitStep(c)) \/ UNCHANGED vars => UNCHANGED managerVars
  BY DEF TickStep, Produce, SubmitStep, vars
<1> QED
  BY <1>1, <1>2, <1>3, <1>4, <1>5 DEF Next

\* The manager's invariant holds of every state.
LEMMA ManagerInductive == Spec => []ManagerInv
  BY ManagerInit, ManagerStep, PTL DEF Spec

\* At most one connector of an exchange is alive, and every one that is alive is
\* registered or was cancelled by StopAll (app/connector_manager.go), for any
\* number of exchanges, connectors and command workers.
THEOREM EveryConnectorSupervised == Spec => []ConnectorsSupervised
<1>1. ManagerInv => ConnectorsSupervised
  BY DEF ManagerInv
<1> QED
  BY <1>1, ManagerInductive, PTL

-----------------------------------------------------------------------------
(* The tick path's invariant. *)

Tick == [e : Keys, t : Nat]
RunnerRec == [pc : {"none", "idle", "flush", "send", "ended"}, e : Keys, t : Nat]
SubmitRec == [pc : {"idle", "loaded", "stored"}, s : {0, 1, 2}, e : Keys, t : Nat]
DispatcherRec == [pc : {"idle", "push", "ended"}, e : Keys, t : Nat]
WorkerRec == [pc : {"idle", "process", "ended"}, e : Keys, t : Nat]

\* Type correctness of the tick path, whatever the number of ticks.
CoalescerTyped ==
    /\ registered \in {0, 1} /\ created \in {0, 1}
    /\ latest \in [States -> [Keys -> Nat]]
    /\ stopped \in [States -> BOOLEAN] /\ done \in [States -> BOOLEAN]
    /\ runner \in [States -> RunnerRec]
    /\ submitting \in [Streams -> SubmitRec]
    /\ submitted \in [Keys -> Nat]
DispatchTyped ==
    /\ tickChan \in Seq(Tick) /\ queue \in Seq(Tick)
    /\ dispatcher \in DispatcherRec /\ worker \in WorkerRec
    /\ delivered \in [Keys -> Nat]

\* There is one state, and it is forgotten only once no connector is left.
StateInv ==
    /\ registered = 1 => created = 1
    /\ created = 1 /\ registered = 0 => cleanup = "done" /\ ~stopErr
    /\ runner[2].pc = "none"
    /\ (runner[1].pc = "none") <=> (created = 0)
    /\ \A s \in States : done[s] => stopped[s]

\* What cleanup has reached of the tick path.
CloseInv ==
    /\ cleanup \in {"draining", "drained", "closed"} => registered = 1
    /\ cleanup \in {"closed", "done"} => runner[1].pc = "ended"
    /\ cleanup \notin {"running", "stopall"} => stopped[1]
    /\ tickClosed => cleanup \in {"closed", "done"}
    /\ ~panicked

\* A stream in Submit is one of a live connector, for its exchange's key.
SubmitInv ==
    \A c \in Connectors, m \in Markets : submitting[<<c, m>>].pc # "idle" =>
        /\ connector[c].life = "running"
        /\ submitting[<<c, m>>].e = <<connector[c].e, m>>
        /\ submitting[<<c, m>>].s = 1

TickPathInv == CoalescerTyped /\ DispatchTyped /\ StateInv /\ CloseInv /\ SubmitInv

-----------------------------------------------------------------------------
(* The order of a key's ticks along the path. *)

\* Tick x of key k is in channel c.
In(c, k, x) == \E i \in 1..Len(c) : c[i].e = k /\ x = c[i].t

\* Tick x of key k is at the n-th place of the path, counted from the aggregator.
At(k, n, x) ==
    \/ n = 0 /\ x = delivered[k]
    \/ n = 1 /\ worker.pc = "process" /\ worker.e = k /\ x = worker.t
    \/ n = 2 /\ In(queue, k, x)
    \/ n = 3 /\ dispatcher.pc = "push" /\ dispatcher.e = k /\ x = dispatcher.t
    \/ n = 4 /\ In(tickChan, k, x)
    \/ n = 5 /\ runner[1].pc = "send" /\ runner[1].e = k /\ x = runner[1].t
    \/ n = 6 /\ latest[1][k] # 0 /\ x = latest[1][k]
    \/ n = 7 /\ \E s \in Streams : submitting[s].pc = "loaded" /\ submitting[s].e = k /\ x = submitting[s].t
    \/ n = 8 /\ x = submitted[k]

\* Nothing is older than what is before it.
Ordered ==
    \A k \in Keys, m, n \in 0..8, x, y \in Nat : m < n /\ At(k, m, x) /\ At(k, n, y) => x <= y

\* A step that moves tick v of key q from place p to the place before it, n, and
\* otherwise only drops ticks; v is not newer than what stays at p.
Moves(n, p, q, v) ==
    /\ At(q, p, v)
    /\ \A k \in Keys, m \in 0..8, x \in Nat : At(k, m, x)' => At(k, m, x) \/ (k = q /\ m = n /\ x = v)
    /\ \A y \in Nat : At(q, p, y)' => v <= y

\* Nothing in a channel is older than what is before it.
Sorted(c) == \A i, j \in 1..Len(c) : i < j /\ c[i].e = c[j].e => c[i].t <= c[j].t

OrderInv == Ordered /\ Sorted(queue) /\ Sorted(tickChan)

-----------------------------------------------------------------------------
(* The tick path's invariant is inductive. *)

\* The values the records of the tick path start with and return to.
LEMMA TickPathValues ==
    /\ Idle \in SubmitRec /\ Idle.pc = "idle"
    /\ Resting \in RunnerRec /\ Resting \in DispatcherRec /\ Resting \in WorkerRec
    /\ Resting.pc = "idle"
    /\ NotRunning \in RunnerRec /\ NotRunning.pc = "none"
    /\ [Resting EXCEPT !.pc = "flush"] \in RunnerRec /\ [Resting EXCEPT !.pc = "flush"].pc = "flush"
    /\ [Resting EXCEPT !.pc = "ended"] \in DispatcherRec /\ [Resting EXCEPT !.pc = "ended"] \in WorkerRec
    /\ [Resting EXCEPT !.pc = "ended"].pc = "ended"
<1> DEFINE x == CHOOSE e \in Keys : TRUE
<1>1. x \in Keys
  <2>1. PICK a \in Exchanges, b \in Markets : TRUE
    BY IngressAssumption DEF IngressAssumption
  <2>2. <<a, b>> \in Keys
    BY DEF Keys
  <2> QED
    BY <2>2
<1>2. /\ Idle = [pc |-> "idle", s |-> 0, e |-> x, t |-> 0] /\ Resting = [pc |-> "idle", e |-> x, t |-> 0]
      /\ NotRunning = [Resting EXCEPT !.pc = "none"]
  BY DEF Idle, Resting, NotRunning
<1> HIDE DEF x
<1> QED
  BY <1>1, <1>2 DEF SubmitRec, RunnerRec, DispatcherRec, WorkerRec

\* The path starts empty.
LEMMA TickPathInit == Init => TickPathInv
<1> SUFFICES ASSUME Init PROVE TickPathInv
  OBVIOUS
<1>1. IngressInit /\ cleanup = "running"
  BY DEF Init
<1>2. CoalescerTyped
  BY <1>1, TickPathValues DEF IngressInit, CoalescerTyped, States
<1>3. DispatchTyped
  BY <1>1, TickPathValues DEF IngressInit, DispatchTyped
<1>4. StateInv
  BY <1>1, TickPathValues DEF IngressInit, StateInv, States
<1>5. CloseInv
  BY <1>1, TickPathValues DEF IngressInit, CloseInv
<1>6. SubmitInv
  BY <1>1, TickPathValues DEF IngressInit, SubmitInv, Streams
<1> QED
  BY <1>2, <1>3, <1>4, <1>5, <1>6 DEF TickPathInv

\* A caller of LoadOrStore gets the one state, created if need be: the state is
\* never created a second time, because it is forgotten after the last caller.
LEMMA OneState ==
    ASSUME TickPathInv, NEW s \in States, LoadOrStore(s), ~(cleanup = "done" /\ ~stopErr)
    PROVE  /\ s = 1 /\ registered' = 1 /\ created' = 1
           /\ runner' \in [States -> RunnerRec]
           /\ runner'[2].pc = "none" /\ runner'[1].pc # "none"
           /\ runner'[1] = runner[1] \/ (created = 0 /\ runner'[1].pc = "idle")
<1>1. CASE registered # 0
  BY <1>1 DEF LoadOrStore, TickPathInv, CoalescerTyped, StateInv, States
<1>2. CASE registered = 0
  <2>1. created = 0
    BY <1>2 DEF TickPathInv, CoalescerTyped, StateInv
  <2>2. s = 1 /\ registered' = 1 /\ created' = 1 /\ runner' = [runner EXCEPT ![1] = Resting]
    BY <1>2, <2>1 DEF LoadOrStore
  <2> QED
    BY <2>1, <2>2, TickPathValues DEF TickPathInv, CoalescerTyped, StateInv, States
<1> QED
  BY <1>1, <1>2

\* A live connector's stream gives a tick to Submit.
LEMMA ProducePath ==
    ASSUME ManagerInv, TickPathInv, NEW c \in Connectors, Produce(c)
    PROVE  TickPathInv'
<1>1. PICK m \in Markets : SubmitLoad(<<c, m>>, <<connector[c].e, m>>)
  BY DEF Produce
<1> DEFINE st == <<c, m>>
           q == <<connector[c].e, m>>
<1>2. st \in Streams /\ q \in Keys /\ connector[c].life = "running" /\ UNCHANGED managerVars
  BY ConnectorExchange DEF Produce, Streams, Keys
<1>3. ~(cleanup = "done" /\ ~stopErr)
  BY <1>2 DEF ManagerInv, StopInv
<1>4. PICK s \in States : /\ LoadOrStore(s)
                          /\ submitting' = [submitting EXCEPT ![st] =
                                               [pc |-> "loaded", s |-> s, e |-> q, t |-> submitted[q] + 1]]
  BY <1>1 DEF SubmitLoad
<1>5. /\ submitted' = [submitted EXCEPT ![q] = submitted[q] + 1]
      /\ UNCHANGED <<latest, notify, stopped, done, tickChan, panicked, dispatchVars, stopVars>>
  BY <1>1 DEF SubmitLoad
<1>6. /\ s = 1 /\ registered' = 1 /\ created' = 1
      /\ runner' \in [States -> RunnerRec]
      /\ runner'[2].pc = "none" /\ runner'[1].pc # "none"
      /\ runner'[1] = runner[1] \/ (created = 0 /\ runner'[1].pc = "idle")
  BY <1>3, <1>4, OneState
<1> DEFINE r == [pc |-> "loaded", s |-> 1, e |-> q, t |-> submitted[q] + 1]
<1>7. r \in SubmitRec /\ r.pc = "loaded" /\ r.s = 1 /\ r.e = q
  BY <1>2 DEF SubmitRec, TickPathInv, CoalescerTyped
<1>8. submitting' = [submitting EXCEPT ![st] = r]
  BY <1>4, <1>6
<1> HIDE DEF r
<1>9. /\ submitting' \in [Streams -> SubmitRec] /\ submitting'[st] = r
      /\ \A x \in Streams : x # st => submitting'[x] = submitting[x]
  BY <1>2, <1>7, <1>8 DEF TickPathInv, CoalescerTyped
<1>10. submitted' \in [Keys -> Nat]
  BY <1>2, <1>5 DEF TickPathInv, CoalescerTyped
<1> HIDE DEF q
<1>11. CoalescerTyped'
  BY <1>5, <1>6, <1>9, <1>10 DEF TickPathInv, CoalescerTyped
<1>12. DispatchTyped'
  BY <1>5 DEF TickPathInv, DispatchTyped
<1>13. StateInv'
  BY <1>5, <1>6 DEF TickPathInv, StateInv
<1>14. CloseInv'
  BY <1>2, <1>5, <1>6 DEF TickPathInv, CloseInv, StateInv
<1>15. SubmitInv'
  <2> SUFFICES ASSUME NEW d \in Connectors, NEW n \in Markets, submitting'[<<d, n>>].pc # "idle"
               PROVE  /\ connector[d].life = "running"
                      /\ submitting'[<<d, n>>].e = <<connector[d].e, n>>
                      /\ submitting'[<<d, n>>].s = 1
    BY <1>2 DEF SubmitInv
  <2>1. CASE <<d, n>> = st
    BY <1>2, <1>7, <1>9, <2>1 DEF q
  <2>2. CASE <<d, n>> # st
    <3>1. submitting'[<<d, n>>] = submitting[<<d, n>>]
      BY <1>9, <2>2 DEF Streams
    <3> QED
      BY <3>1 DEF TickPathInv, SubmitInv
  <2> QED
    BY <2>1, <2>2
<1> QED
  BY <1>11, <1>12, <1>13, <1>14, <1>15 DEF TickPathInv

\* The later parts of a Submit call.
LEMMA SubmitStepPath ==
    ASSUME TickPathInv, NEW c \in Connectors, SubmitStep(c)
    PROVE  TickPathInv'
<1>1. PICK m \in Markets : SubmitStore(<<c, m>>) \/ SubmitNotify(<<c, m>>)
  BY DEF SubmitStep
<1> DEFINE st == <<c, m>>
           p == submitting[st]
           r == [p EXCEPT !.pc = "stored"]
<1>2. UNCHANGED managerVars /\ st \in Streams /\ p \in SubmitRec /\ p.pc # "idle"
  BY <1>1 DEF SubmitStep, Streams, TickPathInv, CoalescerTyped, SubmitStore, SubmitNotify
<1>3. /\ r \in SubmitRec /\ r.pc = "stored" /\ r.e = p.e /\ r.s = p.s
      /\ p.e \in Keys /\ p.t \in Nat /\ p.s = 1
  BY <1>2 DEF SubmitRec, TickPathInv, SubmitInv
<1>4. UNCHANGED <<registered, created, stopped, done, runner, submitted, tickChan, panicked, dispatchVars, stopVars>>
  BY <1>1 DEF SubmitStore, SubmitNotify
<1>5. \/ submitting' = [submitting EXCEPT ![st] = Idle]
      \/ submitting' = [submitting EXCEPT ![st] = r]
  BY <1>1 DEF SubmitStore, SubmitNotify
<1>6. latest' = latest \/ latest' = [latest EXCEPT ![1] = [latest[1] EXCEPT ![p.e] = p.t]]
  BY <1>1, <1>3 DEF SubmitStore, SubmitNotify
<1> HIDE DEF p, r
<1>7. /\ submitting' \in [Streams -> SubmitRec]
      /\ \A x \in Streams : x # st => submitting'[x] = submitting[x]
      /\ submitting'[st] = Idle \/ submitting'[st] = r
  BY <1>2, <1>3, <1>5, TickPathValues DEF TickPathInv, CoalescerTyped
<1>8. latest' \in [States -> [Keys -> Nat]]
  BY <1>3, <1>6 DEF TickPathInv, CoalescerTyped, States
<1>9. CoalescerTyped'
  BY <1>4, <1>7, <1>8 DEF TickPathInv, CoalescerTyped
<1>10. DispatchTyped' /\ StateInv' /\ CloseInv'
  BY <1>2, <1>4 DEF TickPathInv, DispatchTyped, StateInv, CloseInv
<1>11. SubmitInv'
  <2> SUFFICES ASSUME NEW d \in Connectors, NEW n \in Markets, submitting'[<<d, n>>].pc # "idle"
               PROVE  /\ connector[d].life = "running"
                      /\ submitting'[<<d, n>>].e = <<connector[d].e, n>>
                      /\ submitting'[<<d, n>>].s = 1
    BY <1>2 DEF SubmitInv
  <2>1. <<d, n>> \in Streams
    BY DEF Streams
  <2>2. CASE <<d, n>> = st
    BY <1>2, <1>3, <1>7, <2>2, TickPathValues DEF TickPathInv, SubmitInv, p
  <2>3. CASE <<d, n>> # st
    <3>1. submitting'[<<d, n>>] = submitting[<<d, n>>]
      BY <1>7, <2>1, <2>3
    <3> QED
      BY <3>1 DEF TickPathInv, SubmitInv
  <2> QED
    BY <2>2, <2>3
<1> QED
  BY <1>9, <1>10, <1>11 DEF TickPathInv

\* A step of the manager alone, which leaves the callers of Submit alive.
LEMMA ManagerOnlyPath ==
    ASSUME TickPathInv, UNCHANGED ingressVars, LivesKept,
           cleanup' = cleanup \/ (cleanup = "running" /\ cleanup' = "stopall"),
           cleanup = "done" => stopErr' = stopErr
    PROVE  TickPathInv'
<1>1. CoalescerTyped' /\ DispatchTyped'
  BY DEF TickPathInv, CoalescerTyped, DispatchTyped
<1>2. StateInv' /\ CloseInv'
  BY DEF TickPathInv, StateInv, CloseInv
<1>3. SubmitInv'
  BY DEF TickPathInv, SubmitInv, LivesKept
<1> QED
  BY <1>1, <1>2, <1>3 DEF TickPathInv

\* A connector returns when none of its streams is in Submit.
LEMMA ReturnsPath ==
    ASSUME ManagerInv, TickPathInv, NEW c \in Connectors, ConnectorReturns(c)
    PROVE  TickPathInv'
<1>1. UNCHANGED <<ingressVars, cleanup, stopErr>> /\ \A m \in Markets : submitting[<<c, m>>].pc = "idle"
  BY DEF ConnectorReturns
<1>2. \A d \in Connectors : d # c => connector'[d] = connector[d]
  BY DEF ConnectorReturns, ManagerInv, ManagerTyped
<1>3. CoalescerTyped' /\ DispatchTyped' /\ StateInv' /\ CloseInv'
  BY <1>1 DEF TickPathInv, CoalescerTyped, DispatchTyped, StateInv, CloseInv
<1>4. SubmitInv'
  BY <1>1, <1>2 DEF TickPathInv, SubmitInv
<1> QED
  BY <1>3, <1>4 DEF TickPathInv

\* The coalescer's goroutine.
LEMMA RunnerPath ==
    ASSUME TickPathInv, NEW s \in States, RunSelect(s) \/ FlushNext(s) \/ FlushSend(s), UNCHANGED managerVars
    PROVE  TickPathInv'
<1>1. UNCHANGED <<registered, created, stopped, done, submitting, submitted, dispatchVars, stopVars>>
  BY DEF RunSelect, FlushNext, FlushSend
<1>2. s = 1 /\ runner[1].pc \in {"idle", "flush", "send"}
  BY DEF RunSelect, FlushNext, FlushSend, TickPathInv, StateInv, States
<1>3. ~tickClosed
  BY <1>2 DEF TickPathInv, CloseInv
<1>4. panicked' = panicked
  BY <1>3 DEF RunSelect, FlushNext, FlushSend
<1>5. /\ runner' \in [States -> RunnerRec] /\ runner'[2] = runner[2]
      /\ runner'[1].pc # "none" /\ (runner'[1].pc = "ended" => done[1])
  <2> DEFINE f == [runner[1] EXCEPT !.pc = "flush"]
             n == [runner[1] EXCEPT !.pc = "ended"]
  <2>1. f \in RunnerRec /\ f.pc = "flush" /\ n \in RunnerRec /\ n.pc = "ended"
    BY DEF RunnerRec, TickPathInv, CoalescerTyped, States
  <2>2. CASE RunSelect(s)
    <3>1. runner' = [runner EXCEPT ![1] = f] \/ (runner' = [runner EXCEPT ![1] = n] /\ done[1])
      BY <1>2, <2>2 DEF RunSelect
    <3> HIDE DEF f, n
    <3> QED
      BY <2>1, <3>1 DEF TickPathInv, CoalescerTyped, States
  <2>3. CASE FlushNext(s)
    <3>1. CASE \E e \in Keys : runner' = [runner EXCEPT ![1] = [pc |-> "send", e |-> e, t |-> latest[1][e]]]
      <4>1. PICK e \in Keys : runner' = [runner EXCEPT ![1] = [pc |-> "send", e |-> e, t |-> latest[1][e]]]
        BY <3>1
      <4>2. [pc |-> "send", e |-> e, t |-> latest[1][e]] \in RunnerRec
        BY DEF RunnerRec, TickPathInv, CoalescerTyped, States
      <4> QED
        BY <4>1, <4>2 DEF TickPathInv, CoalescerTyped, States
    <3>2. CASE runner' = [runner EXCEPT ![1] = Resting]
      BY <3>2, TickPathValues DEF TickPathInv, CoalescerTyped, States
    <3> QED
      BY <1>2, <2>3, <3>1, <3>2 DEF FlushNext
  <2>4. CASE FlushSend(s)
    <3>1. runner' = [runner EXCEPT ![1] = Resting] \/ runner' = [runner EXCEPT ![1] = [Resting EXCEPT !.pc = "flush"]]
      BY <1>2, <1>3, <2>4 DEF FlushSend
    <3> DEFINE g == [Resting EXCEPT !.pc = "flush"]
    <3>2. g \in RunnerRec /\ g.pc = "flush" /\ Resting \in RunnerRec /\ Resting.pc = "idle"
      BY TickPathValues
    <3>3. runner' = [runner EXCEPT ![1] = Resting] \/ runner' = [runner EXCEPT ![1] = g]
      BY <3>1
    <3> HIDE DEF g
    <3> QED
      BY <3>2, <3>3 DEF TickPathInv, CoalescerTyped, States
  <2> QED
    BY <2>2, <2>3, <2>4
<1>6. latest' \in [States -> [Keys -> Nat]]
  <2>1. CASE latest' = latest
    BY <2>1 DEF TickPathInv, CoalescerTyped
  <2>2. CASE \E e \in Keys, t \in Nat : latest' = [latest EXCEPT ![1] = [latest[1] EXCEPT ![e] = t]]
    BY <2>2 DEF TickPathInv, CoalescerTyped, States
  <2>3. runner[1].e \in Keys /\ runner[1].t \in Nat
    BY DEF TickPathInv, CoalescerTyped, States, RunnerRec
  <2>4. CASE RunSelect(s)
    BY <2>1, <2>4 DEF RunSelect
  <2>5. CASE FlushNext(s)
    BY <1>2, <2>1, <2>2, <2>5 DEF FlushNext
  <2>6. CASE FlushSend(s)
    BY <1>2, <2>1, <2>2, <2>3, <2>6 DEF FlushSend
  <2> QED
    BY <2>4, <2>5, <2>6
<1>7. tickChan' \in Seq(Tick)
  <2> DEFINE v == [e |-> runner[1].e, t |-> runner[1].t]
  <2>1. tickChan' = tickChan \/ tickChan' = Append(tickChan, v)
    BY <1>2 DEF RunSelect, FlushNext, FlushSend
  <2>2. v \in Tick
    BY DEF TickPathInv, CoalescerTyped, States, RunnerRec, Tick
  <2> HIDE DEF v
  <2> QED
    BY <2>1, <2>2 DEF TickPathInv, DispatchTyped
<1>8. CoalescerTyped'
  BY <1>1, <1>5, <1>6 DEF TickPathInv, CoalescerTyped
<1>9. DispatchTyped'
  BY <1>1, <1>7 DEF TickPathInv, DispatchTyped
<1>10. StateInv'
  BY <1>1, <1>2, <1>5 DEF TickPathInv, StateInv
<1>11. CloseInv'
  BY <1>1, <1>2, <1>4, <1>5 DEF TickPathInv, CloseInv
<1>12. SubmitInv'
  BY <1>1 DEF TickPathInv, SubmitInv
<1> QED
  BY <1>8, <1>9, <1>10, <1>11, <1>12 DEF TickPathInv

\* The dispatcher and the ingestion worker.
LEMMA DispatchPath ==
    ASSUME TickPathInv, DispatchTake \/ DispatchPush \/ WorkerTake \/ WorkerProcess, UNCHANGED managerVars
    PROVE  TickPathInv'
<1>1. UNCHANGED <<registered, created, stateVars, submitting, submitted, panicked, stopVars>>
  BY DEF DispatchTake, DispatchPush, WorkerTake, WorkerProcess
<1>2. CoalescerTyped' /\ StateInv' /\ CloseInv' /\ SubmitInv'
  BY <1>1 DEF TickPathInv, CoalescerTyped, StateInv, CloseInv, SubmitInv
<1>3. /\ tickChan \in Seq(Tick) /\ queue \in Seq(Tick) /\ dispatcher \in DispatcherRec
      /\ worker \in WorkerRec /\ delivered \in [Keys -> Nat]
  BY DEF TickPathInv, DispatchTyped
<1> SUFFICES DispatchTyped'
  BY <1>2 DEF TickPathInv
<1>4. CASE DispatchTake
  <2>1. CASE tickChan # <<>> /\ dispatcher' = [pc |-> "push", e |-> Head(tickChan).e, t |-> Head(tickChan).t]
             /\ tickChan' = Tail(tickChan)
    <3>1. Head(tickChan) \in Tick /\ Tail(tickChan) \in Seq(Tick)
      BY <1>3, <2>1
    <3>2. dispatcher' \in DispatcherRec
      BY <2>1, <3>1 DEF Tick, DispatcherRec
    <3> QED
      BY <1>3, <1>4, <2>1, <3>1, <3>2 DEF DispatchTake, DispatchTyped
  <2>2. CASE dispatcher' = [Resting EXCEPT !.pc = "ended"] /\ UNCHANGED tickChan
    BY <1>3, <1>4, <2>2, TickPathValues DEF DispatchTake, DispatchTyped
  <2> QED
    BY <1>4, <2>1, <2>2 DEF DispatchTake
<1>5. CASE DispatchPush
  <2>1. [e |-> dispatcher.e, t |-> dispatcher.t] \in Tick
    BY <1>3 DEF DispatcherRec, Tick
  <2>2. queue' \in Seq(Tick)
    BY <1>3, <1>5, <2>1 DEF DispatchPush
  <2>3. dispatcher' \in DispatcherRec
    BY <1>5, TickPathValues DEF DispatchPush
  <2> QED
    BY <1>3, <1>5, <2>2, <2>3 DEF DispatchPush, DispatchTyped
<1>6. CASE WorkerTake
  <2>1. CASE queue # <<>> /\ worker' = [pc |-> "process", e |-> Head(queue).e, t |-> Head(queue).t]
             /\ queue' = Tail(queue)
    <3>1. Head(queue) \in Tick /\ Tail(queue) \in Seq(Tick)
      BY <1>3, <2>1
    <3>2. worker' \in WorkerRec
      BY <2>1, <3>1 DEF Tick, WorkerRec
    <3> QED
      BY <1>3, <1>6, <2>1, <3>1, <3>2 DEF WorkerTake, DispatchTyped
  <2>2. CASE worker' = [Resting EXCEPT !.pc = "ended"] /\ UNCHANGED queue
    BY <1>3, <1>6, <2>2, TickPathValues DEF WorkerTake, DispatchTyped
  <2> QED
    BY <1>6, <2>1, <2>2 DEF WorkerTake
<1>7. CASE WorkerProcess
  <2>1. worker.e \in Keys /\ worker.t \in Nat
    BY <1>3 DEF WorkerRec
  <2> QED
    BY <1>3, <1>7, <2>1, TickPathValues DEF WorkerProcess, DispatchTyped
<1> QED
  BY <1>4, <1>5, <1>6, <1>7

\* The steps of cleanup that reach the tick path.
LEMMA CleanupPath ==
    ASSUME ManagerInv, TickPathInv, DrainStop \/ DrainClear \/ CloseQueues \/ ForgetState
    PROVE  TickPathInv'
<1>1. UNCHANGED <<submitting, submitted, tickChan, panicked, dispatchVars, connector, stopErr>>
  BY DEF DrainStop, DrainClear, CloseQueues, ForgetState
<1>2. DispatchTyped' /\ SubmitInv'
  BY <1>1 DEF TickPathInv, DispatchTyped, SubmitInv
<1>3. CASE DrainStop
  <2>1. cleanup = "stopall" /\ cleanup' = "draining" /\ UNCHANGED <<latest, done, stopVars>>
    BY <1>3 DEF DrainStop, SetCleanup
  <2>2. PICK s \in States : LoadOrStore(s) /\ stopped' = [stopped EXCEPT ![s] = TRUE]
    BY <1>3 DEF DrainStop
  <2>3. /\ s = 1 /\ registered' = 1 /\ created' = 1
        /\ runner' \in [States -> RunnerRec] /\ runner'[2].pc = "none" /\ runner'[1].pc # "none"
    BY <2>1, <2>2, OneState
  <2>4. stopped' \in [States -> BOOLEAN] /\ stopped'[1] /\ \A x \in States : stopped[x] => stopped'[x]
    BY <2>2, <2>3 DEF TickPathInv, CoalescerTyped, States
  <2>5. CoalescerTyped'
    BY <1>1, <2>1, <2>3, <2>4 DEF TickPathInv, CoalescerTyped
  <2>6. StateInv'
    BY <2>1, <2>3, <2>4 DEF TickPathInv, StateInv
  <2>7. CloseInv'
    BY <1>1, <2>1, <2>3, <2>4 DEF TickPathInv, CloseInv
  <2> QED
    BY <1>2, <2>5, <2>6, <2>7 DEF TickPathInv
<1>4. CASE DrainClear
  <2>1. /\ cleanup = "draining" /\ cleanup' = "drained"
        /\ UNCHANGED <<registered, created, stopped, runner, stopVars>>
    BY <1>4 DEF DrainClear, SetCleanup
  <2>2. registered = 1
    BY <2>1 DEF TickPathInv, CloseInv
  <2>3. latest' = [latest EXCEPT ![1] = [e \in Keys |-> 0]] /\ done' = [done EXCEPT ![1] = TRUE]
    BY <1>4, <2>2 DEF DrainClear
  <2>4. latest' \in [States -> [Keys -> Nat]] /\ done' \in [States -> BOOLEAN]
    BY <2>3 DEF TickPathInv, CoalescerTyped, States
  <2>5. \A s \in States : done'[s] => stopped[s]
    BY <2>1, <2>3 DEF TickPathInv, CoalescerTyped, StateInv, CloseInv, States
  <2>6. CoalescerTyped' /\ StateInv' /\ CloseInv'
    BY <1>1, <2>1, <2>4, <2>5 DEF TickPathInv, CoalescerTyped, StateInv, CloseInv
  <2> QED
    BY <1>2, <2>6 DEF TickPathInv
<1>5. CASE CloseQueues
  <2>1. /\ cleanup = "drained" /\ cleanup' = "closed" /\ runner[registered].pc = "ended"
        /\ UNCHANGED <<registered, created, stateVars>>
    BY <1>5 DEF CloseQueues, SetCleanup
  <2>2. CoalescerTyped' /\ StateInv' /\ CloseInv'
    BY <1>1, <2>1 DEF TickPathInv, CoalescerTyped, StateInv, CloseInv
  <2> QED
    BY <1>2, <2>2 DEF TickPathInv
<1>6. CASE ForgetState
  <2>1. /\ cleanup = "closed" /\ cleanup' = "done" /\ registered' = IF stopErr THEN registered ELSE 0
        /\ UNCHANGED <<created, stateVars, stopVars>>
    BY <1>6 DEF ForgetState, SetCleanup
  <2>2. CoalescerTyped' /\ StateInv' /\ CloseInv'
    BY <1>1, <2>1 DEF TickPathInv, CoalescerTyped, StateInv, CloseInv
  <2> QED
    BY <1>2, <2>2 DEF TickPathInv
<1> QED
  BY <1>3, <1>4, <1>5, <1>6

\* Every step of the system preserves the tick path's invariant.
LEMMA TickPathStep == ManagerInv /\ TickPathInv /\ [Next]_vars => TickPathInv'
<1> SUFFICES ASSUME ManagerInv, TickPathInv, [Next]_vars PROVE TickPathInv'
  OBVIOUS
<1>1. CASE TickStep
  BY <1>1, RunnerPath, DispatchPath DEF TickStep
<1>2. CASE \E c \in Connectors : Produce(c) \/ SubmitStep(c) \/ ConnectorReturns(c)
  BY <1>2, ProducePath, SubmitStepPath, ReturnsPath
<1>3. CASE StopAllBegin
  <2>1. LivesKept
    BY <1>3, StopAllBeginInv
  <2>2. UNCHANGED ingressVars /\ cleanup = "running" /\ cleanup' = "stopall"
    BY <1>3 DEF StopAllBegin, SetCleanup
  <2> QED
    BY <2>1, <2>2, ManagerOnlyPath
<1>4. CASE \E c \in Connectors : StopAllWait(c)
  <2>1. LivesKept /\ UNCHANGED ingressVars /\ cleanup' = cleanup /\ cleanup = "stopall"
    BY <1>4 DEF StopAllWait, LivesKept
  <2> QED
    BY <2>1, ManagerOnlyPath
<1>5. CASE DrainStop \/ DrainClear \/ CloseQueues \/ ForgetState
  BY <1>5, CleanupPath
<1>6. CASE \E w \in Workers : CommandStep(w)
  <2>1. LivesKept
    BY <1>6, StopOldInv, StartNewInv, BeginInv DEF CommandStep
  <2>2. UNCHANGED <<ingressVars, cleanup, stopErr>>
    BY <1>6 DEF CommandStep, StopOld, StartNew, BeginCommand
  <2> QED
    BY <2>1, <2>2, ManagerOnlyPath
<1>7. CASE UNCHANGED vars
  BY <1>7 DEF vars, TickPathInv, CoalescerTyped, DispatchTyped, StateInv, CloseInv, SubmitInv
<1> QED
  BY <1>1, <1>2, <1>3, <1>4, <1>5, <1>6, <1>7 DEF Next, CleanupStep

\* The tick path's invariant holds of every state.
LEMMA TickPathInductive == Spec => [](ManagerInv /\ TickPathInv)
  BY ManagerInit, ManagerStep, TickPathInit, TickPathStep, PTL DEF Spec

\* No goroutine sends into the closed tick channel (app.go closes it while a
\* connector that outlived StopAll's timeout may still call ingress.Submit), for
\* any number of connectors, commands and ticks.
THEOREM ClosedChannelIsSafe == Spec => []NeverSendsToClosed
<1>1. TickPathInv => NeverSendsToClosed
  BY DEF TickPathInv, StateInv, CloseInv, NeverSendsToClosed, States
<1> QED
  BY <1>1, TickPathInductive, PTL

-----------------------------------------------------------------------------
(* Ticks stay in order. *)

\* A tick joins the end of a channel.
LEMMA AppendKeepsOrder ==
    ASSUME NEW c \in Seq(Tick), NEW v \in Tick, Sorted(c), \A x \in Nat : In(c, v.e, x) => x <= v.t
    PROVE  /\ Sorted(Append(c, v))
           /\ \A k, x : In(Append(c, v), k, x) => In(c, k, x) \/ (k = v.e /\ x = v.t)
<1> DEFINE a == Append(c, v)
<1>1. /\ Len(a) = Len(c) + 1 /\ Len(c) \in Nat /\ a[Len(c) + 1] = v
      /\ \A i \in 1..Len(c) : a[i] = c[i] /\ c[i] \in Tick
  OBVIOUS
<1> HIDE DEF a
<1>2. \A i \in 1..Len(a) : i = Len(c) + 1 \/ i \in 1..Len(c)
  BY <1>1
<1>3. \A i \in 1..Len(c) : c[i].t \in Nat /\ (c[i].e = v.e => c[i].t <= v.t)
  BY <1>1 DEF In, Tick
<1>4. Sorted(a)
  BY <1>1, <1>2, <1>3 DEF Sorted
<1>5. \A k, x : In(a, k, x) => In(c, k, x) \/ (k = v.e /\ x = v.t)
  BY <1>1, <1>2 DEF In
<1> QED
  BY <1>4, <1>5 DEF a

\* The head of a channel is taken.
LEMMA TailKeepsOrder ==
    ASSUME NEW c \in Seq(Tick), c # <<>>, Sorted(c)
    PROVE  /\ Sorted(Tail(c)) /\ Head(c) \in Tick /\ In(c, Head(c).e, Head(c).t)
           /\ \A k, x : In(Tail(c), k, x) => In(c, k, x)
           /\ \A y : In(Tail(c), Head(c).e, y) => Head(c).t <= y
<1> DEFINE a == Tail(c)
<1>1. /\ Len(c) \in Nat \ {0} /\ Len(a) = Len(c) - 1 /\ Head(c) = c[1] /\ Head(c) \in Tick
      /\ \A i \in 1..Len(a) : a[i] = c[i + 1] /\ i + 1 \in 1..Len(c)
  OBVIOUS
<1> HIDE DEF a
<1>2. Sorted(a)
  <2> SUFFICES ASSUME NEW i \in 1..Len(a), NEW j \in 1..Len(a), i < j, a[i].e = a[j].e
               PROVE  a[i].t <= a[j].t
    BY DEF Sorted
  <2>1. /\ a[i] = c[i + 1] /\ a[j] = c[j + 1] /\ i + 1 \in 1..Len(c) /\ j + 1 \in 1..Len(c)
        /\ i + 1 < j + 1
    BY <1>1
  <2> QED
    BY <2>1 DEF Sorted
<1>3. \A k, x : In(a, k, x) => In(c, k, x)
  BY <1>1 DEF In
<1>4. In(c, Head(c).e, Head(c).t)
  BY <1>1 DEF In
<1>5. \A y : In(a, Head(c).e, y) => Head(c).t <= y
  BY <1>1 DEF In, Sorted
<1> QED
  BY <1>1, <1>2, <1>3, <1>4, <1>5 DEF a

\* A tick moves one place on and is not newer than what follows it.
LEMMA MoveKeepsOrder ==
    ASSUME Ordered, NEW n \in 0..8, NEW p \in 0..8, p = n + 1, NEW q \in Keys, NEW v \in Nat,
           Moves(n, p, q, v)
    PROVE  Ordered'
<1> SUFFICES ASSUME NEW k \in Keys, NEW a \in 0..8, NEW b \in 0..8, NEW x \in Nat, NEW y \in Nat,
                    a < b, At(k, a, x)', At(k, b, y)'
             PROVE  x <= y
  BY DEF Ordered
<1>1. CASE At(k, a, x) /\ At(k, b, y)
  BY <1>1 DEF Ordered
<1>2. CASE At(k, a, x) /\ k = q /\ b = n /\ y = v
  BY <1>2 DEF Ordered, Moves
<1>3. CASE k = q /\ a = n /\ x = v /\ At(k, b, y)
  <2>1. CASE b = p
    BY <1>3, <2>1 DEF Moves
  <2>2. CASE b # p
    <3>1. p < b
      BY <1>3, <2>2
    <3> QED
      BY <1>3, <3>1 DEF Ordered, Moves
  <2> QED
    BY <2>1, <2>2
<1>4. /\ At(k, a, x) \/ (k = q /\ a = n /\ x = v)
      /\ At(k, b, y) \/ (k = q /\ b = n /\ y = v)
  BY DEF Moves
<1> QED
  BY <1>1, <1>2, <1>3, <1>4

\* Ticks are only dropped.
LEMMA DropKeepsOrder ==
    ASSUME Ordered, \A k \in Keys, m \in 0..8, x \in Nat : At(k, m, x)' => At(k, m, x)
    PROVE  Ordered'
  BY DEF Ordered

\* The worker gives its tick to the aggregator.
LEMMA WorkerProcessOrder ==
    ASSUME TickPathInv, OrderInv, WorkerProcess
    PROVE  OrderInv' /\ \A k \in Keys : delivered'[k] >= delivered[k]
<1>1. worker.e \in Keys /\ worker.t \in Nat /\ worker.pc = "process" /\ delivered \in [Keys -> Nat]
  BY DEF TickPathInv, DispatchTyped, WorkerRec, WorkerProcess
<1>2. PICK q \in Keys, v \in Nat : q = worker.e /\ v = worker.t
  BY <1>1
<1>3. /\ delivered' = [delivered EXCEPT ![q] = v] /\ worker'.pc = "idle"
      /\ UNCHANGED <<queue, dispatcher, tickChan, runner, latest, submitting, submitted>>
  BY <1>2, TickPathValues DEF WorkerProcess
<1>4. At(q, 1, v) /\ At(q, 0, delivered[q])
  BY <1>1, <1>2 DEF At
<1>5. delivered[q] <= v
  BY <1>1, <1>4 DEF OrderInv, Ordered
<1>6. Moves(0, 1, q, v)
  <2>1. \A k \in Keys, m \in 0..8, x \in Nat : At(k, m, x)' => At(k, m, x) \/ (k = q /\ m = 0 /\ x = v)
    BY <1>1, <1>3 DEF At
  <2>2. \A y \in Nat : At(q, 1, y)' => v <= y
    BY <1>3 DEF At
  <2> QED
    BY <1>4, <2>1, <2>2 DEF Moves
<1>7. Ordered'
  BY <1>6, MoveKeepsOrder DEF OrderInv
<1> QED
  BY <1>1, <1>3, <1>5, <1>7 DEF OrderInv, Sorted

\* The worker takes a tick from its queue.
LEMMA WorkerTakeOrder ==
    ASSUME TickPathInv, OrderInv, WorkerTake
    PROVE  OrderInv' /\ UNCHANGED delivered
<1>1. UNCHANGED <<delivered, dispatcher, tickChan, runner, latest, submitting, submitted>>
  BY DEF WorkerTake
<1>2. CASE /\ queue # <<>> /\ queue' = Tail(queue)
           /\ worker' = [pc |-> "process", e |-> Head(queue).e, t |-> Head(queue).t]
  <2>1. /\ Sorted(queue') /\ Head(queue) \in Tick /\ In(queue, Head(queue).e, Head(queue).t)
        /\ \A k, x : In(queue', k, x) => In(queue, k, x)
        /\ \A y : In(queue', Head(queue).e, y) => Head(queue).t <= y
    BY <1>2, TailKeepsOrder DEF TickPathInv, DispatchTyped, OrderInv
  <2>2. PICK q \in Keys, v \in Nat : q = Head(queue).e /\ v = Head(queue).t
    BY <2>1 DEF Tick
  <2>3. worker'.e = q /\ worker'.t = v /\ In(queue, q, v) /\ \A y : In(queue', q, y) => v <= y
    BY <1>2, <2>1, <2>2
  <2>4. Moves(1, 2, q, v)
    <3>1. At(q, 2, v)
      BY <2>3 DEF At
    <3>2. \A k \in Keys, m \in 0..8, x \in Nat : At(k, m, x)' => At(k, m, x) \/ (k = q /\ m = 1 /\ x = v)
      BY <1>1, <2>1, <2>3 DEF At
    <3>3. \A y \in Nat : At(q, 2, y)' => v <= y
      BY <2>3 DEF At
    <3> QED
      BY <3>1, <3>2, <3>3 DEF Moves
  <2>5. Ordered'
    BY <2>4, MoveKeepsOrder DEF OrderInv
  <2> QED
    BY <1>1, <2>1, <2>5 DEF OrderInv, Sorted
<1>3. CASE worker' = [Resting EXCEPT !.pc = "ended"] /\ UNCHANGED queue
  <2>1. worker'.pc = "ended"
    BY <1>3, TickPathValues
  <2>2. \A k \in Keys, m \in 0..8, x \in Nat : At(k, m, x)' => At(k, m, x)
    BY <1>1, <1>3, <2>1 DEF At
  <2>3. Ordered'
    BY <2>2, DropKeepsOrder DEF OrderInv
  <2> QED
    BY <1>1, <1>3, <2>3 DEF OrderInv, Sorted
<1> QED
  BY <1>2, <1>3 DEF WorkerTake

\* The dispatcher passes its tick on to the queue, or drops it.
LEMMA DispatchPushOrder ==
    ASSUME TickPathInv, OrderInv, DispatchPush
    PROVE  OrderInv' /\ UNCHANGED delivered
<1>1. UNCHANGED <<delivered, worker, tickChan, runner, latest, submitting, submitted>>
  BY DEF DispatchPush
<1>2. dispatcher.e \in Keys /\ dispatcher.t \in Nat /\ dispatcher.pc = "push"
  BY DEF TickPathInv, DispatchTyped, DispatcherRec, DispatchPush
<1>3. PICK q \in Keys, v \in Nat : q = dispatcher.e /\ v = dispatcher.t
  BY <1>2
<1>4. dispatcher'.pc # "push"
  BY TickPathValues DEF DispatchPush
<1>5. At(q, 3, v)
  BY <1>2, <1>3 DEF At
<1>6. CASE queue' = Append(queue, [e |-> q, t |-> v])
  <2> DEFINE r == [e |-> q, t |-> v]
  <2>1. r \in Tick /\ r.e = q /\ r.t = v /\ queue' = Append(queue, r)
    BY <1>6 DEF Tick
  <2> HIDE DEF r
  <2>2. \A x \in Nat : In(queue, q, x) => x <= v
    <3>1. \A x \in Nat : In(queue, q, x) => At(q, 2, x)
      BY DEF At
    <3> QED
      BY <1>5, <3>1 DEF OrderInv, Ordered
  <2>3. /\ Sorted(queue')
        /\ \A k, x : In(queue', k, x) => In(queue, k, x) \/ (k = q /\ x = v)
    BY <2>1, <2>2, AppendKeepsOrder DEF TickPathInv, DispatchTyped, OrderInv
  <2>4. Moves(2, 3, q, v)
    <3>1. \A k \in Keys, m \in 0..8, x \in Nat : At(k, m, x)' => At(k, m, x) \/ (k = q /\ m = 2 /\ x = v)
      BY <1>1, <1>4, <2>3 DEF At
    <3>2. \A y \in Nat : At(q, 3, y)' => v <= y
      BY <1>4 DEF At
    <3> QED
      BY <1>5, <3>1, <3>2 DEF Moves
  <2>5. Ordered'
    BY <2>4, MoveKeepsOrder DEF OrderInv
  <2> QED
    BY <1>1, <2>3, <2>5 DEF OrderInv, Sorted
<1>7. CASE queue' = queue
  <2>1. \A k \in Keys, m \in 0..8, x \in Nat : At(k, m, x)' => At(k, m, x)
    BY <1>1, <1>4, <1>7 DEF At
  <2>2. Ordered'
    BY <2>1, DropKeepsOrder DEF OrderInv
  <2> QED
    BY <1>1, <1>7, <2>2 DEF OrderInv, Sorted
<1>8. queue' = queue \/ queue' = Append(queue, [e |-> q, t |-> v])
  BY <1>3 DEF DispatchPush
<1> QED
  BY <1>6, <1>7, <1>8

\* The dispatcher takes a tick from the tick channel.
LEMMA DispatchTakeOrder ==
    ASSUME TickPathInv, OrderInv, DispatchTake
    PROVE  OrderInv' /\ UNCHANGED delivered
<1>1. UNCHANGED <<delivered, worker, queue, runner, latest, submitting, submitted>>
  BY DEF DispatchTake
<1>2. CASE /\ tickChan # <<>> /\ tickChan' = Tail(tickChan)
           /\ dispatcher' = [pc |-> "push", e |-> Head(tickChan).e, t |-> Head(tickChan).t]
  <2>1. /\ Sorted(tickChan') /\ Head(tickChan) \in Tick /\ In(tickChan, Head(tickChan).e, Head(tickChan).t)
        /\ \A k, x : In(tickChan', k, x) => In(tickChan, k, x)
        /\ \A y : In(tickChan', Head(tickChan).e, y) => Head(tickChan).t <= y
    BY <1>2, TailKeepsOrder DEF TickPathInv, DispatchTyped, OrderInv
  <2>2. PICK q \in Keys, v \in Nat : q = Head(tickChan).e /\ v = Head(tickChan).t
    BY <2>1 DEF Tick
  <2>3. dispatcher'.e = q /\ dispatcher'.t = v /\ In(tickChan, q, v) /\ \A y : In(tickChan', q, y) => v <= y
    BY <1>2, <2>1, <2>2
  <2>4. Moves(3, 4, q, v)
    <3>1. At(q, 4, v)
      BY <2>3 DEF At
    <3>2. \A k \in Keys, m \in 0..8, x \in Nat : At(k, m, x)' => At(k, m, x) \/ (k = q /\ m = 3 /\ x = v)
      BY <1>1, <2>1, <2>3 DEF At
    <3>3. \A y \in Nat : At(q, 4, y)' => v <= y
      BY <2>3 DEF At
    <3> QED
      BY <3>1, <3>2, <3>3 DEF Moves
  <2>5. Ordered'
    BY <2>4, MoveKeepsOrder DEF OrderInv
  <2> QED
    BY <1>1, <2>1, <2>5 DEF OrderInv, Sorted
<1>3. CASE dispatcher' = [Resting EXCEPT !.pc = "ended"] /\ UNCHANGED tickChan
  <2>1. dispatcher'.pc = "ended"
    BY <1>3, TickPathValues
  <2>2. \A k \in Keys, m \in 0..8, x \in Nat : At(k, m, x)' => At(k, m, x)
    BY <1>1, <1>3, <2>1 DEF At
  <2>3. Ordered'
    BY <2>2, DropKeepsOrder DEF OrderInv
  <2> QED
    BY <1>1, <1>3, <2>3 DEF OrderInv, Sorted
<1> QED
  BY <1>2, <1>3 DEF DispatchTake

\* The coalescer's goroutine takes a pending tick, sends it or drops it.
LEMMA RunnerOrder ==
    ASSUME TickPathInv, OrderInv, NEW s \in States, RunSelect(s) \/ FlushNext(s) \/ FlushSend(s)
    PROVE  OrderInv' /\ UNCHANGED delivered
<1>1. UNCHANGED <<delivered, worker, queue, dispatcher, submitting, submitted>>
  BY DEF RunSelect, FlushNext, FlushSend
<1>2. s = 1 /\ runner[1].pc \in {"idle", "flush", "send"} /\ ~tickClosed
  BY DEF RunSelect, FlushNext, FlushSend, TickPathInv, StateInv, CloseInv, States
<1>3. runner \in [States -> RunnerRec] /\ latest \in [States -> [Keys -> Nat]] /\ 1 \in States
  BY DEF TickPathInv, CoalescerTyped, States
<1>4. CASE UNCHANGED <<tickChan, latest>> /\ runner'[1].pc # "send"
  <2>1. \A k \in Keys, m \in 0..8, x \in Nat : At(k, m, x)' => At(k, m, x)
    BY <1>1, <1>4 DEF At
  <2>2. Ordered'
    BY <2>1, DropKeepsOrder DEF OrderInv
  <2> QED
    BY <1>1, <1>4, <2>2 DEF OrderInv, Sorted
<1>5. CASE RunSelect(s)
  <2>1. UNCHANGED <<tickChan, latest>>
    BY <1>5 DEF RunSelect
  <2>2. runner'[1].pc \in {"flush", "ended"}
    BY <1>2, <1>3, <1>5 DEF RunSelect, RunnerRec
  <2> QED
    BY <1>4, <2>1, <2>2
<1>6. CASE FlushNext(s)
  <2>1. CASE runner' = [runner EXCEPT ![1] = Resting] /\ UNCHANGED <<tickChan, latest>>
    BY <1>3, <1>4, <2>1, TickPathValues
  <2>2. CASE \E e \in Keys : /\ latest[1][e] # 0
                             /\ latest' = [latest EXCEPT ![1] = [latest[1] EXCEPT ![e] = 0]]
                             /\ runner' = [runner EXCEPT ![1] = [pc |-> "send", e |-> e, t |-> latest[1][e]]]
                             /\ UNCHANGED tickChan
    <3>1. PICK q \in Keys : /\ latest[1][q] # 0
                            /\ latest' = [latest EXCEPT ![1] = [latest[1] EXCEPT ![q] = 0]]
                            /\ runner' = [runner EXCEPT ![1] = [pc |-> "send", e |-> q, t |-> latest[1][q]]]
                            /\ UNCHANGED tickChan
      BY <2>2
    <3>2. PICK v \in Nat : v = latest[1][q]
      BY <1>3
    <3>3. /\ runner'[1].e = q /\ runner'[1].t = v /\ latest'[1][q] = 0
          /\ \A k \in Keys : k # q => latest'[1][k] = latest[1][k]
      BY <1>3, <3>1, <3>2
    <3>4. Moves(5, 6, q, v)
      <4>1. At(q, 6, v)
        BY <3>1, <3>2 DEF At
      <4>2. \A k \in Keys, m \in 0..8, x \in Nat : At(k, m, x)' => At(k, m, x) \/ (k = q /\ m = 5 /\ x = v)
        BY <1>1, <3>1, <3>3 DEF At
      <4>3. \A y \in Nat : At(q, 6, y)' => v <= y
        BY <3>3 DEF At
      <4> QED
        BY <4>1, <4>2, <4>3 DEF Moves
    <3>5. Ordered'
      BY <3>4, MoveKeepsOrder DEF OrderInv
    <3> QED
      BY <1>1, <3>1, <3>5 DEF OrderInv, Sorted
  <2> QED
    BY <1>2, <1>6, <2>1, <2>2 DEF FlushNext
<1>7. CASE FlushSend(s)
  <2> DEFINE g == [Resting EXCEPT !.pc = "flush"]
  <2>1. g.pc = "flush" /\ Resting.pc = "idle"
    BY TickPathValues
  <2>2. \/ /\ tickChan' = Append(tickChan, [e |-> runner[1].e, t |-> runner[1].t])
           /\ runner' = [runner EXCEPT ![1] = g] /\ UNCHANGED latest
        \/ runner' = [runner EXCEPT ![1] = Resting] /\ UNCHANGED <<tickChan, latest>>
    BY <1>2, <1>7 DEF FlushSend, TickPathInv, StateInv
  <2> HIDE DEF g
  <2>3. runner[1].pc = "send" /\ runner[1].e \in Keys /\ runner[1].t \in Nat
    BY <1>2, <1>3, <1>7 DEF FlushSend, RunnerRec
  <2>4. runner'[1].pc # "send"
    BY <1>3, <2>1, <2>2
  <2>5. PICK q \in Keys, v \in Nat : q = runner[1].e /\ v = runner[1].t
    BY <2>3
  <2>6. CASE tickChan' = Append(tickChan, [e |-> q, t |-> v]) /\ UNCHANGED latest
    <3> DEFINE r == [e |-> q, t |-> v]
    <3>1. r \in Tick /\ r.e = q /\ r.t = v /\ tickChan' = Append(tickChan, r)
      BY <2>6 DEF Tick
    <3> HIDE DEF r
    <3>2. At(q, 5, v)
      BY <2>3, <2>5 DEF At
    <3>3. \A x \in Nat : In(tickChan, q, x) => x <= v
      <4>1. \A x \in Nat : In(tickChan, q, x) => At(q, 4, x)
        BY DEF At
      <4> QED
        BY <3>2, <4>1 DEF OrderInv, Ordered
    <3>4. /\ Sorted(tickChan')
          /\ \A k, x : In(tickChan', k, x) => In(tickChan, k, x) \/ (k = q /\ x = v)
      BY <3>1, <3>3, AppendKeepsOrder DEF TickPathInv, DispatchTyped, OrderInv
    <3>5. Moves(4, 5, q, v)
      <4>1. \A k \in Keys, m \in 0..8, x \in Nat : At(k, m, x)' => At(k, m, x) \/ (k = q /\ m = 4 /\ x = v)
        BY <1>1, <2>4, <2>6, <3>4 DEF At
      <4>2. \A y \in Nat : At(q, 5, y)' => v <= y
        BY <2>4 DEF At
      <4> QED
        BY <3>2, <4>1, <4>2 DEF Moves
    <3>6. Ordered'
      BY <3>5, MoveKeepsOrder DEF OrderInv
    <3> QED
      BY <1>1, <3>4, <3>6 DEF OrderInv, Sorted
  <2> QED
    BY <1>4, <2>2, <2>4, <2>5, <2>6
<1> QED
  BY <1>5, <1>6, <1>7

\* A new tick is newer than every earlier one of its key.
LEMMA ProduceOrder ==
    ASSUME ManagerInv, TickPathInv, OrderInv, NEW c \in Connectors, Produce(c)
    PROVE  OrderInv' /\ UNCHANGED delivered
<1>1. PICK m \in Markets : SubmitLoad(<<c, m>>, <<connector[c].e, m>>)
  BY DEF Produce
<1>2. <<c, m>> \in Streams /\ <<connector[c].e, m>> \in Keys /\ connector[c].life = "running"
  BY ConnectorExchange DEF Produce, Streams, Keys
<1>3. PICK q \in Keys, u \in Nat : q = <<connector[c].e, m>> /\ u = submitted[q]
  BY <1>2 DEF TickPathInv, CoalescerTyped
<1>4. ~(cleanup = "done" /\ ~stopErr)
  BY <1>2 DEF ManagerInv, StopInv
<1>5. PICK s \in States : /\ LoadOrStore(s)
                          /\ submitting' = [submitting EXCEPT ![<<c, m>>] =
                                               [pc |-> "loaded", s |-> s, e |-> q, t |-> u + 1]]
  BY <1>1, <1>3 DEF SubmitLoad
<1>6. /\ submitted' = [submitted EXCEPT ![q] = u + 1]
      /\ UNCHANGED <<latest, tickChan, delivered, queue, worker, dispatcher>>
  BY <1>1, <1>3 DEF SubmitLoad
<1>7. runner'[1] = runner[1] \/ runner'[1].pc = "idle"
  BY <1>4, <1>5, OneState
<1>8. /\ submitting'[<<c, m>>].e = q /\ submitting'[<<c, m>>].t = u + 1
      /\ \A x \in Streams : x # <<c, m>> => submitting'[x] = submitting[x]
  BY <1>2, <1>5 DEF TickPathInv, CoalescerTyped
<1>9. submitted'[q] = u + 1 /\ \A k \in Keys : k # q => submitted'[k] = submitted[k]
  BY <1>6 DEF TickPathInv, CoalescerTyped
<1>10. ASSUME NEW k \in Keys, NEW n \in 0..8, NEW x \in Nat, At(k, n, x)'
       PROVE  \/ At(k, n, x) /\ (k # q \/ n # 8)
              \/ k = q /\ n \in {7, 8} /\ x = u + 1
  <2>1. CASE n = 7
    BY <1>8, <1>10, <2>1 DEF At
  <2>2. CASE n = 8
    BY <1>9, <1>10, <2>2 DEF At
  <2>3. CASE n \notin {7, 8}
    BY <1>6, <1>7, <1>10, <2>3 DEF At
  <2> QED
    BY <2>1, <2>2, <2>3
<1>11. \A n \in 0..7, x \in Nat : At(q, n, x) => x < u + 1
  <2>1. At(q, 8, u)
    BY <1>3 DEF At
  <2> QED
    BY <2>1 DEF OrderInv, Ordered
<1>12. Ordered'
  <2> SUFFICES ASSUME NEW k \in Keys, NEW a \in 0..8, NEW b \in 0..8, NEW x \in Nat, NEW y \in Nat,
                      a < b, At(k, a, x)', At(k, b, y)'
               PROVE  x <= y
    BY DEF Ordered
  <2>1. CASE At(k, a, x) /\ At(k, b, y)
    BY <2>1 DEF OrderInv, Ordered
  <2>2. CASE At(k, a, x) /\ k = q /\ y = u + 1
    BY <1>11, <2>2
  <2>3. CASE k = q /\ a = 7 /\ x = u + 1
    BY <1>10, <2>3
  <2> QED
    BY <1>10, <2>1, <2>2, <2>3
<1> QED
  BY <1>6, <1>12 DEF OrderInv, Sorted

\* Submit stores its tick: no other stream has one of the same key.
LEMMA SubmitStepOrder ==
    ASSUME ManagerInv, TickPathInv, OrderInv, NEW c \in Connectors, SubmitStep(c)
    PROVE  OrderInv' /\ UNCHANGED delivered
<1>1. PICK m \in Markets : SubmitStore(<<c, m>>) \/ SubmitNotify(<<c, m>>)
  BY DEF SubmitStep
<1> DEFINE st == <<c, m>>
           p == submitting[st]
           r == [p EXCEPT !.pc = "stored"]
<1>2. st \in Streams /\ p \in SubmitRec /\ p.pc # "idle" /\ r.pc = "stored"
  BY <1>1 DEF Streams, TickPathInv, CoalescerTyped, SubmitStore, SubmitNotify, SubmitRec
<1>3. p.e \in Keys /\ p.t \in Nat /\ p.s = 1
  BY <1>2 DEF SubmitRec, TickPathInv, SubmitInv
<1>4. UNCHANGED <<delivered, worker, queue, dispatcher, tickChan, runner, submitted>>
  BY <1>1 DEF SubmitStore, SubmitNotify
<1>5. submitting' = [submitting EXCEPT ![st] = Idle] \/ submitting' = [submitting EXCEPT ![st] = r]
  BY <1>1 DEF SubmitStore, SubmitNotify
<1>6. \/ latest' = latest
      \/ p.pc = "loaded" /\ latest' = [latest EXCEPT ![1] = [latest[1] EXCEPT ![p.e] = p.t]]
  BY <1>1, <1>3 DEF SubmitStore, SubmitNotify
<1> HIDE DEF r
<1>7. /\ submitting'[st].pc # "loaded"
      /\ \A x \in Streams : x # st => submitting'[x] = submitting[x]
  BY <1>2, <1>5, TickPathValues DEF TickPathInv, CoalescerTyped
<1>8. CASE latest' = latest
  <2>1. \A k \in Keys, n \in 0..8, x \in Nat : At(k, n, x)' => At(k, n, x)
    BY <1>4, <1>7, <1>8 DEF At
  <2>2. Ordered'
    BY <2>1, DropKeepsOrder DEF OrderInv
  <2> QED
    BY <1>4, <2>2 DEF OrderInv, Sorted
<1>9. CASE p.pc = "loaded" /\ latest' = [latest EXCEPT ![1] = [latest[1] EXCEPT ![p.e] = p.t]]
  <2>1. PICK q \in Keys, v \in Nat : q = p.e /\ v = p.t
    BY <1>3
  <2>2. latest'[1][q] = v /\ \A k \in Keys : k # q => latest'[1][k] = latest[1][k]
    BY <1>9, <2>1 DEF TickPathInv, CoalescerTyped, States
  <2>3. ASSUME NEW x \in Streams, submitting'[x].pc = "loaded", submitting'[x].e = q PROVE FALSE
    <3>1. PICK d \in Connectors, n \in Markets : x = <<d, n>>
      BY DEF Streams
    <3>2. submitting[<<d, n>>].pc = "loaded" /\ submitting[<<d, n>>].e = q /\ <<d, n>> # st
      BY <1>7, <2>3, <3>1
    <3>3. connector[d].life = "running" /\ q = <<connector[d].e, n>>
      BY <3>2 DEF TickPathInv, SubmitInv
    <3>4. connector[c].life = "running" /\ q = <<connector[c].e, m>>
      BY <1>2, <2>1 DEF TickPathInv, SubmitInv
    <3>5. connector[d].e = connector[c].e /\ n = m
      BY <3>3, <3>4
    <3> QED
      BY <3>2, <3>3, <3>4, <3>5 DEF ManagerInv, ConnectorsSupervised
  <2>4. Moves(6, 7, q, v)
    <3>1. At(q, 7, v)
      BY <1>2, <1>9, <2>1 DEF At
    <3>2. \A k \in Keys, n \in 0..8, x \in Nat : At(k, n, x)' => At(k, n, x) \/ (k = q /\ n = 6 /\ x = v)
      BY <1>4, <1>7, <2>2 DEF At
    <3>3. \A y \in Nat : At(q, 7, y)' => v <= y
      BY <2>3 DEF At
    <3> QED
      BY <3>1, <3>2, <3>3 DEF Moves
  <2>5. Ordered'
    BY <2>4, MoveKeepsOrder DEF OrderInv
  <2> QED
    BY <1>4, <2>5 DEF OrderInv, Sorted
<1> QED
  BY <1>6, <1>8, <1>9

\* Cleanup drops what is pending in the stopped state.
LEMMA CleanupOrder ==
    ASSUME TickPathInv, OrderInv, DrainStop \/ DrainClear \/ CloseQueues \/ ForgetState
    PROVE  OrderInv' /\ UNCHANGED delivered
<1>1. UNCHANGED <<delivered, worker, queue, dispatcher, tickChan, submitting, submitted>>
  BY DEF DrainStop, DrainClear, CloseQueues, ForgetState
<1>2. runner'[1] = runner[1] \/ runner'[1].pc = "idle"
  <2>1. CASE DrainStop
    BY <2>1, OneState DEF DrainStop, SetCleanup
  <2>2. CASE DrainClear \/ CloseQueues \/ ForgetState
    BY <2>2 DEF DrainClear, CloseQueues, ForgetState
  <2> QED
    BY <2>1, <2>2
<1>3. \A k \in Keys : latest'[1][k] = latest[1][k] \/ latest'[1][k] = 0
  <2>1. CASE DrainClear
    <3>1. latest' = [latest EXCEPT ![1] = [e \in Keys |-> 0]]
      BY <2>1 DEF DrainClear, SetCleanup, TickPathInv, CloseInv
    <3> QED
      BY <3>1 DEF TickPathInv, CoalescerTyped, States
  <2>2. CASE DrainStop \/ CloseQueues \/ ForgetState
    BY <2>2 DEF DrainStop, CloseQueues, ForgetState
  <2> QED
    BY <2>1, <2>2
<1>4. \A k \in Keys, n \in 0..8, x \in Nat : At(k, n, x)' => At(k, n, x)
  BY <1>1, <1>2, <1>3 DEF At
<1>5. Ordered'
  BY <1>4, DropKeepsOrder DEF OrderInv
<1> QED
  BY <1>1, <1>5 DEF OrderInv, Sorted

\* Every step keeps the order, and no step gives the aggregator an older tick.
LEMMA OrderStep ==
    ASSUME ManagerInv, TickPathInv, OrderInv, [Next]_vars
    PROVE  OrderInv' /\ \A k \in Keys : delivered'[k] >= delivered[k]
<1>1. UNCHANGED delivered => \A k \in Keys : delivered'[k] >= delivered[k]
  BY DEF TickPathInv, DispatchTyped
<1>2. CASE UNCHANGED ingressVars
  <2>1. \A k \in Keys, n \in 0..8, x \in Nat : At(k, n, x)' => At(k, n, x)
    BY <1>2 DEF At
  <2>2. Ordered'
    BY <2>1, DropKeepsOrder DEF OrderInv
  <2> QED
    BY <1>1, <1>2, <2>2 DEF OrderInv, Sorted
<1>3. CASE TickStep
  BY <1>1, <1>3, RunnerOrder, DispatchTakeOrder, DispatchPushOrder, WorkerTakeOrder, WorkerProcessOrder DEF TickStep
<1>4. CASE \E c \in Connectors : Produce(c) \/ SubmitStep(c)
  BY <1>1, <1>4, ProduceOrder, SubmitStepOrder
<1>5. CASE DrainStop \/ DrainClear \/ CloseQueues \/ ForgetState
  BY <1>1, <1>5, CleanupOrder
<1>6. \/ StopAllBegin \/ (\E c \in Connectors : StopAllWait(c) \/ ConnectorReturns(c))
      \/ (\E w \in Workers : CommandStep(w)) \/ UNCHANGED vars
      => UNCHANGED ingressVars
  BY DEF StopAllBegin, StopAllWait, ConnectorReturns, CommandStep, StopOld, StartNew, BeginCommand, vars
<1> QED
  BY <1>2, <1>3, <1>4, <1>5, <1>6 DEF Next, CleanupStep

\* The path starts with no tick at all.
LEMMA OrderInit == Init => OrderInv
<1> SUFFICES ASSUME Init PROVE OrderInv
  OBVIOUS
<1>1. \A k \in Keys, n \in 0..8, x \in Nat : At(k, n, x) => x = 0
  BY TickPathValues DEF Init, IngressInit, At, In, States
<1>2. Ordered
  BY <1>1 DEF Ordered
<1>3. Sorted(queue) /\ Sorted(tickChan)
  BY DEF Init, IngressInit, Sorted
<1> QED
  BY <1>2, <1>3 DEF OrderInv

\* The aggregator sees the ticks of a key in the order of their Submit calls
\* (ingress.Submit, the coalescer's run, dispatchTicks and ingestionWorker), for
\* any number of ticks, any channel capacities and any replacement of connectors.
THEOREM TicksArriveInOrder == Spec => DeliveredInOrder
<1>1. ManagerInv /\ TickPathInv /\ OrderInv /\ [Next]_vars => OrderInv'
  BY OrderStep
<1>2. ManagerInv /\ TickPathInv /\ OrderInv /\ [Next]_vars =>
        [\A k \in Keys : delivered'[k] >= delivered[k]]_delivered
  BY OrderStep
<1> QED
  BY <1>1, <1>2, ManagerInit, ManagerStep, TickPathInit, TickPathStep, OrderInit, PTL
     DEF Spec, DeliveredInOrder

=============================================================================
