------------------------- MODULE PersistenceBuffer -------------------------
(***************************************************************************)
(* How signal snapshots reach PostgreSQL: the Tracker hands every changed  *)
(* signal to SignalPersistenceBuffer.Put, one BufferedPersistenceWorker    *)
(* copies the buffer in batches into the signals table, and the shutdown   *)
(* sequence of Application.Run closes the buffer and flushes it once more. *)
(* The process may crash between any two steps; the next process starts    *)
(* with an empty buffer and ReconcileActiveSignals.                        *)
(*                                                                         *)
(* A snapshot is abstracted to its revision (1 = the OPENED snapshot, one  *)
(* more for every later change of the signal) and whether it is active.    *)
(***************************************************************************)
EXTENDS Naturals, FiniteSets

CONSTANTS
    Signals,      \* the signal IDs (uuid.NewString) of all process instances
    MaxRev,       \* bound: revisions of one signal
    BatchLimit,   \* the limit argument of flush (500 in the code)
    MaxFailures,  \* bound: SaveSignal calls that return an error
    MaxCrashes    \* bound: crashes of the process

ASSUME BoundsAssumption ==
    /\ MaxRev \in Nat /\ MaxFailures \in Nat /\ MaxCrashes \in Nat
    /\ BatchLimit \in Nat \ {0}

ASSUME SignalsAssumption == IsFiniteSet(Signals)

VARIABLES
    latest,    \* the newest snapshot the Tracker made of each signal
    owned,     \* the signals the current process opened
    items,     \* SignalPersistenceBuffer.items
    wake,      \* number of tokens in the buffer's wake channel
    closed,    \* SignalPersistenceBuffer.closed
    phase,     \* the process: "up", "drained", "closed", "cancelled", "down"
    wpc,       \* the worker: "idle", "snap", "save", "stopped"
    final,     \* the running flush is the one after ctx.Done()
    batch,     \* the batch SnapshotBatch returned
    saved,     \* the signals of the batch SaveSignal has accepted
    rows,      \* the signals table
    inDoubt,   \* statements whose client gave up before the server answered
    failures,  \* SaveSignal errors so far
    crashes,   \* crashes so far
    lateHit    \* history: an abandoned statement overwrote newer state

bufferVars == <<items, wake, closed>>
workerVars == <<wpc, final, batch, saved>>
dbVars == <<rows, inDoubt, lateHit>>
vars == <<latest, owned, bufferVars, phase, workerVars, dbVars, failures, crashes>>

Snapshot == [rev : Nat, active : BOOLEAN]
NoSnapshot == [rev |-> 0, active |-> FALSE]
BufferedSignal == [version : Nat, signal : Snapshot]
\* The zero bufferedSignal: what a Go map returns for a missing key.
Absent == [version |-> 0, signal |-> NoSnapshot]

Buffered == {s \in Signals : items[s].version # 0}
InBatch == {s \in Signals : batch[s].version # 0}
EmptyBatch == [s \in Signals |-> Absent]

-----------------------------------------------------------------------------
(* SignalPersistenceBuffer *)

\* Put: the newest snapshot replaces the buffered one and the version grows;
\* a closed buffer refuses; the wake token is offered without blocking.
Put(s, snap) ==
    IF closed
    THEN UNCHANGED bufferVars
    ELSE /\ items' = [items EXCEPT ![s] = [version |-> @.version + 1, signal |-> snap]]
         /\ wake' = 1
         /\ UNCHANGED closed

\* Mutation of AckedItems: the saved entries go without comparing versions.
AckedWithoutVersion ==
    [s \in Signals |-> IF s \in InBatch THEN Absent ELSE items[s]]

\* Ack: an entry is dropped only when it still has the version that was saved.
AckedItems ==
    [s \in Signals |->
        IF s \in InBatch /\ items[s].version = batch[s].version THEN Absent ELSE items[s]]

-----------------------------------------------------------------------------
(* The Tracker as the buffer's only producer (HandleEvent) *)

TrackerRuns == phase = "up"

TrackerPut(s, snap) ==
    /\ latest' = [latest EXCEPT ![s] = snap]
    /\ Put(s, snap)
    /\ UNCHANGED <<phase, workerVars, dbVars, failures, crashes>>

TrackerOpen(s) ==
    /\ TrackerRuns
    /\ latest[s] = NoSnapshot
    /\ MaxRev > 0
    /\ owned' = owned \cup {s}
    /\ TrackerPut(s, [rev |-> 1, active |-> TRUE])

\* Only a signal in activeSignals is updated or closed, and a crash empties it.
TrackerHasActive(s) == TrackerRuns /\ s \in owned /\ latest[s].active

\* Mutation of TrackerUpdate: the check for an active signal is missing.
UpdateAfterClose(s) ==
    /\ TrackerRuns
    /\ s \in owned
    /\ latest[s].rev \in 1..MaxRev
    /\ TrackerPut(s, [rev |-> latest[s].rev + 1, active |-> TRUE])
    /\ UNCHANGED owned

TrackerUpdate(s) ==
    /\ TrackerHasActive(s)
    /\ latest[s].rev < MaxRev
    /\ TrackerPut(s, [rev |-> latest[s].rev + 1, active |-> TRUE])
    /\ UNCHANGED owned

TrackerClose(s) ==
    /\ TrackerHasActive(s)
    /\ TrackerPut(s, [rev |-> latest[s].rev + 1, active |-> FALSE])
    /\ UNCHANGED owned

-----------------------------------------------------------------------------
(* BufferedPersistenceWorker *)

WorkerRuns == phase # "down"

WorkerFrame == UNCHANGED <<latest, owned, closed, phase, crashes>>

BeginFlush(isFinal) ==
    /\ wpc = "idle"
    /\ wpc' = "snap"
    /\ final' = isFinal
    /\ UNCHANGED <<items, batch, saved, dbVars, failures>>
    /\ WorkerFrame

\* The 500ms ticker of Start's select loop.
TickerFlush ==
    /\ WorkerRuns
    /\ BeginFlush(FALSE)
    /\ UNCHANGED wake

\* The wake channel of Start's select loop; receiving takes the token.
WakeFlush ==
    /\ WorkerRuns
    /\ wake = 1
    /\ BeginFlush(FALSE)
    /\ wake' = 0

\* Mutation of FinalFlush: the ctx.Done branch flushes but does not return.
FinalFlushWithoutReturn ==
    /\ phase = "cancelled"
    /\ BeginFlush(FALSE)
    /\ UNCHANGED wake

\* ctx.Done: one last flush under a context of its own, then the worker ends.
FinalFlush ==
    /\ phase = "cancelled"
    /\ BeginFlush(TRUE)
    /\ UNCHANGED wake

\* flush returns to the select loop, or, after ctx.Done, the worker ends.
FlushReturns == wpc' = IF final THEN "stopped" ELSE "idle"

\* SnapshotBatch: up to BatchLimit entries, in the map's arbitrary order. An
\* empty batch ends the flush.
SnapshotBatch ==
    /\ WorkerRuns
    /\ wpc = "snap"
    /\ \E ids \in SUBSET Buffered :
          /\ IF Cardinality(Buffered) <= BatchLimit
             THEN ids = Buffered
             ELSE Cardinality(ids) = BatchLimit
          /\ batch' = [s \in Signals |-> IF s \in ids THEN items[s] ELSE Absent]
          /\ saved' = {}
          /\ IF ids = {} THEN FlushReturns ELSE wpc' = "save"
    /\ UNCHANGED <<items, wake, final, dbVars, failures>>
    /\ WorkerFrame

\* SaveSignal succeeds: an unconditional upsert of the snapshot.
SaveSignal(s) ==
    /\ WorkerRuns
    /\ wpc = "save"
    /\ s \in InBatch \ saved
    /\ rows' = [rows EXCEPT ![s] = batch[s].signal]
    /\ saved' = saved \cup {s}
    /\ UNCHANGED <<items, wake, wpc, final, batch, inDoubt, lateHit, failures>>
    /\ WorkerFrame

\* Mutation of SaveFails: an error ends the worker, not just the flush.
SaveErrorEndsWorker(s) ==
    /\ WorkerRuns
    /\ wpc = "save"
    /\ s \in InBatch \ saved
    /\ failures < MaxFailures
    /\ failures' = failures + 1
    /\ inDoubt' = inDoubt \cup {<<s, batch[s].signal>>}
    /\ wpc' = "stopped"
    /\ batch' = EmptyBatch
    /\ saved' = {}
    /\ UNCHANGED <<items, wake, final, rows, lateHit>>
    /\ WorkerFrame

\* SaveSignal returns an error (database down, 5s timeout, cancelled context):
\* flush returns and acknowledges nothing. The statement may have reached the
\* server all the same; it then runs at any later time, or never.
SaveFails(s) ==
    /\ WorkerRuns
    /\ wpc = "save"
    /\ s \in InBatch \ saved
    /\ failures < MaxFailures
    /\ failures' = failures + 1
    /\ inDoubt' = inDoubt \cup {<<s, batch[s].signal>>}
    /\ FlushReturns
    /\ batch' = EmptyBatch
    /\ saved' = {}
    /\ UNCHANGED <<items, wake, final, rows, lateHit>>
    /\ WorkerFrame

\* Mutation of Ack: one batch per flush, the loop of flush is missing.
AckWithoutLoop ==
    /\ WorkerRuns
    /\ wpc = "save"
    /\ InBatch \subseteq saved
    /\ items' = AckedItems
    /\ FlushReturns
    /\ batch' = EmptyBatch
    /\ saved' = {}
    /\ UNCHANGED <<wake, final, dbVars, failures>>
    /\ WorkerFrame

\* Every save of the batch succeeded: Ack, and the loop of flush goes round.
Ack ==
    /\ WorkerRuns
    /\ wpc = "save"
    /\ InBatch \subseteq saved
    /\ items' = AckedItems
    /\ wpc' = "snap"
    /\ batch' = EmptyBatch
    /\ saved' = {}
    /\ UNCHANGED <<wake, final, dbVars, failures>>
    /\ WorkerFrame

\* A statement the client abandoned takes effect at the server after all.
Overwrites(s, snap) ==
    \/ rows[s].rev > snap.rev
    \/ rows[s].rev > 0 /\ ~rows[s].active /\ snap.active
    \/ phase # "down" /\ s \notin owned /\ snap.active

AbandonedStatementRuns(s, snap) ==
    /\ <<s, snap>> \in inDoubt
    /\ inDoubt' = inDoubt \ {<<s, snap>>}
    /\ rows' = [rows EXCEPT ![s] = snap]
    /\ lateHit' = (lateHit \/ Overwrites(s, snap))
    /\ UNCHANGED <<latest, owned, bufferVars, phase, workerVars, failures, crashes>>

-----------------------------------------------------------------------------
(* Application.Run: shutdown, crash and the start of the next process *)

ShutdownFrame == UNCHANGED <<latest, owned, items, wake, workerVars, dbVars, failures, crashes>>

\* close(trackerChan); trackerWg.Wait(): the last HandleEvent has returned.
TrackerDrained ==
    /\ phase = "up"
    /\ phase' = "drained"
    /\ UNCHANGED closed
    /\ ShutdownFrame

CloseBuffer ==
    /\ phase = "drained"
    /\ phase' = "closed"
    /\ closed' = TRUE
    /\ ShutdownFrame

PersistCancel ==
    /\ phase = "closed"
    /\ phase' = "cancelled"
    /\ UNCHANGED closed
    /\ ShutdownFrame

ProcessGone ==
    /\ phase' = "down"
    /\ items' = [s \in Signals |-> Absent]
    /\ wake' = 0
    /\ closed' = FALSE
    /\ wpc' = "idle"
    /\ final' = FALSE
    /\ batch' = EmptyBatch
    /\ saved' = {}
    /\ owned' = {}
    /\ UNCHANGED <<latest, rows, failures>>

\* persistWg.Wait() has returned: Run ends and whatever is buffered is lost.
Exit ==
    /\ phase = "cancelled"
    /\ wpc = "stopped"
    /\ ProcessGone
    /\ UNCHANGED <<inDoubt, lateHit, crashes>>

\* The process dies; a statement it had sent may still run at the server.
Crash ==
    /\ phase # "down"
    /\ crashes < MaxCrashes
    /\ crashes' = crashes + 1
    /\ inDoubt' \in {inDoubt} \cup
          {inDoubt \cup {<<s, batch[s].signal>>} : s \in InBatch \ saved}
    /\ ProcessGone
    /\ UNCHANGED lateHit

\* Mutation of Reconciled: the next process starts on the table as it is.
NotReconciled == rows

\* ReconcileActiveSignals: no row of an earlier process stays active.
Reconciled == [s \in Signals |-> [rows[s] EXCEPT !.active = FALSE]]

Start ==
    /\ phase = "down"
    /\ phase' = "up"
    /\ rows' = Reconciled
    /\ UNCHANGED <<latest, owned, bufferVars, workerVars, inDoubt, lateHit, failures, crashes>>

-----------------------------------------------------------------------------
Init ==
    /\ latest = [s \in Signals |-> NoSnapshot]
    /\ owned = {}
    /\ items = [s \in Signals |-> Absent]
    /\ wake = 0
    /\ closed = FALSE
    /\ phase = "down"
    /\ wpc = "idle"
    /\ final = FALSE
    /\ batch = EmptyBatch
    /\ saved = {}
    /\ rows = [s \in Signals |-> NoSnapshot]
    /\ inDoubt = {}
    /\ failures = 0
    /\ crashes = 0
    /\ lateHit = FALSE

Tracker(s) == TrackerOpen(s) \/ TrackerUpdate(s) \/ TrackerClose(s)

Flush == SnapshotBatch \/ Ack \/ \E s \in Signals : SaveSignal(s)

Worker == TickerFlush \/ WakeFlush \/ FinalFlush \/ Flush \/ \E s \in Signals : SaveFails(s)

Shutdown == TrackerDrained \/ CloseBuffer \/ PersistCancel \/ Exit

Next ==
    \/ \E s \in Signals : Tracker(s)
    \/ Worker
    \/ \E d \in inDoubt : AbandonedStatementRuns(d[1], d[2])
    \/ Shutdown
    \/ Crash
    \/ Start

Spec == Init /\ [][Next]_vars

(* The worker goroutine and the shutdown sequence are never stopped from    *)
(* running (the Go scheduler); the ticker keeps firing, so its branch of    *)
(* the select loop is taken again and again. Nothing forces the Tracker to  *)
(* produce, the process to crash or to be started, or an abandoned          *)
(* statement to run. SaveFails is bounded: a database outage ends.          *)
FairSpec ==
    /\ Spec
    /\ WF_vars(TickerFlush)
    /\ WF_vars(Flush)
    /\ SF_vars(FinalFlush)
    /\ WF_vars(CloseBuffer \/ PersistCancel \/ Exit)

-----------------------------------------------------------------------------
(* Properties *)

\* Type correctness of the buffer, the worker, the table and the process.
TypeOK ==
    /\ latest \in [Signals -> Snapshot]
    /\ owned \subseteq Signals
    /\ items \in [Signals -> BufferedSignal]
    /\ wake \in {0, 1}
    /\ closed \in BOOLEAN
    /\ phase \in {"up", "drained", "closed", "cancelled", "down"}
    /\ wpc \in {"idle", "snap", "save", "stopped"}
    /\ final \in BOOLEAN
    /\ batch \in [Signals -> BufferedSignal]
    /\ saved \subseteq Signals
    /\ rows \in [Signals -> Snapshot]
    /\ inDoubt \subseteq Signals \X Snapshot
    /\ failures \in 0..MaxFailures
    /\ crashes \in 0..MaxCrashes
    /\ lateHit \in BOOLEAN

\* While a process runs, the newest snapshot of each of its signals is in the
\* table or still buffered, whatever Put, Ack and failing saves do between a
\* SnapshotBatch and its Ack. Only a statement that runs after its client gave
\* up can break this.
NoSnapshotLost ==
    phase # "down" /\ ~lateHit =>
        \A s \in owned : rows[s] = latest[s] \/ items[s].signal = latest[s]

\* An active row belongs to a signal the running process opened, and when that
\* signal is closed the closing snapshot is still on its way: no row of an
\* earlier process stays active after ReconcileActiveSignals.
NoOrphanedActiveRow ==
    phase # "down" /\ ~lateHit =>
        \A s \in Signals : rows[s].active =>
            /\ s \in owned
            /\ latest[s].active \/ (s \in Buffered /\ ~items[s].signal.active)

\* The unconditional upsert never takes a row back to an older snapshot, nor a
\* closed row back to active, unless an abandoned statement runs late.
RowNeverRegresses ==
    [][ ~lateHit' => \A s \in Signals :
            /\ rows'[s].rev >= rows[s].rev
            /\ rows[s].rev > 0 /\ ~rows[s].active => ~rows'[s].active ]_vars

\* The buffer, its worker and the shutdown sequence implement the store: the
\* table follows the Tracker's snapshots, and a process that met no database
\* error and did not crash ends only when the table has caught up.
Store == INSTANCE SignalStore WITH
    newest <- latest, table <- rows, opened <- owned,
    running <- phase # "down", faulty <- failures > 0 \/ crashes > 0
ImplementsStore == Store!StoreSpec

\* When the final flush ends without a database error nothing is left in the
\* buffer, however many batches that takes.
FinalFlushComplete ==
    wpc = "stopped" /\ failures = 0 => Buffered = {}

\* A buffered snapshot is eventually written and acknowledged, unless the
\* process ends first: no failed save and no lost wake-up leaves it behind.
EventuallyFlushed ==
    \A s \in Signals : []<>(s \notin Buffered \/ phase = "down")

\* Once the Tracker has drained, shutdown reaches the end of the process.
ShutdownTerminates == (phase = "drained") ~> (phase = "down")
=============================================================================
