---------------------- MODULE PersistenceBufferProofs ----------------------
(* Proofs about PersistenceBuffer, for every set of signals, batch limit    *)
(* and bound.                                                               *)
EXTENDS PersistenceBuffer, FiniteSetTheorems, TLAPS

USE DEF bufferVars, workerVars, dbVars

\* What a snapshot and a buffered signal are made of.
LEMMA SnapshotFields ==
    /\ \A x \in Snapshot : x.rev \in Nat /\ x.active \in BOOLEAN
    /\ \A n \in Nat, a \in BOOLEAN : [rev |-> n, active |-> a] \in Snapshot
    /\ NoSnapshot \in Snapshot
    /\ NoSnapshot.rev = 0 /\ NoSnapshot.active = FALSE
  BY DEF Snapshot, NoSnapshot

\* A buffered signal is a version and a snapshot, and Absent is one.
LEMMA BufferedFields ==
    /\ \A x \in BufferedSignal : x.version \in Nat /\ x.signal \in Snapshot
    /\ \A n \in Nat, g \in Snapshot : [version |-> n, signal |-> g] \in BufferedSignal
    /\ Absent \in BufferedSignal
    /\ Absent.version = 0 /\ Absent.signal = NoSnapshot
  BY SnapshotFields DEF BufferedSignal, Absent

\* Closing a row keeps it a row.
LEMMA ReconciledSnapshot ==
    ASSUME NEW x \in Snapshot
    PROVE  /\ [x EXCEPT !.active = FALSE] \in Snapshot
           /\ [x EXCEPT !.active = FALSE].rev = x.rev
           /\ [x EXCEPT !.active = FALSE].active = FALSE
  BY DEF Snapshot

\* Put keeps the buffer well typed, closed or not.
LEMMA PutTyped ==
    ASSUME TypeOK, NEW s \in Signals, NEW snap \in Snapshot, Put(s, snap)
    PROVE  /\ items' \in [Signals -> BufferedSignal]
           /\ wake' \in {0, 1}
           /\ closed' = closed
<1>1. CASE closed
  BY <1>1 DEF Put, TypeOK
<1>2. CASE ~closed
  BY <1>2, BufferedFields DEF Put, TypeOK
<1> QED
  BY <1>1, <1>2

\* The Tracker's hand-over keeps every component well typed.
LEMMA TrackerPutTyped ==
    ASSUME TypeOK, NEW s \in Signals, NEW snap \in Snapshot, TrackerPut(s, snap),
           owned' \subseteq Signals
    PROVE  TypeOK'
<1>1. Put(s, snap)
  BY DEF TrackerPut
<1>2. closed' \in BOOLEAN /\ final' \in BOOLEAN /\ lateHit' \in BOOLEAN
  BY <1>1, PutTyped DEF TrackerPut, TypeOK
<1> QED
  BY <1>1, <1>2, PutTyped DEF TrackerPut, TypeOK

\* The initial state is type correct.
LEMMA InitTyped == Init => TypeOK
<1> SUFFICES ASSUME Init PROVE TypeOK
  OBVIOUS
<1>1. closed \in BOOLEAN /\ final \in BOOLEAN /\ lateHit \in BOOLEAN
  BY Zenon DEF Init
<1>2. failures \in 0..MaxFailures /\ crashes \in 0..MaxCrashes
  BY BoundsAssumption DEF Init, BoundsAssumption
<1> QED
  BY <1>1, <1>2, SnapshotFields, BufferedFields DEF Init, TypeOK, EmptyBatch

\* Every step keeps the state type correct.
LEMMA TypeStep == TypeOK /\ [Next]_vars => TypeOK'
<1> SUFFICES ASSUME TypeOK, [Next]_vars PROVE TypeOK'
  OBVIOUS
<1> USE DEF TypeOK
<1>1. ASSUME NEW s \in Signals, TrackerOpen(s) PROVE TypeOK'
  <2>1. [rev |-> 1, active |-> TRUE] \in Snapshot
    BY SnapshotFields
  <2> QED
    BY <1>1, <2>1, TrackerPutTyped DEF TrackerOpen
<1>2. ASSUME NEW s \in Signals, TrackerUpdate(s) PROVE TypeOK'
  <2>0. latest[s].rev + 1 \in Nat
    BY SnapshotFields
  <2>1. [rev |-> latest[s].rev + 1, active |-> TRUE] \in Snapshot
    BY <2>0, Zenon DEF Snapshot
  <2> QED
    BY <1>2, <2>1, TrackerPutTyped DEF TrackerUpdate
<1>3. ASSUME NEW s \in Signals, TrackerClose(s) PROVE TypeOK'
  <2>0. latest[s].rev + 1 \in Nat
    BY SnapshotFields
  <2>1. [rev |-> latest[s].rev + 1, active |-> FALSE] \in Snapshot
    BY <2>0, Zenon DEF Snapshot
  <2> QED
    BY <1>3, <2>1, TrackerPutTyped DEF TrackerClose
<1>4. CASE TickerFlush \/ WakeFlush \/ FinalFlush
  BY <1>4 DEF TickerFlush, WakeFlush, FinalFlush, BeginFlush, WorkerFrame
<1>5. CASE SnapshotBatch
  BY <1>5, BufferedFields DEF SnapshotBatch, FlushReturns, WorkerFrame
<1>6. ASSUME NEW s \in Signals, SaveSignal(s) PROVE TypeOK'
  BY <1>6, BufferedFields DEF SaveSignal, WorkerFrame
<1>7. ASSUME NEW s \in Signals, SaveFails(s) PROVE TypeOK'
  BY <1>7, BoundsAssumption, BufferedFields DEF BoundsAssumption, SaveFails, FlushReturns, EmptyBatch, WorkerFrame
<1>8. CASE Ack
  BY <1>8, BufferedFields DEF Ack, AckedItems, EmptyBatch, WorkerFrame
<1>9. ASSUME NEW d \in inDoubt, AbandonedStatementRuns(d[1], d[2]) PROVE TypeOK'
  BY <1>9 DEF AbandonedStatementRuns
<1>10. CASE TrackerDrained \/ CloseBuffer \/ PersistCancel
  BY <1>10 DEF TrackerDrained, CloseBuffer, PersistCancel, ShutdownFrame
<1>11. CASE Exit
  BY <1>11, BufferedFields DEF Exit, ProcessGone, EmptyBatch
<1>12. CASE Crash
  <2>1. inDoubt' \subseteq Signals \X Snapshot
    <3>1. \A s \in Signals : <<s, batch[s].signal>> \in Signals \X Snapshot
      BY BufferedFields
    <3> QED
      BY <1>12, <3>1 DEF Crash, InBatch
  <2>2. /\ ProcessGone
        /\ crashes < MaxCrashes /\ crashes' = crashes + 1
        /\ UNCHANGED lateHit
    BY <1>12 DEF Crash
  <2>3. crashes' \in 0..MaxCrashes
    BY <2>2, BoundsAssumption DEF BoundsAssumption
  <2> QED
    BY <2>1, <2>2, <2>3, BufferedFields DEF ProcessGone, EmptyBatch
<1>13. CASE Start
  BY <1>13, ReconciledSnapshot DEF Start, Reconciled
<1>14. CASE UNCHANGED vars
  BY <1>14 DEF vars
<1> QED
  BY <1>1, <1>2, <1>3, <1>4, <1>5, <1>6, <1>7, <1>8, <1>9, <1>10, <1>11,
     <1>12, <1>13, <1>14 DEF Next, Tracker, Worker, Flush, Shutdown

\* Every reachable state is type correct: the buffer's map, the worker's batch
\* and the table hold what the Go types say, in every interleaving.
THEOREM TypeCorrect == Spec => []TypeOK
  BY InitTyped, TypeStep, PTL DEF Spec

-----------------------------------------------------------------------------
(* The inductive invariant. Snapshots of a signal are totally ordered by    *)
(* revision and only the newest may be closed, so a snapshot found anywhere *)
(* (batch, abandoned statement, row) is either the newest one or an older,  *)
(* active one; with that, a version that is unchanged since SnapshotBatch   *)
(* means that the saved snapshot is the newest.                             *)

KnownSnapshot(s, x) ==
    /\ x.rev <= latest[s].rev
    /\ x.rev < latest[s].rev => x.active
    /\ x.rev = latest[s].rev => x = latest[s]

LatestInv ==
    \A s \in Signals :
        /\ latest[s].active => latest[s].rev >= 1
        /\ s \in owned => latest[s].rev >= 1

PhaseInv ==
    /\ phase = "down" => owned = {} /\ wpc = "idle"
    /\ closed => phase \in {"closed", "cancelled"}
    /\ wpc = "stopped" => final
    /\ wpc # "idle" /\ final => phase = "cancelled"

ItemsInv ==
    \A s \in Signals :
        /\ items[s].version # 0 => s \in owned /\ items[s].signal = latest[s]
        /\ items[s].version = 0 => items[s].signal = NoSnapshot

BatchInv ==
    \A s \in Signals : batch[s].version # 0 =>
        /\ wpc = "save"
        /\ batch[s].version <= items[s].version
        /\ batch[s].version = items[s].version => batch[s].signal = items[s].signal
        /\ batch[s].signal.rev >= 1
        /\ KnownSnapshot(s, batch[s].signal)
        /\ rows[s].rev <= batch[s].signal.rev
        /\ \A x \in Snapshot : <<s, x>> \in inDoubt => x.rev <= batch[s].signal.rev

DoubtInv ==
    \A s \in Signals, x \in Snapshot : <<s, x>> \in inDoubt =>
        x.rev >= 1 /\ KnownSnapshot(s, x)

RowsInv ==
    \A s \in Signals :
        /\ rows[s].rev <= latest[s].rev
        /\ rows[s].rev = 0 => ~rows[s].active
        /\ s \in owned /\ rows[s].rev > 0 => KnownSnapshot(s, rows[s])

SavedInv ==
    \A s \in saved :
        /\ batch[s].version # 0
        /\ ~lateHit /\ batch[s].version = items[s].version => rows[s] = latest[s]

IInv ==
    /\ TypeOK /\ LatestInv /\ PhaseInv /\ ItemsInv /\ BatchInv /\ DoubtInv
    /\ RowsInv /\ SavedInv /\ NoSnapshotLost /\ NoOrphanedActiveRow
    /\ FinalFlushComplete

-----------------------------------------------------------------------------
\* What the three Tracker actions have in common: the signal moves to a new
\* revision, and was new or active before.
LEMMA TrackerEffect ==
    ASSUME IInv, NEW s \in Signals, Tracker(s)
    PROVE  /\ phase = "up" /\ wake' = 1
           /\ owned' = owned \cup {s}
           /\ latest[s] = NoSnapshot \/ (s \in owned /\ latest[s].active)
           /\ \E snap \in Snapshot :
                /\ snap.rev = latest[s].rev + 1
                /\ latest' = [latest EXCEPT ![s] = snap]
                /\ items' = [items EXCEPT ![s] = [version |-> items[s].version + 1, signal |-> snap]]
           /\ UNCHANGED <<closed, phase, workerVars, dbVars, failures, crashes>>
<1>1. phase = "up" /\ ~closed
  BY DEF IInv, PhaseInv, Tracker, TrackerOpen, TrackerUpdate, TrackerClose,
         TrackerHasActive, TrackerRuns
<1>2. ASSUME NEW snap \in Snapshot, snap.rev = latest[s].rev + 1, TrackerPut(s, snap)
      PROVE  /\ wake' = 1
             /\ \E x \in Snapshot :
                  /\ x.rev = latest[s].rev + 1
                  /\ latest' = [latest EXCEPT ![s] = x]
                  /\ items' = [items EXCEPT ![s] = [version |-> items[s].version + 1, signal |-> x]]
             /\ UNCHANGED <<closed, phase, workerVars, dbVars, failures, crashes>>
  BY <1>1, <1>2 DEF TrackerPut, Put, IInv, TypeOK
<1>3. latest[s] \in Snapshot /\ latest[s].rev \in Nat /\ latest[s].rev + 1 \in Nat
  BY SnapshotFields DEF IInv, TypeOK
<1>4. CASE TrackerOpen(s)
  <2>0. latest[s].rev = 0
    BY <1>4, SnapshotFields DEF TrackerOpen
  <2>1. [rev |-> 1, active |-> TRUE] \in Snapshot /\ [rev |-> 1, active |-> TRUE].rev = latest[s].rev + 1
    BY <2>0 DEF Snapshot
  <2>2. TrackerPut(s, [rev |-> 1, active |-> TRUE])
    BY <1>4 DEF TrackerOpen
  <2>3. owned' = owned \cup {s} /\ (latest[s] = NoSnapshot \/ (s \in owned /\ latest[s].active))
    BY <1>4 DEF TrackerOpen
  <2> QED
    BY <1>1, <1>2, <2>1, <2>2, <2>3
<1>5. CASE TrackerUpdate(s)
  <2>1. [rev |-> latest[s].rev + 1, active |-> TRUE] \in Snapshot /\ [rev |-> latest[s].rev + 1, active |-> TRUE].rev = latest[s].rev + 1
    BY <1>3, Zenon DEF Snapshot
  <2>2. TrackerPut(s, [rev |-> latest[s].rev + 1, active |-> TRUE])
    BY <1>5 DEF TrackerUpdate
  <2>3. owned' = owned \cup {s} /\ (latest[s] = NoSnapshot \/ (s \in owned /\ latest[s].active))
    BY <1>5 DEF TrackerUpdate, TrackerHasActive
  <2> QED
    BY <1>1, <1>2, <2>1, <2>2, <2>3
<1>6. CASE TrackerClose(s)
  <2>1. [rev |-> latest[s].rev + 1, active |-> FALSE] \in Snapshot /\ [rev |-> latest[s].rev + 1, active |-> FALSE].rev = latest[s].rev + 1
    BY <1>3, Zenon DEF Snapshot
  <2>2. TrackerPut(s, [rev |-> latest[s].rev + 1, active |-> FALSE])
    BY <1>6 DEF TrackerClose
  <2>3. owned' = owned \cup {s} /\ (latest[s] = NoSnapshot \/ (s \in owned /\ latest[s].active))
    BY <1>6 DEF TrackerClose, TrackerHasActive
  <2> QED
    BY <1>1, <1>2, <2>1, <2>2, <2>3
<1> QED
  BY <1>4, <1>5, <1>6 DEF Tracker

\* A new revision handed to Put keeps the invariant: the buffer now holds it.
LEMMA TrackerStep ==
    ASSUME IInv, TypeOK', NEW s \in Signals, Tracker(s)
    PROVE  IInv'
<1> USE SnapshotFields, BufferedFields DEF IInv
<1>1. PICK snap \in Snapshot :
        /\ snap.rev = latest[s].rev + 1
        /\ latest' = [latest EXCEPT ![s] = snap]
        /\ items' = [items EXCEPT ![s] = [version |-> items[s].version + 1, signal |-> snap]]
  BY TrackerEffect
<1>2. /\ phase = "up"
      /\ owned' = owned \cup {s}
      /\ latest[s] = NoSnapshot \/ (s \in owned /\ latest[s].active)
      /\ UNCHANGED <<closed, phase, workerVars, dbVars, failures, crashes>>
  BY TrackerEffect
<1>3. LatestInv'
  BY <1>1, <1>2 DEF LatestInv, TypeOK
<1>4. PhaseInv'
  BY <1>2 DEF PhaseInv, TypeOK
<1>5. ItemsInv'
  BY <1>1, <1>2 DEF ItemsInv, TypeOK
<1>K. ASSUME NEW t \in Signals, NEW x \in Snapshot, x.rev >= 1, KnownSnapshot(t, x)
      PROVE  KnownSnapshot(t, x)'
  <2>1. CASE t = s
    <3>1. latest'[s] = snap /\ latest[s].rev \in Nat /\ x.rev \in Nat
      BY <1>1 DEF TypeOK
    <3>2. latest[s].active /\ x.rev <= latest[s].rev /\ (x.rev = latest[s].rev => x = latest[s])
          /\ (x.rev < latest[s].rev => x.active)
      BY <1>2, <1>K, <2>1 DEF KnownSnapshot
    <3> QED
      BY <1>1, <2>1, <3>1, <3>2 DEF KnownSnapshot
  <2>2. CASE t # s
    BY <1>1, <1>K, <2>2 DEF KnownSnapshot, TypeOK
  <2> QED
    BY <2>1, <2>2
<1>6. BatchInv'
  BY <1>1, <1>2, <1>K DEF BatchInv, ItemsInv, TypeOK
<1>7. DoubtInv'
  BY <1>1, <1>2, <1>K DEF DoubtInv, TypeOK
<1>8. RowsInv'
  <2>1. rows' = rows
    BY <1>2
  <2>2. ASSUME NEW t \in Signals
        PROVE  latest[t].rev <= latest'[t].rev /\ (t \in owned' /\ t \notin owned => t = s)
    BY <1>1, <1>2 DEF TypeOK
  <2>3. s \notin owned => rows[s].rev = 0
    BY <1>2 DEF RowsInv, TypeOK
  <2> QED
    BY <1>K, <2>1, <2>2, <2>3 DEF RowsInv, TypeOK
<1>9. SavedInv'
  BY <1>1, <1>2 DEF SavedInv, BatchInv, TypeOK
<1>10. NoSnapshotLost'
  BY <1>1, <1>2 DEF NoSnapshotLost, TypeOK
<1>11. NoOrphanedActiveRow'
  BY <1>1, <1>2 DEF NoOrphanedActiveRow, RowsInv, Buffered, TypeOK
<1>12. FinalFlushComplete'
  BY <1>1, <1>2 DEF FinalFlushComplete, PhaseInv, TypeOK
<1> QED
  BY <1>3, <1>4, <1>5, <1>6, <1>7, <1>8, <1>9, <1>10, <1>11, <1>12

\* Starting a flush (ticker, wake token or ctx.Done) keeps the invariant.
LEMMA BeginFlushStep ==
    ASSUME IInv, TypeOK', TickerFlush \/ WakeFlush \/ FinalFlush
    PROVE  IInv'
<1> USE SnapshotFields, BufferedFields DEF IInv
<1>1. /\ wpc = "idle" /\ wpc' = "snap"
      /\ final' => phase = "cancelled"
      /\ phase # "down"
      /\ UNCHANGED <<items, batch, saved, dbVars, failures, latest, owned, closed, phase, crashes>>
  BY DEF TickerFlush, WakeFlush, FinalFlush, BeginFlush, WorkerRuns, WorkerFrame, TypeOK
<1>K. \A t \in Signals, x \in Snapshot : KnownSnapshot(t, x)' <=> KnownSnapshot(t, x)
  BY <1>1 DEF KnownSnapshot
<1>3. LatestInv'
  BY <1>1 DEF LatestInv, TypeOK
<1>4. PhaseInv'
  BY <1>1 DEF PhaseInv, TypeOK
<1>5. ItemsInv'
  BY <1>1 DEF ItemsInv, TypeOK
<1>6. BatchInv'
  BY <1>1, <1>K DEF BatchInv, TypeOK
<1>7. DoubtInv'
  BY <1>1, <1>K DEF DoubtInv, TypeOK
<1>8. RowsInv'
  BY <1>1, <1>K DEF RowsInv, TypeOK
<1>9. SavedInv'
  BY <1>1 DEF SavedInv, TypeOK
<1>10. NoSnapshotLost'
  BY <1>1 DEF NoSnapshotLost, TypeOK
<1>11. NoOrphanedActiveRow'
  BY <1>1 DEF NoOrphanedActiveRow, Buffered, TypeOK
<1>12. FinalFlushComplete'
  BY <1>1 DEF FinalFlushComplete, Buffered, TypeOK
<1> QED
  BY <1>3, <1>4, <1>5, <1>6, <1>7, <1>8, <1>9, <1>10, <1>11, <1>12

\* The three shutdown steps before Exit keep the invariant.
LEMMA ShutdownStep ==
    ASSUME IInv, TypeOK', TrackerDrained \/ CloseBuffer \/ PersistCancel
    PROVE  IInv'
<1> USE SnapshotFields, BufferedFields DEF IInv
<1>1. /\ phase' # "down" /\ phase # "down" /\ phase # "cancelled"
      /\ closed' => phase' \in {"closed", "cancelled"}
      /\ ShutdownFrame
  BY DEF TrackerDrained, CloseBuffer, PersistCancel, PhaseInv, ShutdownFrame, TypeOK
<1>K. \A t \in Signals, x \in Snapshot : KnownSnapshot(t, x)' <=> KnownSnapshot(t, x)
  BY <1>1 DEF KnownSnapshot, ShutdownFrame
<1>3. LatestInv'
  BY <1>1 DEF LatestInv, ShutdownFrame, TypeOK
<1>4. PhaseInv'
  BY <1>1 DEF PhaseInv, ShutdownFrame, TypeOK
<1>5. ItemsInv'
  BY <1>1 DEF ItemsInv, ShutdownFrame, TypeOK
<1>6. BatchInv'
  BY <1>1, <1>K DEF BatchInv, ShutdownFrame, TypeOK
<1>7. DoubtInv'
  BY <1>1, <1>K DEF DoubtInv, ShutdownFrame, TypeOK
<1>8. RowsInv'
  BY <1>1, <1>K DEF RowsInv, ShutdownFrame, TypeOK
<1>9. SavedInv'
  BY <1>1 DEF SavedInv, ShutdownFrame, TypeOK
<1>10. NoSnapshotLost'
  BY <1>1 DEF NoSnapshotLost, ShutdownFrame, TypeOK
<1>11. NoOrphanedActiveRow'
  BY <1>1 DEF NoOrphanedActiveRow, Buffered, ShutdownFrame, TypeOK
<1>12. FinalFlushComplete'
  BY <1>1 DEF FinalFlushComplete, Buffered, ShutdownFrame, TypeOK
<1> QED
  BY <1>3, <1>4, <1>5, <1>6, <1>7, <1>8, <1>9, <1>10, <1>11, <1>12

\* SnapshotBatch keeps the invariant: the batch is a copy of the buffer, and an
\* empty one means that nothing was buffered.
LEMMA SnapshotBatchStep ==
    ASSUME IInv, TypeOK', SnapshotBatch
    PROVE  IInv'
<1> USE SnapshotFields, BufferedFields DEF IInv
<1>1. PICK ids \in SUBSET Buffered :
        /\ IF Cardinality(Buffered) <= BatchLimit
           THEN ids = Buffered
           ELSE Cardinality(ids) = BatchLimit
        /\ batch' = [s \in Signals |-> IF s \in ids THEN items[s] ELSE Absent]
        /\ saved' = {}
        /\ IF ids = {} THEN FlushReturns ELSE wpc' = "save"
  BY DEF SnapshotBatch
<1>2. /\ wpc = "snap" /\ phase # "down"
      /\ UNCHANGED <<items, final, dbVars, failures, latest, owned, closed, phase, crashes>>
  BY DEF SnapshotBatch, WorkerRuns, WorkerFrame
<1>K. \A t \in Signals, x \in Snapshot : KnownSnapshot(t, x)' <=> KnownSnapshot(t, x)
  BY <1>1, <1>2 DEF KnownSnapshot
<1>3. LatestInv'
  BY <1>1, <1>2 DEF LatestInv, TypeOK
<1>4. PhaseInv'
  BY <1>1, <1>2 DEF PhaseInv, FlushReturns, TypeOK
<1>5. ItemsInv'
  BY <1>1, <1>2 DEF ItemsInv, TypeOK
<1>6. BatchInv'
  <2> SUFFICES ASSUME NEW t \in Signals, batch'[t].version # 0
               PROVE  /\ wpc' = "save"
                      /\ batch'[t] = items'[t] /\ batch'[t].signal = latest'[t]
                      /\ latest'[t].rev >= 1
                      /\ rows'[t].rev <= latest'[t].rev
                      /\ \A x \in Snapshot : <<t, x>> \in inDoubt' => x.rev <= latest'[t].rev
    BY DEF BatchInv, KnownSnapshot, TypeOK
  <2>1. t \in ids /\ batch'[t] = items[t]
    BY <1>1 DEF TypeOK
  <2>2. t \in owned /\ items[t].signal = latest[t]
    BY <2>1 DEF Buffered, ItemsInv
  <2>3. latest[t].rev >= 1 /\ rows[t].rev <= latest[t].rev
    BY <2>2 DEF LatestInv, RowsInv
  <2>4. \A x \in Snapshot : <<t, x>> \in inDoubt => x.rev <= latest[t].rev
    BY DEF DoubtInv, KnownSnapshot
  <2> QED
    BY <1>1, <1>2, <2>1, <2>2, <2>3, <2>4
<1>7. DoubtInv'
  BY <1>1, <1>2, <1>K DEF DoubtInv, TypeOK
<1>8. RowsInv'
  BY <1>1, <1>2, <1>K DEF RowsInv, TypeOK
<1>9. SavedInv'
  BY <1>1, <1>2 DEF SavedInv, TypeOK
<1>10. NoSnapshotLost'
  BY <1>1, <1>2 DEF NoSnapshotLost, TypeOK
<1>11. NoOrphanedActiveRow'
  BY <1>1, <1>2 DEF NoOrphanedActiveRow, Buffered, TypeOK
<1>12. FinalFlushComplete'
  <2>1. CASE ids = {}
    <3>1. Cardinality(ids) = 0 /\ BatchLimit # 0
      BY <2>1, FS_EmptySet, BoundsAssumption DEF BoundsAssumption
    <3>2. Buffered = {}
      BY <1>1, <2>1, <3>1
    <3> QED
      BY <1>2, <3>2 DEF FinalFlushComplete, Buffered
  <2>2. CASE ids # {}
    BY <1>1, <1>2, <2>2 DEF FinalFlushComplete
  <2> QED
    BY <2>1, <2>2
<1> QED
  BY <1>3, <1>4, <1>5, <1>6, <1>7, <1>8, <1>9, <1>10, <1>11, <1>12

\* A save that succeeds keeps the invariant: the row becomes what the batch
\* holds, which is never older than the row.
LEMMA SaveSignalStep ==
    ASSUME IInv, TypeOK', NEW s \in Signals, SaveSignal(s)
    PROVE  IInv'
<1> USE SnapshotFields, BufferedFields DEF IInv
<1>1. /\ wpc = "save" /\ phase # "down" /\ batch[s].version # 0
      /\ rows' = [rows EXCEPT ![s] = batch[s].signal]
      /\ saved' = saved \cup {s}
      /\ UNCHANGED <<items, wpc, final, batch, inDoubt, lateHit, failures, latest, owned, closed, phase, crashes>>
  BY DEF SaveSignal, InBatch, WorkerRuns, WorkerFrame
<1>K. \A t \in Signals, x \in Snapshot : KnownSnapshot(t, x)' <=> KnownSnapshot(t, x)
  BY <1>1 DEF KnownSnapshot
<1>3. LatestInv'
  BY <1>1 DEF LatestInv, TypeOK
<1>4. PhaseInv'
  BY <1>1 DEF PhaseInv, TypeOK
<1>5. ItemsInv'
  BY <1>1 DEF ItemsInv, TypeOK
<1>6. BatchInv'
  BY <1>1, <1>K DEF BatchInv, TypeOK
<1>7. DoubtInv'
  BY <1>1, <1>K DEF DoubtInv, TypeOK
<1>8. RowsInv'
  <2> SUFFICES ASSUME NEW t \in Signals
               PROVE  /\ rows'[t].rev <= latest[t].rev
                      /\ rows'[t].rev = 0 => ~rows'[t].active
                      /\ t \in owned /\ rows'[t].rev > 0 => KnownSnapshot(t, rows'[t])
    BY <1>1 DEF RowsInv, KnownSnapshot
  <2>1. CASE t = s
    <3>1. rows'[t] = batch[t].signal /\ batch[t].signal.rev \in Nat
      BY <1>1, <2>1 DEF TypeOK
    <3>2. KnownSnapshot(t, batch[t].signal) /\ batch[t].signal.rev >= 1
      BY <1>1, <2>1 DEF BatchInv
    <3> QED
      BY <3>1, <3>2 DEF KnownSnapshot
  <2>2. CASE t # s
    BY <1>1, <2>2 DEF RowsInv, TypeOK
  <2> QED
    BY <2>1, <2>2
<1>9. SavedInv'
  BY <1>1 DEF SavedInv, BatchInv, ItemsInv, TypeOK
<1>10. NoSnapshotLost'
  BY <1>1 DEF NoSnapshotLost, BatchInv, ItemsInv, LatestInv, TypeOK
<1>11. NoOrphanedActiveRow'
  BY <1>1 DEF NoOrphanedActiveRow, Buffered, BatchInv, ItemsInv, KnownSnapshot, TypeOK
<1>12. FinalFlushComplete'
  BY <1>1 DEF FinalFlushComplete, Buffered, TypeOK
<1> QED
  BY <1>3, <1>4, <1>5, <1>6, <1>7, <1>8, <1>9, <1>10, <1>11, <1>12

\* A save that fails keeps the invariant: nothing is acknowledged.
LEMMA SaveFailsStep ==
    ASSUME IInv, TypeOK', NEW s \in Signals, SaveFails(s)
    PROVE  IInv'
<1> USE SnapshotFields, BufferedFields DEF IInv
<1>1. /\ wpc = "save" /\ phase # "down" /\ batch[s].version # 0
      /\ failures' = failures + 1 /\ failures \in Nat
      /\ inDoubt' = inDoubt \cup {<<s, batch[s].signal>>}
      /\ FlushReturns
      /\ batch' = EmptyBatch /\ saved' = {}
      /\ UNCHANGED <<items, final, rows, lateHit, latest, owned, closed, phase, crashes>>
  BY BoundsAssumption DEF BoundsAssumption, SaveFails, InBatch, WorkerRuns, WorkerFrame, TypeOK
<1>K. \A t \in Signals, x \in Snapshot : KnownSnapshot(t, x)' <=> KnownSnapshot(t, x)
  BY <1>1 DEF KnownSnapshot
<1>3. LatestInv'
  BY <1>1 DEF LatestInv, TypeOK
<1>4. PhaseInv'
  BY <1>1 DEF PhaseInv, FlushReturns, TypeOK
<1>5. ItemsInv'
  BY <1>1 DEF ItemsInv, TypeOK
<1>6. BatchInv'
  BY <1>1, <1>K DEF BatchInv, EmptyBatch, TypeOK
<1>7. DoubtInv'
  BY <1>1, <1>K DEF DoubtInv, BatchInv, TypeOK
<1>8. RowsInv'
  BY <1>1, <1>K DEF RowsInv, TypeOK
<1>9. SavedInv'
  BY <1>1 DEF SavedInv, TypeOK
<1>10. NoSnapshotLost'
  BY <1>1 DEF NoSnapshotLost, TypeOK
<1>11. NoOrphanedActiveRow'
  BY <1>1 DEF NoOrphanedActiveRow, Buffered, TypeOK
<1>12. FinalFlushComplete'
  BY <1>1 DEF FinalFlushComplete, Buffered, TypeOK
<1> QED
  BY <1>3, <1>4, <1>5, <1>6, <1>7, <1>8, <1>9, <1>10, <1>11, <1>12

\* Ack keeps the invariant: an entry whose version was saved is in the table.
LEMMA AckStep ==
    ASSUME IInv, TypeOK', Ack
    PROVE  IInv'
<1> USE SnapshotFields, BufferedFields DEF IInv
<1>1. /\ wpc = "save" /\ phase # "down" /\ InBatch \subseteq saved
      /\ items' = AckedItems /\ wpc' = "snap"
      /\ batch' = EmptyBatch /\ saved' = {}
      /\ UNCHANGED <<final, dbVars, failures, latest, owned, closed, phase, crashes>>
  BY DEF Ack, WorkerRuns, WorkerFrame
<1>K. \A t \in Signals, x \in Snapshot : KnownSnapshot(t, x)' <=> KnownSnapshot(t, x)
  BY <1>1 DEF KnownSnapshot
<1>3. LatestInv'
  BY <1>1 DEF LatestInv, TypeOK
<1>4. PhaseInv'
  BY <1>1 DEF PhaseInv, TypeOK
<1>5. ItemsInv'
  BY <1>1 DEF ItemsInv, AckedItems, TypeOK
<1>6. BatchInv'
  BY <1>1, <1>K DEF BatchInv, EmptyBatch, TypeOK
<1>7. DoubtInv'
  BY <1>1, <1>K DEF DoubtInv, TypeOK
<1>8. RowsInv'
  BY <1>1, <1>K DEF RowsInv, TypeOK
<1>9. SavedInv'
  BY <1>1 DEF SavedInv, TypeOK
<1>10. NoSnapshotLost'
  BY <1>1 DEF NoSnapshotLost, AckedItems, SavedInv, InBatch, TypeOK
<1>11. NoOrphanedActiveRow'
  BY <1>1 DEF NoOrphanedActiveRow, Buffered, AckedItems, SavedInv, InBatch, TypeOK
<1>12. FinalFlushComplete'
  BY <1>1 DEF FinalFlushComplete, Buffered, TypeOK
<1> QED
  BY <1>3, <1>4, <1>5, <1>6, <1>7, <1>8, <1>9, <1>10, <1>11, <1>12

\* A late statement keeps the invariant, or is recorded in lateHit.
LEMMA AbandonedStep ==
    ASSUME IInv, TypeOK', NEW s \in Signals, NEW snap \in Snapshot, AbandonedStatementRuns(s, snap)
    PROVE  IInv'
<1> USE SnapshotFields, BufferedFields DEF IInv
<1>1. /\ <<s, snap>> \in inDoubt
      /\ inDoubt' = inDoubt \ {<<s, snap>>}
      /\ rows' = [rows EXCEPT ![s] = snap]
      /\ ~lateHit' => ~lateHit /\ ~Overwrites(s, snap)
      /\ UNCHANGED <<latest, owned, bufferVars, phase, workerVars, failures, crashes>>
  BY DEF AbandonedStatementRuns, TypeOK
<1>2. snap.rev >= 1 /\ KnownSnapshot(s, snap)
  BY <1>1 DEF DoubtInv
<1>L. ~lateHit' /\ rows[s] = latest[s] => rows'[s] = latest[s]
  <2> SUFFICES ASSUME ~Overwrites(s, snap), rows[s] = latest[s] PROVE snap = latest[s]
    BY <1>1 DEF TypeOK
  <2>1. snap.rev \in Nat /\ latest[s].rev \in Nat /\ ~(latest[s].rev > snap.rev)
    BY DEF Overwrites, TypeOK
  <2> QED
    BY <1>2, <2>1 DEF KnownSnapshot
<1>M. \A t \in Signals : t # s => rows'[t] = rows[t]
  BY <1>1 DEF TypeOK
<1>K. \A t \in Signals, x \in Snapshot : KnownSnapshot(t, x)' <=> KnownSnapshot(t, x)
  BY <1>1, <1>2 DEF KnownSnapshot
<1>3. LatestInv'
  BY <1>1, <1>2 DEF LatestInv, TypeOK
<1>4. PhaseInv'
  BY <1>1, <1>2 DEF PhaseInv, TypeOK
<1>5. ItemsInv'
  BY <1>1, <1>2 DEF ItemsInv, TypeOK
<1>6. BatchInv'
  BY <1>1, <1>2, <1>K DEF BatchInv, DoubtInv, TypeOK
<1>7. DoubtInv'
  BY <1>1, <1>2, <1>K DEF DoubtInv, TypeOK
<1>8. RowsInv'
  <2> SUFFICES ASSUME NEW t \in Signals
               PROVE  /\ rows'[t].rev <= latest[t].rev
                      /\ rows'[t].rev = 0 => ~rows'[t].active
                      /\ t \in owned /\ rows'[t].rev > 0 => KnownSnapshot(t, rows'[t])
    BY <1>1 DEF RowsInv, KnownSnapshot
  <2>1. CASE t = s
    BY <1>1, <1>2, <2>1 DEF KnownSnapshot, TypeOK
  <2>2. CASE t # s
    BY <1>1, <2>2 DEF RowsInv, TypeOK
  <2> QED
    BY <2>1, <2>2
<1>9. SavedInv'
  BY <1>1, <1>L, <1>M DEF SavedInv, TypeOK
<1>10. NoSnapshotLost'
  BY <1>1, <1>L, <1>M DEF NoSnapshotLost, TypeOK
<1>11. NoOrphanedActiveRow'
  <2> SUFFICES ASSUME phase # "down", ~lateHit', NEW t \in Signals, rows'[t].active
               PROVE  t \in owned /\ (latest[t].active \/ (t \in Buffered /\ ~items[t].signal.active))
    BY <1>1 DEF NoOrphanedActiveRow, Buffered
  <2>1. CASE t # s
    BY <1>1, <2>1 DEF NoOrphanedActiveRow, TypeOK
  <2>2. CASE t = s
    <3>1. rows'[t] = snap /\ snap.active /\ t \in owned
      BY <1>1, <2>2 DEF Overwrites, TypeOK
    <3>2. rows'[t] = latest[t] \/ items[t].signal = latest[t]
      BY <1>1, <1>10, <3>1 DEF NoSnapshotLost
    <3>3. latest[t].rev >= 1
      BY <3>1 DEF LatestInv
    <3>4. CASE rows'[t] = latest[t]
      BY <3>1, <3>4
    <3>5. CASE items[t].signal = latest[t]
      <4>1. items[t].version # 0
        BY <3>3, <3>5 DEF ItemsInv
      <4> QED
        BY <3>1, <3>5, <4>1 DEF Buffered
    <3> QED
      BY <3>2, <3>4, <3>5
  <2> QED
    BY <2>1, <2>2
<1>12. FinalFlushComplete'
  BY <1>1, <1>2 DEF FinalFlushComplete, Buffered, TypeOK
<1> QED
  BY <1>3, <1>4, <1>5, <1>6, <1>7, <1>8, <1>9, <1>10, <1>11, <1>12

\* The end of the process, by Exit or by Crash, keeps the invariant.
LEMMA GoneStep ==
    ASSUME IInv, TypeOK', Exit \/ Crash
    PROVE  IInv'
<1> USE SnapshotFields, BufferedFields DEF IInv
<1>1. /\ ProcessGone
      /\ UNCHANGED lateHit
      /\ \A s \in Signals, x \in Snapshot : <<s, x>> \in inDoubt' =>
            <<s, x>> \in inDoubt \/ (batch[s].version # 0 /\ x = batch[s].signal)
  BY DEF Exit, Crash, InBatch
<1>2. /\ phase' = "down" /\ wpc' = "idle" /\ closed' = FALSE /\ owned' = {}
      /\ items' = [s \in Signals |-> Absent] /\ batch' = EmptyBatch /\ saved' = {}
      /\ UNCHANGED <<latest, rows, failures>>
  BY <1>1 DEF ProcessGone
<1>K. \A t \in Signals, x \in Snapshot : KnownSnapshot(t, x)' <=> KnownSnapshot(t, x)
  BY <1>1, <1>2 DEF KnownSnapshot
<1>3. LatestInv'
  BY <1>1, <1>2 DEF LatestInv, TypeOK
<1>4. PhaseInv'
  BY <1>1, <1>2 DEF PhaseInv, TypeOK
<1>5. ItemsInv'
  BY <1>1, <1>2 DEF ItemsInv, TypeOK
<1>6. BatchInv'
  BY <1>1, <1>2, <1>K DEF BatchInv, EmptyBatch, TypeOK
<1>7. DoubtInv'
  BY <1>1, <1>2, <1>K DEF DoubtInv, BatchInv, TypeOK
<1>8. RowsInv'
  BY <1>1, <1>2, <1>K DEF RowsInv, TypeOK
<1>9. SavedInv'
  BY <1>1, <1>2 DEF SavedInv, TypeOK
<1>10. NoSnapshotLost'
  BY <1>1, <1>2 DEF NoSnapshotLost, TypeOK
<1>11. NoOrphanedActiveRow'
  BY <1>1, <1>2 DEF NoOrphanedActiveRow, Buffered, TypeOK
<1>12. FinalFlushComplete'
  BY <1>1, <1>2 DEF FinalFlushComplete, Buffered, TypeOK
<1> QED
  BY <1>3, <1>4, <1>5, <1>6, <1>7, <1>8, <1>9, <1>10, <1>11, <1>12

\* A new process keeps the invariant: ReconcileActiveSignals closed every row.
LEMMA StartStep ==
    ASSUME IInv, TypeOK', Start
    PROVE  IInv'
<1> USE SnapshotFields, BufferedFields DEF IInv
<1>1. /\ phase = "down" /\ phase' = "up" /\ owned = {} /\ wpc = "idle"
      /\ rows' = Reconciled
      /\ UNCHANGED <<latest, owned, bufferVars, workerVars, inDoubt, lateHit, failures, crashes>>
  BY DEF Start, PhaseInv
<1>2. \A s \in Signals : rows'[s].rev = rows[s].rev /\ rows'[s].active = FALSE
  BY <1>1, ReconciledSnapshot DEF Reconciled, TypeOK
<1>K. \A t \in Signals, x \in Snapshot : KnownSnapshot(t, x)' <=> KnownSnapshot(t, x)
  BY <1>1, <1>2 DEF KnownSnapshot
<1>3. LatestInv'
  BY <1>1, <1>2 DEF LatestInv, TypeOK
<1>4. PhaseInv'
  BY <1>1, <1>2 DEF PhaseInv, TypeOK
<1>5. ItemsInv'
  BY <1>1, <1>2 DEF ItemsInv, TypeOK
<1>6. BatchInv'
  BY <1>1, <1>2, <1>K DEF BatchInv, TypeOK
<1>7. DoubtInv'
  BY <1>1, <1>2, <1>K DEF DoubtInv, TypeOK
<1>8. RowsInv'
  BY <1>1, <1>2, <1>K DEF RowsInv, TypeOK
<1>9. SavedInv'
  BY <1>1, <1>2 DEF SavedInv, BatchInv, TypeOK
<1>10. NoSnapshotLost'
  BY <1>1, <1>2 DEF NoSnapshotLost, TypeOK
<1>11. NoOrphanedActiveRow'
  BY <1>1, <1>2 DEF NoOrphanedActiveRow, Buffered, TypeOK
<1>12. FinalFlushComplete'
  BY <1>1, <1>2 DEF FinalFlushComplete, Buffered, TypeOK
<1> QED
  BY <1>3, <1>4, <1>5, <1>6, <1>7, <1>8, <1>9, <1>10, <1>11, <1>12

\* The invariant is inductive: one step per action of Next.
THEOREM Inductive == Spec => []IInv
<1>1. Init => IInv
  <2> SUFFICES ASSUME Init PROVE IInv
    OBVIOUS
  <2>1. TypeOK
    BY InitTyped
  <2> QED
    BY <2>1, SnapshotFields, BufferedFields
    DEF Init, IInv, LatestInv, PhaseInv, ItemsInv, BatchInv, DoubtInv, RowsInv, SavedInv,
        NoSnapshotLost, NoOrphanedActiveRow, FinalFlushComplete, EmptyBatch
<1>2. IInv /\ [Next]_vars => IInv'
  <2> SUFFICES ASSUME IInv, [Next]_vars PROVE IInv'
    OBVIOUS
  <2>1. TypeOK'
    BY TypeStep DEF IInv
  <2>2. ASSUME NEW s \in Signals, Tracker(s) PROVE IInv'
    BY <2>1, <2>2, TrackerStep
  <2>3. CASE TickerFlush \/ WakeFlush \/ FinalFlush
    BY <2>1, <2>3, BeginFlushStep
  <2>4. CASE SnapshotBatch
    BY <2>1, <2>4, SnapshotBatchStep
  <2>5. ASSUME NEW s \in Signals, SaveSignal(s) PROVE IInv'
    BY <2>1, <2>5, SaveSignalStep
  <2>6. ASSUME NEW s \in Signals, SaveFails(s) PROVE IInv'
    BY <2>1, <2>6, SaveFailsStep
  <2>7. CASE Ack
    BY <2>1, <2>7, AckStep
  <2>8. ASSUME NEW d \in inDoubt, AbandonedStatementRuns(d[1], d[2]) PROVE IInv'
    <3>1. d[1] \in Signals /\ d[2] \in Snapshot
      BY DEF IInv, TypeOK
    <3> QED
      BY <2>1, <2>8, <3>1, AbandonedStep
  <2>9. CASE TrackerDrained \/ CloseBuffer \/ PersistCancel
    BY <2>1, <2>9, ShutdownStep
  <2>10. CASE Exit \/ Crash
    BY <2>1, <2>10, GoneStep
  <2>11. CASE Start
    BY <2>1, <2>11, StartStep
  <2>12. CASE UNCHANGED vars
    BY <2>1, <2>12
    DEF vars, IInv, LatestInv, PhaseInv, ItemsInv, BatchInv, DoubtInv, RowsInv, SavedInv,
        KnownSnapshot, NoSnapshotLost, NoOrphanedActiveRow, FinalFlushComplete, Buffered
  <2> QED
    BY <2>2, <2>3, <2>4, <2>5, <2>6, <2>7, <2>8, <2>9, <2>10, <2>11, <2>12
    DEF Next, Worker, Flush, Shutdown
<1> QED
  BY <1>1, <1>2, PTL DEF Spec

\* No acknowledged or failing save loses the newest snapshot of a signal: it is
\* in the table or in the buffer as long as the process runs
\* (SignalPersistenceBuffer.Put, SnapshotBatch and Ack).
THEOREM NothingLost == Spec => []NoSnapshotLost
<1>1. IInv => NoSnapshotLost
  BY DEF IInv
<1> QED
  BY <1>1, Inductive, PTL

\* After ReconcileActiveSignals only signals of the running process have active
\* rows, and a closed one has its closing snapshot on the way.
THEOREM NoOrphans == Spec => []NoOrphanedActiveRow
<1>1. IInv => NoOrphanedActiveRow
  BY DEF IInv
<1> QED
  BY <1>1, Inductive, PTL

\* A final flush without a database error empties the buffer, for every batch
\* limit.
THEOREM FinalFlushEmpties == Spec => []FinalFlushComplete
<1>1. IInv => FinalFlushComplete
  BY DEF IInv
<1> QED
  BY <1>1, Inductive, PTL

\* The upsert of SaveSignal is unconditional and still never takes a row back:
\* one worker saves what SnapshotBatch read, and that is never older than the
\* row unless an abandoned statement ran late.
THEOREM RowsOnlyAdvance == Spec => RowNeverRegresses
<1> DEFINE Advance ==
      ~lateHit' => \A s \in Signals :
          /\ rows'[s].rev >= rows[s].rev
          /\ rows[s].rev > 0 /\ ~rows[s].active => ~rows'[s].active
<1>1. IInv /\ [Next]_vars => [Advance]_vars
  <2> SUFFICES ASSUME IInv, [Next]_vars, rows' # rows PROVE Advance
    BY SnapshotFields DEF IInv, TypeOK
  <2> USE SnapshotFields, BufferedFields DEF IInv
  <2>1. ASSUME NEW s \in Signals, SaveSignal(s) PROVE Advance
    <3>1. rows' = [rows EXCEPT ![s] = batch[s].signal] /\ batch[s].version # 0
      BY <2>1 DEF SaveSignal, InBatch
    <3>2. rows[s].rev <= batch[s].signal.rev /\ KnownSnapshot(s, batch[s].signal)
          /\ batch[s].version <= items[s].version
      BY <3>1 DEF BatchInv
    <3>3. s \in owned
      BY <3>1, <3>2 DEF ItemsInv, TypeOK
    <3>4. rows[s].rev > 0 => KnownSnapshot(s, rows[s])
      BY <3>3 DEF RowsInv
    <3>5. rows[s].rev > 0 /\ ~rows[s].active => ~batch[s].signal.active
      <4> SUFFICES ASSUME rows[s].rev > 0, ~rows[s].active PROVE batch[s].signal = rows[s]
        OBVIOUS
      <4>1. rows[s].rev \in Nat /\ latest[s].rev \in Nat /\ batch[s].signal.rev \in Nat
        BY DEF TypeOK
      <4>2. rows[s].rev = latest[s].rev /\ rows[s] = latest[s]
        BY <3>4, <4>1 DEF KnownSnapshot
      <4> QED
        BY <3>2, <4>1, <4>2 DEF KnownSnapshot
    <3> QED
      BY <3>1, <3>2, <3>5 DEF TypeOK
  <2>2. ASSUME NEW d \in inDoubt, AbandonedStatementRuns(d[1], d[2]) PROVE Advance
    <3>1. d[1] \in Signals /\ d[2] \in Snapshot
      BY DEF TypeOK
    <3>2. rows' = [rows EXCEPT ![d[1]] = d[2]]
      BY <2>2 DEF AbandonedStatementRuns
    <3>3. ~lateHit' => ~Overwrites(d[1], d[2])
      BY <2>2 DEF AbandonedStatementRuns
    <3>4. ~lateHit' => /\ d[2].rev >= rows[d[1]].rev
                       /\ rows[d[1]].rev > 0 /\ ~rows[d[1]].active => ~d[2].active
      BY <3>1, <3>3 DEF Overwrites, TypeOK
    <3> QED
      BY <3>1, <3>2, <3>4 DEF TypeOK
  <2>3. CASE Start
    <3>1. \A s \in Signals : rows'[s].rev = rows[s].rev /\ rows'[s].active = FALSE
      BY <2>3, ReconciledSnapshot DEF Start, Reconciled, TypeOK
    <3>2. \A s \in Signals : rows[s].rev \in Nat
      BY DEF TypeOK
    <3> QED
      BY <3>1, <3>2
  <2>4. ASSUME NEW s \in Signals, Tracker(s) \/ SaveFails(s) PROVE rows' = rows
    BY <2>4 DEF Tracker, TrackerOpen, TrackerUpdate, TrackerClose, TrackerPut, SaveFails
  <2>5. CASE TickerFlush \/ WakeFlush \/ FinalFlush \/ SnapshotBatch \/ Ack
    BY <2>5 DEF TickerFlush, WakeFlush, FinalFlush, BeginFlush, SnapshotBatch, Ack
  <2>6. CASE Shutdown \/ Crash
    BY <2>6 DEF Shutdown, TrackerDrained, CloseBuffer, PersistCancel, ShutdownFrame,
                Exit, Crash, ProcessGone
  <2>7. CASE UNCHANGED vars
    BY <2>7 DEF vars
  <2> QED
    BY <2>1, <2>2, <2>3, <2>4, <2>5, <2>6, <2>7 DEF Next, Worker, Flush
<1> QED
  BY <1>1, Inductive, PTL DEF Spec, RowNeverRegresses

-----------------------------------------------------------------------------
(* PersistenceBuffer implements SignalStore: the buffer, the batches, the   *)
(* versions and the shutdown sequence are stuttering steps or steps of the  *)
(* store that follows the Tracker's snapshots.                              *)

\* A statement that was given up is the trace of a fault.
FaultInv == inDoubt # {} \/ lateHit => failures > 0 \/ crashes > 0

\* Every statement that was given up comes from a failed save or a crash.
LEMMA FaultStep == IInv /\ FaultInv /\ [Next]_vars => FaultInv'
<1> SUFFICES ASSUME IInv, FaultInv, [Next]_vars PROVE FaultInv'
  OBVIOUS
<1>1. failures \in Nat /\ crashes \in Nat
  BY BoundsAssumption DEF BoundsAssumption, IInv, TypeOK
<1>2. ASSUME NEW s \in Signals, Tracker(s) PROVE FaultInv'
  BY <1>2 DEF Tracker, TrackerOpen, TrackerUpdate, TrackerClose, TrackerPut, FaultInv
<1>3. CASE TickerFlush \/ WakeFlush \/ FinalFlush \/ SnapshotBatch \/ Ack \/ Start
  BY <1>3 DEF TickerFlush, WakeFlush, FinalFlush, BeginFlush, SnapshotBatch, Ack, WorkerFrame, Start,
              FaultInv
<1>4. ASSUME NEW s \in Signals, SaveSignal(s) PROVE FaultInv'
  BY <1>4 DEF SaveSignal, WorkerFrame, FaultInv
<1>5. ASSUME NEW s \in Signals, SaveFails(s) PROVE FaultInv'
  BY <1>1, <1>5 DEF SaveFails, FaultInv
<1>6. ASSUME NEW d \in inDoubt, AbandonedStatementRuns(d[1], d[2]) PROVE FaultInv'
  BY <1>6 DEF AbandonedStatementRuns, FaultInv
<1>7. CASE Shutdown
  BY <1>7 DEF Shutdown, TrackerDrained, CloseBuffer, PersistCancel, ShutdownFrame, Exit, ProcessGone,
              FaultInv
<1>8. CASE Crash
  BY <1>1, <1>8 DEF Crash, FaultInv
<1>9. CASE UNCHANGED vars
  BY <1>9 DEF vars, FaultInv
<1> QED
  BY <1>2, <1>3, <1>4, <1>5, <1>6, <1>7, <1>8, <1>9 DEF Next, Worker, Flush

\* A snapshot that the invariant places somewhere is one the Tracker made.
LEMMA KnownIsMade ==
    ASSUME TypeOK, NEW s \in Signals, NEW x \in Snapshot, x.rev >= 1, KnownSnapshot(s, x)
    PROVE  x \in Store!Made(s)
<1>1. /\ x.rev \in Nat /\ x.active \in BOOLEAN /\ x = [rev |-> x.rev, active |-> x.active]
      /\ latest[s].rev \in Nat /\ latest[s].active \in BOOLEAN
  BY SnapshotFields DEF TypeOK, Snapshot
<1>2. x.rev \in 1..latest[s].rev
  BY <1>1 DEF KnownSnapshot
<1>3. x.active = (x.rev < latest[s].rev \/ latest[s].active)
  <2>1. CASE x.rev < latest[s].rev
    BY <1>1, <2>1 DEF KnownSnapshot
  <2>2. CASE ~(x.rev < latest[s].rev)
    <3>1. x = latest[s]
      BY <1>1, <1>2, <2>2 DEF KnownSnapshot
    <3> QED
      BY <1>1, <2>2, <3>1
  <2> QED
    BY <2>1, <2>2
<1>4. x = [rev |-> x.rev, active |-> x.rev < latest[s].rev \/ latest[s].active]
  BY <1>1, <1>3
<1> QED
  BY <1>2, <1>4 DEF Store!Made

-----------------------------------------------------------------------------
(* Every step is a step of the store or leaves it unchanged. *)

\* The Tracker's snapshots.
LEMMA TrackerMaps ==
    ASSUME IInv, NEW s \in Signals, Tracker(s)
    PROVE  Store!Open(s) \/ Store!Change(s)
<1>1. /\ phase = "up" /\ phase' = "up" /\ UNCHANGED <<rows, failures, crashes>>
      /\ owned' = owned \cup {s}
  BY TrackerEffect
<1>2. CASE TrackerOpen(s)
  <2>1. latest[s] = Store!None /\ latest' = [latest EXCEPT ![s] = [rev |-> 1, active |-> TRUE]]
    BY <1>2 DEF TrackerOpen, TrackerPut, Store!None, NoSnapshot
  <2>2. Store!Open(s)
    BY <1>1, <2>1 DEF Store!Open
  <2> QED
    BY <2>2
<1>3. ASSUME NEW active \in BOOLEAN, TrackerHasActive(s), UNCHANGED owned,
             TrackerPut(s, [rev |-> latest[s].rev + 1, active |-> active])
      PROVE  Store!Change(s)
  BY <1>1, <1>3 DEF Store!Change, TrackerHasActive, TrackerPut
<1>4. CASE TrackerUpdate(s)
  BY <1>3, <1>4 DEF TrackerUpdate
<1>5. CASE TrackerClose(s)
  BY <1>3, <1>5 DEF TrackerClose
<1> QED
  BY <1>2, <1>4, <1>5 DEF Tracker

\* A save moves a row of the running process forward.
LEMMA SaveMaps ==
    ASSUME IInv, NEW s \in Signals, SaveSignal(s)
    PROVE  Store!Write(s)
<1>1. /\ rows' = [rows EXCEPT ![s] = batch[s].signal] /\ batch[s].version # 0
      /\ phase # "down" /\ UNCHANGED <<latest, owned, phase, failures, crashes>>
  BY DEF SaveSignal, InBatch, WorkerRuns, WorkerFrame
<1>2. /\ batch[s].version <= items[s].version
      /\ batch[s].signal.rev >= 1 /\ KnownSnapshot(s, batch[s].signal)
      /\ rows[s].rev <= batch[s].signal.rev
  BY <1>1 DEF IInv, BatchInv
<1>3. /\ batch[s].version \in Nat /\ items[s].version \in Nat /\ batch[s].signal \in Snapshot
      /\ batch[s].signal.rev \in Nat /\ rows[s].rev \in Nat
  BY SnapshotFields, BufferedFields DEF IInv, TypeOK
<1>4. s \in owned
  BY <1>1, <1>2, <1>3 DEF IInv, ItemsInv
<1>5. batch[s].signal \in Store!Made(s)
  BY <1>2, <1>3, KnownIsMade DEF IInv
<1>6. batch[s].signal.rev >= rows[s].rev
  BY <1>2, <1>3
<1> QED
  BY <1>1, <1>4, <1>5, <1>6 DEF Store!Write

\* A statement that was given up runs: the store allows it after a fault.
LEMMA AbandonedMaps ==
    ASSUME IInv, FaultInv, NEW d \in inDoubt, AbandonedStatementRuns(d[1], d[2])
    PROVE  \E s \in Signals : Store!LateWrite(s)
<1>1. d[1] \in Signals /\ d[2] \in Snapshot /\ <<d[1], d[2]>> \in inDoubt
  BY DEF IInv, TypeOK, AbandonedStatementRuns
<1>2. d[2].rev >= 1 /\ KnownSnapshot(d[1], d[2])
  BY <1>1 DEF IInv, DoubtInv
<1>3. d[2] \in Store!Made(d[1])
  BY <1>1, <1>2, KnownIsMade DEF IInv
<1>4. failures > 0 \/ crashes > 0
  BY DEF FaultInv
<1>5. /\ rows' = [rows EXCEPT ![d[1]] = d[2]]
      /\ UNCHANGED <<latest, owned, phase, failures, crashes>>
  BY DEF AbandonedStatementRuns
<1>6. Store!LateWrite(d[1])
  BY <1>3, <1>4, <1>5 DEF Store!LateWrite
<1> QED
  BY <1>1, <1>6

\* The process ends: by Run's last step, with everything stored unless a fault
\* has happened, or by a crash, which is one.
LEMMA EndMaps ==
    ASSUME IInv, FaultInv, Exit \/ Crash
    PROVE  Store!End
<1>1. failures \in Nat /\ crashes \in Nat
  BY BoundsAssumption DEF BoundsAssumption, IInv, TypeOK
<1>2. phase # "down" /\ phase' = "down" /\ owned' = {} /\ UNCHANGED <<latest, rows, failures>>
  BY DEF Exit, Crash, ProcessGone
<1>3. CASE Crash
  <2>1. crashes' > 0
    BY <1>1, <1>3 DEF Crash
  <2> QED
    BY <1>2, <2>1 DEF Store!End
<1>4. CASE Exit
  <2>1. crashes' = crashes /\ wpc = "stopped"
    BY <1>4 DEF Exit
  <2>2. ~(failures > 0 \/ crashes > 0) => \A s \in owned : rows[s] = latest[s]
    <3> SUFFICES ASSUME ~(failures > 0 \/ crashes > 0), NEW s \in owned PROVE rows[s] = latest[s]
      OBVIOUS
    <3>1. ~lateHit /\ failures = 0
      BY <1>1 DEF FaultInv
    <3>2. s \in Signals /\ items[s].version = 0
      BY <2>1, <3>1 DEF IInv, TypeOK, FinalFlushComplete, Buffered
    <3>3. items[s].signal = NoSnapshot /\ latest[s] # NoSnapshot
      BY <3>2, SnapshotFields DEF IInv, ItemsInv, LatestInv
    <3> QED
      BY <1>2, <3>1, <3>3 DEF IInv, NoSnapshotLost
  <2> QED
    BY <1>2, <2>1, <2>2 DEF Store!End
<1> QED
  BY <1>3, <1>4

\* One case per action.
LEMMA StepMaps == IInv /\ FaultInv /\ [Next]_vars => [Store!StoreNext]_(Store!storeVars)
<1> SUFFICES ASSUME IInv, FaultInv, [Next]_vars PROVE [Store!StoreNext]_(Store!storeVars)
  OBVIOUS
<1>1. failures \in Nat /\ crashes \in Nat
  BY BoundsAssumption DEF BoundsAssumption, IInv, TypeOK
<1>2. ASSUME NEW s \in Signals, Tracker(s) PROVE Store!StoreNext
  BY <1>2, TrackerMaps DEF Store!StoreNext
<1>3. ASSUME NEW s \in Signals, SaveSignal(s) PROVE Store!StoreNext
  BY <1>3, SaveMaps DEF Store!StoreNext
<1>4. ASSUME NEW s \in Signals, SaveFails(s) PROVE Store!StoreNext
  <2>1. failures' > 0 /\ UNCHANGED <<latest, rows, owned, phase>>
    BY <1>1, <1>4 DEF SaveFails, WorkerFrame
  <2> QED
    BY <2>1 DEF Store!StoreNext, Store!Fault
<1>5. ASSUME NEW d \in inDoubt, AbandonedStatementRuns(d[1], d[2]) PROVE Store!StoreNext
  BY <1>5, AbandonedMaps DEF Store!StoreNext
<1>6. CASE Exit \/ Crash
  BY <1>6, EndMaps DEF Store!StoreNext
<1>7. CASE Start
  <2>1. /\ phase = "down" /\ phase' = "up"
        /\ rows' = [s \in Signals |-> [rows[s] EXCEPT !.active = FALSE]]
        /\ UNCHANGED <<latest, owned, failures, crashes>>
    BY <1>7 DEF Start, Reconciled
  <2> QED
    BY <2>1 DEF Store!StoreNext, Store!Begin
<1>8. CASE TickerFlush \/ WakeFlush \/ FinalFlush \/ SnapshotBatch \/ Ack
  BY <1>8 DEF TickerFlush, WakeFlush, FinalFlush, BeginFlush, SnapshotBatch, Ack, WorkerFrame,
              Store!storeVars
<1>9. CASE TrackerDrained \/ CloseBuffer \/ PersistCancel
  BY <1>9 DEF TrackerDrained, CloseBuffer, PersistCancel, ShutdownFrame, Store!storeVars
<1>10. CASE UNCHANGED vars
  BY <1>10 DEF vars, Store!storeVars
<1> QED
  BY <1>2, <1>3, <1>4, <1>5, <1>6, <1>7, <1>8, <1>9, <1>10 DEF Next, Worker, Flush, Shutdown

\* The persistence buffer implements the store: what the Tracker made is what
\* the table follows, rows only move forward, and a process without a fault ends
\* with the newest snapshot of every signal stored.
THEOREM BufferImplementsStore == Spec => ImplementsStore
<1>1. Init => Store!StoreInit
  BY DEF Init, NoSnapshot, Store!StoreInit, Store!None
<1>2. Init => FaultInv
  BY DEF Init, FaultInv
<1>3. Spec => []FaultInv
  BY <1>2, FaultStep, Inductive, PTL DEF Spec
<1> QED
  BY <1>1, <1>3, StepMaps, Inductive, PTL DEF Spec, ImplementsStore, Store!StoreSpec
=============================================================================
