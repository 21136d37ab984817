---------------------------- MODULE SignalStore -----------------------------
(***************************************************************************)
(* What signal persistence promises, without a buffer, a worker, batches,  *)
(* versions or a shutdown sequence: a table that follows the newest        *)
(* snapshot of every signal. A row only moves forward, to a snapshot the   *)
(* Tracker really made; a new process makes every row inactive before it   *)
(* opens signals of its own; and a process that met no fault does not end  *)
(* before the table holds the newest snapshot of all its signals.          *)
(*                                                                         *)
(* A fault is a failed statement or a crash. After one a process may end   *)
(* early, and a statement that was given up may still run.                 *)
(***************************************************************************)
EXTENDS Naturals

CONSTANT Signals

VARIABLES
    newest,    \* [signal |-> the newest snapshot]
    table,     \* [signal |-> the stored snapshot]
    opened,    \* the signals the running process has opened
    running,   \* a process runs
    faulty     \* a fault has happened

storeVars == <<newest, table, opened, running, faulty>>

None == [rev |-> 0, active |-> FALSE]

\* The snapshots a signal has had. Only the newest can be the closing one.
Made(s) == {[rev |-> r, active |-> r < newest[s].rev \/ newest[s].active] : r \in 1..newest[s].rev}

StoreInit ==
    /\ newest = [s \in Signals |-> None]
    /\ table = [s \in Signals |-> None]
    /\ opened = {} /\ running = FALSE /\ faulty = FALSE

Open(s) ==
    /\ running /\ newest[s] = None
    /\ newest' = [newest EXCEPT ![s] = [rev |-> 1, active |-> TRUE]]
    /\ opened' = opened \cup {s}
    /\ UNCHANGED <<table, running, faulty>>

Change(s) ==
    /\ running /\ s \in opened /\ newest[s].active
    /\ \E active \in BOOLEAN :
        newest' = [newest EXCEPT ![s] = [rev |-> @.rev + 1, active |-> active]]
    /\ UNCHANGED <<table, opened, running, faulty>>

\* A row of the running process moves forward.
Write(s) ==
    /\ running /\ s \in opened
    /\ \E snap \in Made(s) :
        /\ snap.rev >= table[s].rev
        /\ table' = [table EXCEPT ![s] = snap]
    /\ UNCHANGED <<newest, opened, running, faulty>>

\* A statement that was given up runs.
LateWrite(s) ==
    /\ faulty
    /\ \E snap \in Made(s) : table' = [table EXCEPT ![s] = snap]
    /\ UNCHANGED <<newest, opened, running, faulty>>

Fault ==
    /\ faulty' = TRUE
    /\ UNCHANGED <<newest, table, opened, running>>

End ==
    /\ running /\ running' = FALSE
    /\ faulty' \/ \A s \in opened : table[s] = newest[s]
    /\ faulty' \in {faulty, TRUE}
    /\ opened' = {}
    /\ UNCHANGED <<newest, table>>

Begin ==
    /\ ~running /\ running' = TRUE
    /\ table' = [s \in Signals |-> [table[s] EXCEPT !.active = FALSE]]
    /\ UNCHANGED <<newest, opened, faulty>>

StoreNext ==
    \/ \E s \in Signals : Open(s) \/ Change(s) \/ Write(s) \/ LateWrite(s)
    \/ Fault \/ End \/ Begin

StoreSpec == StoreInit /\ [][StoreNext]_storeVars
=============================================================================
