------------------------- MODULE NotificationRouter -------------------------
(***************************************************************************)
(* The life of one signal's Telegram notifications: the tracker commits an *)
(* event of the signal and calls the NotificationRouter, which keeps one   *)
(* pending job per kind; worker goroutines take the jobs, check them       *)
(* again and hand them to the reliable transport under lifecycleMu.        *)
(* Application.Run's shutdown waits for the tracker first and closes the   *)
(* router last.                                                            *)
(*                                                                         *)
(* Spreads are counted in percentage points above the initial spread.      *)
(* Which users a signal fits (minimal spread, volume, funding time) may    *)
(* change between any two steps, so every evaluation chooses a set anew.   *)
(***************************************************************************)
EXTENDS Naturals, FiniteSets

CONSTANTS
    Users,    \* the subscribed chats
    Workers,  \* the worker goroutines of the router (4 in the code)
    Step,     \* User.UpdateStep, 0 when updates are off
    MaxPeak,  \* bound: how far the spread may rise
    MaxLost,  \* bound: no answer is lost after a chat and kind has lost so many
    None      \* no worker

ASSUME RouterAssumption ==
    /\ Step \in [Users -> Nat]
    /\ MaxPeak \in Nat /\ MaxLost \in Nat
    /\ None \notin Workers
    /\ IsFiniteSet(Workers)

VARIABLES
    signal,       \* the tracker's signal: "none", "open", "closed"
    peak,         \* its PeakSpread
    notified,     \* its NotifiedChatIDs
    tpc,          \* what HandleEvent still has to do for the committed event
    pending,      \* NotificationRouter.pending: the chats of the job of each kind
    wake,         \* number of tokens in the wake channel
    lastUpdate,   \* NotificationRouter.lastUpdate, by chat
    invalidated,  \* the signal is in NotificationRouter.invalidated
    lock,         \* who holds lifecycleMu across a transport call
    wpc,          \* where each worker is
    job,          \* the job each worker has taken
    sender,       \* SetTelegramSender has been called
    online,       \* Telegram answers
    closed,       \* NotificationRouter.closed
    phase,        \* Run: "run", "stopping", "closing", "done"
    got,          \* how many messages of each kind every chat has received
    unheard       \* history: how many of them Telegram accepted without being heard

trackerVars == <<signal, peak, notified, tpc>>
queueVars == <<pending, wake, lastUpdate>>
workerVars == <<lock, wpc, job>>
worldVars == <<sender, online, closed, phase>>
chatVars == <<got, unheard>>
vars == <<trackerVars, queueVars, invalidated, workerVars, worldVars, chatVars>>

Kinds == {"open", "update", "close"}
Job == [kind : Kinds, chats : SUBSET Users]
NoJob == [kind |-> "open", chats |-> {}]

-----------------------------------------------------------------------------
(* enqueue and the tracker's calls *)

\* enqueue: the job replaces a pending one of the same kind, and the wake token
\* is offered without blocking. A closed router, and a job without chats, are
\* refused.
Enqueue(kind, chats) ==
    IF closed \/ chats = {}
    THEN UNCHANGED <<pending, wake>>
    ELSE /\ pending' = [pending EXCEPT ![kind] = chats]
         /\ wake' = 1

TrackerFrame == UNCHANGED <<workerVars, worldVars, chatVars>>

\* HandleEvent commits under Tracker.mu and calls the router after the unlock.
CommitOpen ==
    /\ tpc = "idle" /\ signal = "none" /\ phase = "run"
    /\ signal' = "open"
    /\ tpc' = "open"
    /\ UNCHANGED <<peak, notified, queueVars, invalidated>>
    /\ TrackerFrame

CommitUpdate(p) ==
    /\ tpc = "idle" /\ signal = "open" /\ phase = "run"
    /\ p > peak
    /\ peak' = p
    /\ tpc' = "update"
    /\ UNCHANGED <<signal, notified, queueVars, invalidated>>
    /\ TrackerFrame

\* Also the event of FlushActive, when Run is stopping.
CommitClose ==
    /\ tpc = "idle" /\ signal = "open" /\ phase \in {"run", "stopping"}
    /\ signal' = "closed"
    /\ tpc' = "invalidate"
    /\ UNCHANGED <<peak, notified, queueVars, invalidated>>
    /\ TrackerFrame

\* ProcessSignal(signal, true): the chats are remembered for the CLOSE.
ProcessOpen(fit) ==
    /\ tpc = "open"
    /\ Enqueue("open", fit)
    /\ notified' = fit
    /\ tpc' = "idle"
    /\ UNCHANGED <<signal, peak, lastUpdate, invalidated>>
    /\ TrackerFrame

\* The highest threshold of the chat's step grid that the peak has reached.
Threshold(u) == IF Step[u] = 0 THEN 0 ELSE (peak \div Step[u]) * Step[u]

\* Mutation of UpdateTargets: the last threshold is not looked at.
TargetsWithoutLast(fit) == {u \in fit : Threshold(u) > 0}

UpdateTargets(fit) == {u \in fit : Threshold(u) > 0 /\ Threshold(u) > lastUpdate[u]}

ProcessSignalUpdate(fit) ==
    /\ tpc = "update"
    /\ lastUpdate' = [u \in Users |-> IF u \in UpdateTargets(fit) THEN Threshold(u) ELSE lastUpdate[u]]
    /\ Enqueue("update", UpdateTargets(fit))
    /\ tpc' = "idle"
    /\ UNCHANGED <<signal, peak, notified, invalidated, workerVars, worldVars, chatVars>>

\* invalidateSignal waits for lifecycleMu.
InvalidateSignal ==
    /\ tpc = "invalidate"
    /\ lock = None
    /\ invalidated' = TRUE
    /\ tpc' = "drop"
    /\ UNCHANGED <<signal, peak, notified, queueVars>>
    /\ TrackerFrame

DropPending ==
    /\ tpc = "drop"
    /\ pending' = [pending EXCEPT !["update"] = {}]
    /\ tpc' = "close"
    /\ UNCHANGED <<signal, peak, notified, wake, lastUpdate, invalidated>>
    /\ TrackerFrame

\* ProcessSignal(signal, false): to the chats the OPEN was addressed to.
ProcessClose ==
    /\ tpc = "close"
    /\ Enqueue("close", notified)
    /\ tpc' = "clear"
    /\ UNCHANGED <<signal, peak, notified, lastUpdate, invalidated>>
    /\ TrackerFrame

ClearSignalUpdates ==
    /\ tpc = "clear"
    /\ lastUpdate' = [u \in Users |-> 0]
    /\ tpc' = "idle"
    /\ UNCHANGED <<signal, peak, notified, pending, wake, invalidated>>
    /\ TrackerFrame

-----------------------------------------------------------------------------
(* The workers: worker, takePending and sendJob *)

WorkerFrame == UNCHANGED <<trackerVars, lastUpdate, invalidated, worldVars>>

WakeUp(w) ==
    /\ wpc[w] = "wait"
    /\ wake = 1
    /\ wake' = 0
    /\ wpc' = [wpc EXCEPT ![w] = "take"]
    /\ UNCHANGED <<pending, lock, job, chatVars>>
    /\ WorkerFrame

\* takePending: any pending job; without one the worker waits again.
TakePending(w) ==
    /\ wpc[w] = "take"
    /\ IF \A kind \in Kinds : pending[kind] = {}
       THEN /\ wpc' = [wpc EXCEPT ![w] = "wait"]
            /\ UNCHANGED <<pending, job>>
       ELSE \E kind \in {k \in Kinds : pending[k] # {}} :
            /\ job' = [job EXCEPT ![w] = [kind |-> kind, chats |-> pending[kind]]]
            /\ pending' = [pending EXCEPT ![kind] = {}]
            /\ wpc' = [wpc EXCEPT ![w] = IF kind = "close" THEN "transport" ELSE "check"]
    /\ UNCHANGED <<wake, lock, chatVars>>
    /\ WorkerFrame

\* Mutation of JobDone: one job per wake token.
JobDoneWaits(w) ==
    /\ wpc' = [wpc EXCEPT ![w] = "wait"]
    /\ job' = [job EXCEPT ![w] = NoJob]

\* sendJob returns and the worker looks for the next job.
JobDone(w) ==
    /\ wpc' = [wpc EXCEPT ![w] = "take"]
    /\ job' = [job EXCEPT ![w] = NoJob]

\* The first look at invalidated, before the costly part.
CheckJob(w) ==
    /\ wpc[w] = "check"
    /\ lock = None
    /\ IF invalidated
       THEN JobDone(w)
       ELSE wpc' = [wpc EXCEPT ![w] = "revalidate"] /\ UNCHANGED job
    /\ UNCHANGED <<pending, wake, lock, chatVars>>
    /\ WorkerFrame

\* The revalidator recomputes the route and currentEligibleChatIDs the chats;
\* a route that is gone leaves none of them.
Revalidate(w, fit) ==
    /\ wpc[w] = "revalidate"
    /\ LET chats == job[w].chats \cap fit IN
          /\ IF chats = {}
             THEN JobDone(w)
             ELSE /\ job' = [job EXCEPT ![w].chats = chats]
                  /\ wpc' = [wpc EXCEPT ![w] = "transport"]
    /\ UNCHANGED <<pending, wake, lock, chatVars>>
    /\ WorkerFrame

\* Mutation of Transport: no second look at invalidated under the lock.
TransportWithoutCheck(w) ==
    /\ wpc[w] = "transport"
    /\ sender /\ lock = None
    /\ lock' = w /\ wpc' = [wpc EXCEPT ![w] = "send"] /\ UNCHANGED job
    /\ UNCHANGED <<pending, wake, chatVars>>
    /\ WorkerFrame

\* The second look at invalidated and the transport call share lifecycleMu.
Transport(w) ==
    /\ wpc[w] = "transport"
    /\ sender /\ lock = None
    /\ IF job[w].kind # "close" /\ invalidated
       THEN JobDone(w) /\ UNCHANGED lock
       ELSE lock' = w /\ wpc' = [wpc EXCEPT ![w] = "send"] /\ UNCHANGED job
    /\ UNCHANGED <<pending, wake, chatVars>>
    /\ WorkerFrame

\* Without a transport a closed router gives the job up.
NoTransport(w) ==
    /\ wpc[w] = "transport"
    /\ ~sender /\ closed
    /\ JobDone(w)
    /\ UNCHANGED <<pending, wake, lock, chatVars>>
    /\ WorkerFrame

\* Mutation of ChatDone: the lock is kept after the last chat.
ChatDoneKeepsLock(w, u) ==
    /\ lock' = lock
    /\ IF job[w].chats = {u}
       THEN JobDone(w)
       ELSE job' = [job EXCEPT ![w].chats = @ \ {u}] /\ UNCHANGED wpc

\* After the last chat BroadcastReliable returns and lifecycleMu is released.
ChatDone(w, u) ==
    IF job[w].chats = {u}
    THEN lock' = None /\ JobDone(w)
    ELSE job' = [job EXCEPT ![w].chats = @ \ {u}] /\ UNCHANGED <<lock, wpc>>

\* BroadcastReliable, one chat: while Telegram does not answer the bot retries.
SendChat(w, u) ==
    /\ wpc[w] = "send"
    /\ u \in job[w].chats
    /\ online /\ ~closed
    /\ got' = [got EXCEPT ![u][job[w].kind] = @ + 1]
    /\ ChatDone(w, u)
    /\ UNCHANGED <<pending, wake, unheard>>
    /\ WorkerFrame

\* Telegram accepts the message and the answer is lost: the bot will send it again.
AnswerLost(w, u) ==
    /\ wpc[w] = "send"
    /\ u \in job[w].chats
    /\ online /\ ~closed
    /\ \A v \in Users, kind \in Kinds : unheard[v][kind] < MaxLost
    /\ got' = [got EXCEPT ![u][job[w].kind] = @ + 1]
    /\ unheard' = [unheard EXCEPT ![u][job[w].kind] = @ + 1]
    /\ UNCHANGED <<pending, wake, lock, wpc, job>>
    /\ WorkerFrame

\* Telegram refuses the message for good (4xx): the next chat is served.
SendRefused(w, u) ==
    /\ wpc[w] = "send"
    /\ u \in job[w].chats
    /\ online /\ ~closed
    /\ ChatDone(w, u)
    /\ UNCHANGED <<pending, wake, chatVars>>
    /\ WorkerFrame

\* reliableCtx is cancelled: BroadcastReliable gives up; the request that was
\* at Telegram may have been accepted.
SendCancelled(w) ==
    /\ wpc[w] = "send"
    /\ closed
    /\ \/ UNCHANGED got
       \/ online /\ \E u \in job[w].chats : got' = [got EXCEPT ![u][job[w].kind] = @ + 1]
    /\ lock' = None
    /\ JobDone(w)
    /\ UNCHANGED <<pending, wake, unheard>>
    /\ WorkerFrame

WorkerExits(w) ==
    /\ wpc[w] = "wait"
    /\ closed
    /\ wpc' = [wpc EXCEPT ![w] = "exited"]
    /\ UNCHANGED <<pending, wake, lock, job, chatVars>>
    /\ WorkerFrame

-----------------------------------------------------------------------------
(* Telegram and Application.Run *)

WorldFrame == UNCHANGED <<trackerVars, queueVars, invalidated, workerVars, chatVars>>

SetTelegramSender ==
    /\ ~sender
    /\ sender' = TRUE
    /\ UNCHANGED <<online, closed, phase>>
    /\ WorldFrame

TelegramDown ==
    /\ online
    /\ online' = FALSE
    /\ UNCHANGED <<sender, closed, phase>>
    /\ WorldFrame

TelegramUp ==
    /\ ~online
    /\ online' = TRUE
    /\ UNCHANGED <<sender, closed, phase>>
    /\ WorldFrame

\* ctx.Done: cleanup flushes the tracker.
StopRun ==
    /\ phase = "run"
    /\ phase' = "stopping"
    /\ UNCHANGED <<sender, online, closed>>
    /\ WorldFrame

\* trackerWg.Wait() has returned, cleanup ends, the deferred Close begins.
CloseRouter ==
    /\ phase = "stopping"
    /\ tpc = "idle" /\ signal # "open"
    /\ phase' = "closing"
    /\ closed' = TRUE
    /\ UNCHANGED <<sender, online>>
    /\ WorldFrame

\* Close's wg.Wait() has returned.
RouterClosed ==
    /\ phase = "closing"
    /\ \A w \in Workers : wpc[w] = "exited"
    /\ phase' = "done"
    /\ UNCHANGED <<sender, online, closed>>
    /\ WorldFrame

-----------------------------------------------------------------------------
Init ==
    /\ signal = "none" /\ peak = 0 /\ notified = {} /\ tpc = "idle"
    /\ pending = [kind \in Kinds |-> {}]
    /\ wake = 0
    /\ lastUpdate = [u \in Users |-> 0]
    /\ invalidated = FALSE
    /\ lock = None
    /\ wpc = [w \in Workers |-> "wait"]
    /\ job = [w \in Workers |-> NoJob]
    /\ sender = FALSE /\ online = TRUE /\ closed = FALSE /\ phase = "run"
    /\ got = [u \in Users |-> [kind \in Kinds |-> 0]]
    /\ unheard = [u \in Users |-> [kind \in Kinds |-> 0]]

TrackerCalls ==
    \/ \E fit \in SUBSET Users : ProcessOpen(fit) \/ ProcessSignalUpdate(fit)
    \/ InvalidateSignal \/ DropPending \/ ProcessClose \/ ClearSignalUpdates

Commit == CommitOpen \/ CommitClose \/ \E p \in 1..MaxPeak : CommitUpdate(p)

WorkerStep(w) ==
    \/ WakeUp(w) \/ TakePending(w) \/ CheckJob(w)
    \/ \E fit \in SUBSET Users : Revalidate(w, fit)
    \/ Transport(w) \/ NoTransport(w)
    \/ \E u \in Users : SendChat(w, u) \/ AnswerLost(w, u) \/ SendRefused(w, u)
    \/ SendCancelled(w)
    \/ WorkerExits(w)

Next ==
    \/ Commit
    \/ TrackerCalls
    \/ \E w \in Workers : WorkerStep(w)
    \/ SetTelegramSender \/ TelegramDown \/ TelegramUp
    \/ StopRun \/ CloseRouter \/ RouterClosed

Spec == Init /\ [][Next]_vars

(* The goroutines run, a Go mutex is not withheld from a waiter forever,    *)
(* and the flush of cleanup delivers the last CLOSED event. Nothing is      *)
(* promised about Telegram.                                                 *)
FairSpec ==
    /\ Spec
    /\ SF_vars(TrackerCalls)
    /\ WF_vars(phase = "stopping" /\ CommitClose)
    /\ \A w \in Workers : SF_vars(WorkerStep(w))
    /\ WF_vars(SetTelegramSender)
    /\ WF_vars(CloseRouter) /\ WF_vars(RouterClosed)

(* As FairSpec, and every outage of Telegram ends.                          *)
RecoverySpec == FairSpec /\ WF_vars(TelegramUp)

-----------------------------------------------------------------------------
(* Properties *)

\* Type correctness of the tracker's part, the queue, the workers and Run.
TypeOK ==
    /\ signal \in {"none", "open", "closed"} /\ peak \in 0..MaxPeak /\ notified \subseteq Users
    /\ tpc \in {"idle", "open", "update", "invalidate", "drop", "close", "clear"}
    /\ pending \in [Kinds -> SUBSET Users]
    /\ wake \in {0, 1}
    /\ lastUpdate \in [Users -> 0..MaxPeak]
    /\ invalidated \in BOOLEAN
    /\ lock \in Workers \cup {None}
    /\ wpc \in [Workers -> {"wait", "take", "check", "revalidate", "transport", "send", "exited"}]
    /\ job \in [Workers -> Job]
    /\ sender \in BOOLEAN /\ online \in BOOLEAN /\ closed \in BOOLEAN
    /\ phase \in {"run", "stopping", "closing", "done"}
    /\ got \in [Users -> [Kinds -> Nat]]
    /\ unheard \in [Users -> [Kinds -> Nat]]

\* Once a chat has the CLOSE of a signal it gets no OPEN and no UPDATE of it, with
\* any number of workers and repeated sends: sendJob looks at invalidated again
\* under lifecycleMu, which it keeps until the transport is done with the job.
CloseIsLast ==
    [][\A u \in Users : got[u]["close"] > 0 =>
          \A kind \in {"open", "update"} : got'[u][kind] = got[u][kind]]_vars

\* A chat is told once of the OPEN, of the CLOSE and of each threshold, and again
\* only for an answer that was lost (bot.go:188 repeats the send): the router
\* itself never queues a message twice, whatever is pending, held by a worker or
\* discarded when the next event comes (updateState).
OnlyLostAnswersRepeat ==
    \A u \in Users :
        /\ \A kind \in {"open", "close"} : got[u][kind] <= 1 + unheard[u][kind]
        /\ got[u]["update"] <= (IF Step[u] = 0 THEN 0 ELSE peak \div Step[u]) + unheard[u]["update"]

\* A job that waits is taken by a worker, dropped by the CLOSE, or left behind
\* by the end of the router: no wake token is lost.
NoJobStranded ==
    \A kind \in Kinds : (pending[kind] # {}) ~> (pending[kind] = {} \/ phase = "done")

\* From the start of the shutdown the router comes to its end.
ShutdownCompletes == (phase = "stopping") ~> (phase = "done")
=============================================================================
