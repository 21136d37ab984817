---------------------- MODULE NotificationRouterProofs ----------------------
(* Proofs about NotificationRouter, for every set of chats, any finite      *)
(* number of workers and every step and peak.                               *)
EXTENDS NotificationRouter, FiniteSetTheorems, TLAPS

USE DEF trackerVars, queueVars, workerVars, worldVars, chatVars

-----------------------------------------------------------------------------
(* The inductive invariant. A chat's notification of one kind is in one of  *)
(* three places: a pending job, the jobs that workers hold, or delivered.   *)
(* Count adds them up, leaving out deliveries whose answer was lost, for    *)
(* these are still in a worker's job. No worker ever raises a count, so how often a chat   *)
(* can be told of something is decided where the tracker enqueues it.       *)

Holders(kind, u) == {w \in Workers : job[w].kind = kind /\ u \in job[w].chats}

\* What was delivered and heard of.
Heard(kind, u) == got[u][kind] - unheard[u][kind]

Count(kind, u) ==
    Heard(kind, u) + (IF u \in pending[kind] THEN 1 ELSE 0) + Cardinality(Holders(kind, u))

\* How many steps of the chat's grid fit below a rise of x.
Level(u, x) == IF Step[u] = 0 THEN 0 ELSE x \div Step[u]

\* Where HandleEvent is, and what that says of the signal.
TrackerInv ==
    /\ tpc \in {"open", "update"} => signal = "open"
    /\ tpc \in {"invalidate", "drop", "close", "clear"} => signal = "closed"
    /\ ~invalidated => signal # "closed" \/ tpc = "invalidate"

\* A worker inside the transport call holds lifecycleMu, and once the signal is
\* invalidated such a call delivers the CLOSE.
LockInv ==
    \A w \in Workers : wpc[w] = "send" => lock = w /\ (invalidated => job[w].kind = "close")

\* The CLOSE has not been enqueued.
NotClosedYet == signal # "closed" \/ tpc \in {"invalidate", "drop", "close"}

CountInv ==
    \A u \in Users :
        /\ Count("open", u) <= IF signal = "none" \/ tpc = "open" THEN 0 ELSE 1
        /\ Count("close", u) <= IF NotClosedYet THEN 0 ELSE 1
        /\ Count("update", u) <= Level(u, peak)
        /\ signal # "closed" => Count("update", u) <= Level(u, lastUpdate[u])

\* Nobody hears of more than was delivered, and nobody has a CLOSE that was not
\* enqueued.
HeardInv ==
    \A u \in Users :
        /\ \A kind \in Kinds : unheard[u][kind] <= got[u][kind]
        /\ got[u]["close"] > 0 => ~NotClosedYet

IInv == TypeOK /\ TrackerInv /\ LockInv /\ CountInv /\ HeardInv

-----------------------------------------------------------------------------
(* Lemmas about the operators. *)

\* The grid of a step: the highest threshold up to a rise p is at most p, lies
\* on its own level, and a rise below it lies on a lower level.
LEMMA Grid ==
    ASSUME NEW s \in Nat \ {0}, NEW p \in Nat
    PROVE  /\ p \div s \in Nat
           /\ (p \div s) * s \in Nat
           /\ (p \div s) * s <= p
           /\ ((p \div s) * s) \div s = p \div s
           /\ \A x \in Nat : x < (p \div s) * s => x \div s < p \div s
           /\ \A x \in Nat : p <= x => p \div s <= x \div s
<1>1. p \div s \in Nat /\ (p \div s) * s <= p
  OBVIOUS
<1> DEFINE q == p \div s
<1>2. q \in Nat
  BY <1>1
<1> HIDE DEF q
<1>3. q * s \in Nat /\ (q * s) \div s = q
  BY <1>2
<1>4. \A x \in Nat : x < q * s => x \div s < q
  BY <1>2
<1>5. \A x \in Nat : p <= x => p \div s <= x \div s
  OBVIOUS
<1> QED
  BY <1>1, <1>2, <1>3, <1>4, <1>5 DEF q

\* Levels are natural numbers and grow with the rise.
LEMMA Levels ==
    ASSUME NEW u \in Users, NEW x \in Nat, NEW y \in Nat, x <= y
    PROVE  Level(u, x) \in Nat /\ Level(u, x) <= Level(u, y)
<1>1. Step[u] \in Nat
  BY RouterAssumption DEF RouterAssumption
<1>2. CASE Step[u] = 0
  BY <1>2 DEF Level
<1>3. CASE Step[u] # 0
  BY <1>1, <1>3, Grid DEF Level
<1> QED
  BY <1>2, <1>3

\* A threshold is reached by the peak, and one above the chat's last is on a
\* higher level: UpdateTargets compares spreads, the invariant counts levels.
LEMMA ThresholdLevel ==
    ASSUME TypeOK, NEW u \in Users
    PROVE  /\ Threshold(u) \in 0..MaxPeak
           /\ Threshold(u) > lastUpdate[u] =>
                /\ Level(u, Threshold(u)) = Level(u, peak)
                /\ Level(u, lastUpdate[u]) + 1 <= Level(u, peak)
<1>1. Step[u] \in Nat /\ peak \in Nat /\ peak <= MaxPeak /\ MaxPeak \in Nat /\ lastUpdate[u] \in Nat
  BY RouterAssumption DEF RouterAssumption, TypeOK
<1>2. CASE Step[u] = 0
  BY <1>1, <1>2 DEF Threshold
<1>3. CASE Step[u] # 0
  <2>1. Step[u] \in Nat \ {0}
    BY <1>1, <1>3
  <2> DEFINE q == peak \div Step[u]
             t == (peak \div Step[u]) * Step[u]
             l == lastUpdate[u] \div Step[u]
  <2>2. q \in Nat /\ t \in Nat /\ t <= peak /\ t \div Step[u] = q /\ l \in Nat
    BY <1>1, <2>1, Grid
  <2>3. lastUpdate[u] < t => l < q
    BY <1>1, <2>1, Grid
  <2>4. /\ Threshold(u) = t /\ Level(u, t) = t \div Step[u]
        /\ Level(u, peak) = q /\ Level(u, lastUpdate[u]) = l
    BY <1>3 DEF Threshold, Level
  <2> HIDE DEF q, t, l
  <2> QED
    BY <1>1, <2>2, <2>3, <2>4
<1> QED
  BY <1>2, <1>3

\* The workers that hold a job for a chat are finitely many.
LEMMA HoldersFinite ==
    \A kind \in Kinds, u \in Users :
        /\ IsFiniteSet(Holders(kind, u)) /\ Cardinality(Holders(kind, u)) \in Nat
        /\ IsFiniteSet(Holders(kind, u)') /\ Cardinality(Holders(kind, u)') \in Nat
<1> SUFFICES ASSUME NEW kind \in Kinds, NEW u \in Users
             PROVE  /\ IsFiniteSet(Holders(kind, u)) /\ Cardinality(Holders(kind, u)) \in Nat
                    /\ IsFiniteSet(Holders(kind, u)') /\ Cardinality(Holders(kind, u)') \in Nat
  OBVIOUS
<1>1. IsFiniteSet(Workers)
  BY RouterAssumption DEF RouterAssumption
<1>2. Holders(kind, u) \subseteq Workers /\ Holders(kind, u)' \subseteq Workers
  BY DEF Holders
<1>3. IsFiniteSet(Holders(kind, u)) /\ IsFiniteSet(Holders(kind, u)')
  BY <1>1, <1>2, FS_Subset
<1> QED
  BY <1>3, FS_CardinalityType

\* A count is a number, at least what has been heard of, and more than that if a
\* worker still holds the job.
LEMMA CountType ==
    ASSUME TypeOK, NEW kind \in Kinds, NEW u \in Users
    PROVE  /\ Count(kind, u) \in Int /\ Heard(kind, u) \in Int
           /\ Heard(kind, u) <= Count(kind, u)
           /\ Holders(kind, u) # {} => Heard(kind, u) + 1 <= Count(kind, u)
<1>1. Heard(kind, u) \in Int
  BY DEF TypeOK, Heard
<1>2. Cardinality(Holders(kind, u)) \in Nat /\ IsFiniteSet(Holders(kind, u))
  BY HoldersFinite
<1>3. Holders(kind, u) # {} => Cardinality(Holders(kind, u)) # 0
  BY <1>2, FS_EmptySet
<1> QED
  BY <1>1, <1>2, <1>3 DEF Count

\* The same after a step that keeps the types.
LEMMA CountTypeNext ==
    ASSUME TypeOK', NEW kind \in Kinds, NEW u \in Users
    PROVE  Count(kind, u)' \in Int
<1>1. got'[u][kind] \in Nat /\ unheard'[u][kind] \in Nat /\ Cardinality(Holders(kind, u)') \in Nat
  BY HoldersFinite DEF TypeOK
<1>2. Count(kind, u)' = (got'[u][kind] - unheard'[u][kind]) + (IF u \in pending'[kind] THEN 1 ELSE 0)
                           + Cardinality(Holders(kind, u)')
  BY DEF Count, Heard
<1> QED
  BY <1>1, <1>2

\* What happens to a count when holders leave and a worker joins.
LEMMA HoldersChange ==
    ASSUME NEW kind \in Kinds, NEW u \in Users, NEW w \in Workers
    PROVE  /\ Holders(kind, u)' \subseteq Holders(kind, u) =>
                Cardinality(Holders(kind, u)') <= Cardinality(Holders(kind, u))
           /\ Holders(kind, u)' \subseteq Holders(kind, u) \cup {w} =>
                Cardinality(Holders(kind, u)') <= Cardinality(Holders(kind, u)) + 1
           /\ w \in Holders(kind, u) /\ Holders(kind, u)' \subseteq Holders(kind, u) \ {w} =>
                Cardinality(Holders(kind, u)') + 1 <= Cardinality(Holders(kind, u))
<1> DEFINE H == Holders(kind, u)
           K == Holders(kind, u)'
<1>1. IsFiniteSet(H) /\ Cardinality(H) \in Nat /\ Cardinality(K) \in Nat
  BY HoldersFinite
<1> HIDE DEF H, K
<1>2. K \subseteq H => Cardinality(K) <= Cardinality(H)
  BY <1>1, FS_Subset
<1>3. IsFiniteSet(H \cup {w}) /\ Cardinality(H \cup {w}) <= Cardinality(H) + 1
  <2>1. /\ IsFiniteSet(H \cup {w})
        /\ Cardinality(H \cup {w}) = IF w \in H THEN Cardinality(H) ELSE Cardinality(H) + 1
    BY <1>1, FS_AddElement, Zenon
  <2> QED
    BY <1>1, <2>1
<1>4. K \subseteq H \cup {w} => Cardinality(K) <= Cardinality(H) + 1
  BY <1>1, <1>3, FS_Subset, FS_CardinalityType
<1>5. IsFiniteSet(H \ {w}) /\ (w \in H => Cardinality(H \ {w}) = Cardinality(H) - 1)
  BY <1>1, FS_RemoveElement
<1>6. w \in H /\ K \subseteq H \ {w} => Cardinality(K) + 1 <= Cardinality(H)
  BY <1>1, <1>5, FS_Subset, FS_CardinalityType
<1> QED
  BY <1>2, <1>4, <1>6 DEF H, K

-----------------------------------------------------------------------------
(* Type correctness. *)

\* What a job is made of, and that fewer chats make a job again.
LEMMA JobFields ==
    /\ \A j \in Job : j.kind \in Kinds /\ j.chats \in SUBSET Users
    /\ \A k \in Kinds, c \in SUBSET Users : [kind |-> k, chats |-> c] \in Job
    /\ \A j \in Job, c \in SUBSET Users :
        /\ [j EXCEPT !.chats = c] \in Job
        /\ [j EXCEPT !.chats = c].kind = j.kind
        /\ [j EXCEPT !.chats = c].chats = c
  BY DEF Job

\* JobDone keeps jobs and worker states well typed.
LEMMA JobDoneTyped ==
    ASSUME TypeOK, NEW w \in Workers, JobDone(w)
    PROVE  /\ wpc' \in [Workers -> {"wait", "take", "check", "revalidate", "transport", "send", "exited"}]
           /\ job' \in [Workers -> Job]
  BY DEF TypeOK, JobDone, NoJob, Job, Kinds

\* Enqueue keeps pending jobs and the wake channel well typed.
LEMMA EnqueueTyped ==
    ASSUME TypeOK, NEW kind \in Kinds, NEW chats \in SUBSET Users, Enqueue(kind, chats)
    PROVE  pending' \in [Kinds -> SUBSET Users] /\ wake' \in {0, 1}
  BY DEF TypeOK, Enqueue

\* ChatDone, one more message or not, keeps the worker well typed.
LEMMA ChatDoneTyped ==
    ASSUME TypeOK, NEW w \in Workers, NEW u \in Users, ChatDone(w, u)
    PROVE  /\ lock' \in Workers \cup {None}
           /\ wpc' \in [Workers -> {"wait", "take", "check", "revalidate", "transport", "send", "exited"}]
           /\ job' \in [Workers -> Job]
<1>1. CASE job[w].chats = {u}
  BY <1>1, JobDoneTyped DEF ChatDone
<1>2. CASE job[w].chats # {u}
  <2>1. job[w] \in Job /\ job[w].chats \ {u} \in SUBSET Users
    BY JobFields DEF TypeOK
  <2>2. job' = [job EXCEPT ![w] = [job[w] EXCEPT !.chats = job[w].chats \ {u}]] /\ UNCHANGED <<lock, wpc>>
    BY <1>2 DEF ChatDone
  <2> QED
    BY <2>1, <2>2, JobFields DEF TypeOK
<1> QED
  BY <1>1, <1>2

\* One more message of a kind for a chat.
LEMMA OneMore ==
    ASSUME NEW f \in [Users -> [Kinds -> Nat]], NEW u \in Users, NEW k \in Kinds
    PROVE  /\ [f EXCEPT ![u][k] = @ + 1] \in [Users -> [Kinds -> Nat]]
           /\ \A v \in Users, kind \in Kinds :
                [f EXCEPT ![u][k] = @ + 1][v][kind] = IF v = u /\ kind = k THEN f[v][kind] + 1 ELSE f[v][kind]
<1>1. [f EXCEPT ![u][k] = @ + 1] = [f EXCEPT ![u] = [f[u] EXCEPT ![k] = f[u][k] + 1]]
  OBVIOUS
<1>2. [f[u] EXCEPT ![k] = f[u][k] + 1] \in [Kinds -> Nat]
  OBVIOUS
<1> QED
  BY <1>1, <1>2

\* One more message of a kind keeps the counts well typed.
LEMMA GotTyped ==
    ASSUME TypeOK, NEW w \in Workers, NEW u \in Users
    PROVE  /\ got' = [got EXCEPT ![u][job[w].kind] = @ + 1] => got' \in [Users -> [Kinds -> Nat]]
           /\ unheard' = [unheard EXCEPT ![u][job[w].kind] = @ + 1] => unheard' \in [Users -> [Kinds -> Nat]]
<1>1. job[w].kind \in Kinds
  BY DEF TypeOK, Job
<1>2. got \in [Users -> [Kinds -> Nat]] /\ unheard \in [Users -> [Kinds -> Nat]]
  BY DEF TypeOK
<1>3. \A f \in [Users -> [Kinds -> Nat]] : [f EXCEPT ![u][job[w].kind] = @ + 1] \in [Users -> [Kinds -> Nat]]
  BY <1>1, OneMore, Zenon
<1> QED
  BY <1>2, <1>3, Zenon

\* The initial state is type correct.
LEMMA InitTyped == Init => TypeOK
<1> SUFFICES ASSUME Init PROVE TypeOK
  OBVIOUS
<1>1. invalidated \in BOOLEAN /\ sender \in BOOLEAN /\ online \in BOOLEAN /\ closed \in BOOLEAN
  BY Zenon DEF Init
<1>2. peak \in 0..MaxPeak /\ lastUpdate \in [Users -> 0..MaxPeak]
  BY RouterAssumption DEF Init, RouterAssumption
<1> QED
  BY <1>1, <1>2 DEF Init, TypeOK, NoJob, Job, Kinds

\* Every step keeps the state type correct.
LEMMA TypeStep == TypeOK /\ [Next]_vars => TypeOK'
<1> SUFFICES ASSUME TypeOK, [Next]_vars PROVE TypeOK'
  OBVIOUS
<1>1. CASE CommitOpen \/ CommitClose
  BY <1>1 DEF CommitOpen, CommitClose, TrackerFrame, TypeOK
<1>2. ASSUME NEW p \in 1..MaxPeak, CommitUpdate(p) PROVE TypeOK'
  BY <1>2, RouterAssumption DEF RouterAssumption, CommitUpdate, TrackerFrame, TypeOK
<1>3. ASSUME NEW fit \in SUBSET Users, ProcessOpen(fit) PROVE TypeOK'
  <2>1. pending' \in [Kinds -> SUBSET Users] /\ wake' \in {0, 1}
    BY <1>3, EnqueueTyped DEF ProcessOpen, Kinds
  <2> QED
    BY <1>3, <2>1 DEF ProcessOpen, TrackerFrame, TypeOK
<1>4. ASSUME NEW fit \in SUBSET Users, ProcessSignalUpdate(fit) PROVE TypeOK'
  <2>1. UpdateTargets(fit) \in SUBSET Users
    BY DEF UpdateTargets
  <2>2. pending' \in [Kinds -> SUBSET Users] /\ wake' \in {0, 1}
    BY <1>4, <2>1, EnqueueTyped DEF ProcessSignalUpdate, Kinds
  <2>3. lastUpdate' \in [Users -> 0..MaxPeak]
    BY <1>4, ThresholdLevel DEF ProcessSignalUpdate, TypeOK
  <2> QED
    BY <1>4, <2>2, <2>3 DEF ProcessSignalUpdate, TypeOK
<1>5. CASE InvalidateSignal \/ DropPending
  <2>1. CASE InvalidateSignal
    BY <2>1 DEF InvalidateSignal, TrackerFrame, TypeOK
  <2>2. CASE DropPending
    <3>1. pending' \in [Kinds -> SUBSET Users]
      BY <2>2 DEF DropPending, TypeOK
    <3> QED
      BY <2>2, <3>1 DEF DropPending, TrackerFrame, TypeOK
  <2> QED
    BY <1>5, <2>1, <2>2
<1>6. CASE ProcessClose
  <2>1. pending' \in [Kinds -> SUBSET Users] /\ wake' \in {0, 1}
    BY <1>6, EnqueueTyped DEF ProcessClose, Kinds, TypeOK
  <2> QED
    BY <1>6, <2>1 DEF ProcessClose, TrackerFrame, TypeOK
<1>7. CASE ClearSignalUpdates
  BY <1>7, RouterAssumption DEF RouterAssumption, ClearSignalUpdates, TrackerFrame, TypeOK
<1>8. ASSUME NEW w \in Workers, WorkerStep(w) PROVE TypeOK'
  <2>1. CASE WakeUp(w) \/ WorkerExits(w)
    BY <2>1 DEF WakeUp, WorkerExits, WorkerFrame, TypeOK
  <2>2. CASE TakePending(w)
    <3>1. CASE \A kind \in Kinds : pending[kind] = {}
      <4>1. /\ wpc' = [wpc EXCEPT ![w] = "wait"]
            /\ UNCHANGED <<trackerVars, queueVars, invalidated, lock, job, worldVars, chatVars>>
        BY <2>2, <3>1 DEF TakePending, WorkerFrame
      <4> QED
        BY <4>1 DEF TypeOK
    <3>2. CASE ~ \A kind \in Kinds : pending[kind] = {}
      <4>1. PICK kind \in Kinds :
              /\ job' = [job EXCEPT ![w] = [kind |-> kind, chats |-> pending[kind]]]
              /\ pending' = [pending EXCEPT ![kind] = {}]
              /\ wpc' = [wpc EXCEPT ![w] = IF kind = "close" THEN "transport" ELSE "check"]
        BY <2>2, <3>2 DEF TakePending
      <4>2. [kind |-> kind, chats |-> pending[kind]] \in Job
        BY JobFields DEF TypeOK
      <4> QED
        BY <2>2, <4>1, <4>2 DEF TakePending, WorkerFrame, TypeOK
    <3> QED
      BY <3>1, <3>2
  <2>3. CASE CheckJob(w)
    BY <2>3, JobDoneTyped DEF CheckJob, WorkerFrame, TypeOK
  <2>4. ASSUME NEW fit \in SUBSET Users, Revalidate(w, fit) PROVE TypeOK'
    <3>1. job[w].chats \cap fit \in SUBSET Users
      OBVIOUS
    <3>2. job' \in [Workers -> Job]
      <4>1. CASE job[w].chats \cap fit = {}
        BY <2>4, <4>1, JobDoneTyped DEF Revalidate
      <4>2. CASE job[w].chats \cap fit # {}
        <5>1. job' = [job EXCEPT ![w] = [job[w] EXCEPT !.chats = job[w].chats \cap fit]]
          BY <2>4, <4>2 DEF Revalidate
        <5> QED
          BY <3>1, <5>1, JobFields DEF TypeOK
      <4> QED
        BY <4>1, <4>2
    <3>3. wpc' \in [Workers -> {"wait", "take", "check", "revalidate", "transport", "send", "exited"}]
      BY <2>4, JobDoneTyped DEF Revalidate, TypeOK
    <3> QED
      BY <2>4, <3>2, <3>3 DEF Revalidate, WorkerFrame, TypeOK
  <2>5. CASE Transport(w) \/ NoTransport(w)
    BY <2>5, JobDoneTyped DEF Transport, NoTransport, WorkerFrame, TypeOK
  <2>6. ASSUME NEW u \in Users, SendChat(w, u) \/ SendRefused(w, u) PROVE TypeOK'
    <3>1. got' \in [Users -> [Kinds -> Nat]]
      BY <2>6, GotTyped DEF SendChat, SendRefused, TypeOK
    <3>2. ChatDone(w, u)
      BY <2>6 DEF SendChat, SendRefused
    <3> QED
      BY <2>6, <3>1, <3>2, ChatDoneTyped DEF SendChat, SendRefused, WorkerFrame, TypeOK
  <2>8. ASSUME NEW u \in Users, AnswerLost(w, u) PROVE TypeOK'
    <3>1. got' \in [Users -> [Kinds -> Nat]] /\ unheard' \in [Users -> [Kinds -> Nat]]
      BY <2>8, GotTyped DEF AnswerLost
    <3> QED
      BY <2>8, <3>1 DEF AnswerLost, WorkerFrame, TypeOK
  <2>7. CASE SendCancelled(w)
    <3>1. got' \in [Users -> [Kinds -> Nat]]
      <4>1. job[w].chats \subseteq Users
        BY DEF TypeOK, Job
      <4> QED
        BY <2>7, <4>1, GotTyped DEF SendCancelled, TypeOK
    <3>2. JobDone(w) /\ lock' = None
      BY <2>7 DEF SendCancelled
    <3> QED
      BY <2>7, <3>1, <3>2, JobDoneTyped DEF SendCancelled, WorkerFrame, TypeOK
  <2> QED
    BY <1>8, <2>1, <2>2, <2>3, <2>4, <2>5, <2>6, <2>7, <2>8 DEF WorkerStep
<1>9. CASE SetTelegramSender \/ TelegramDown \/ TelegramUp \/ StopRun \/ CloseRouter \/ RouterClosed
  <2>1. sender' \in BOOLEAN /\ online' \in BOOLEAN /\ closed' \in BOOLEAN /\ invalidated' \in BOOLEAN
    BY <1>9, Zenon DEF SetTelegramSender, TelegramDown, TelegramUp, StopRun, CloseRouter, RouterClosed,
                       WorldFrame, TypeOK
  <2> QED
    BY <1>9, <2>1 DEF SetTelegramSender, TelegramDown, TelegramUp, StopRun, CloseRouter, RouterClosed,
                      WorldFrame, TypeOK
<1>10. CASE UNCHANGED vars
  BY <1>10 DEF vars, TypeOK
<1> QED
  BY <1>1, <1>2, <1>3, <1>4, <1>5, <1>6, <1>7, <1>8, <1>9, <1>10
     DEF Next, Commit, TrackerCalls

\* Every reachable state is type correct; in particular the thresholds a chat
\* was told of never exceed the peak's bound, and lifecycleMu has one holder.
THEOREM TypeCorrect == Spec => []TypeOK
  BY InitTyped, TypeStep, PTL DEF Spec

-----------------------------------------------------------------------------
(* A worker raises no count. *)

\* Without a delivery a count can only fall: jobs lose chats, or go.
LEMMA QuietCount ==
    ASSUME TypeOK, NEW kind \in Kinds, NEW u \in Users,
           got' = got, unheard' = unheard, pending' = pending,
           Holders(kind, u)' \subseteq Holders(kind, u)
    PROVE  Count(kind, u)' <= Count(kind, u)
<1>1. Cardinality(Holders(kind, u)') <= Cardinality(Holders(kind, u))
  BY HoldersFinite, FS_Subset
<1>2. Heard(kind, u) \in Int /\ Cardinality(Holders(kind, u)) \in Nat /\ Cardinality(Holders(kind, u)') \in Nat
  BY HoldersFinite, CountType
<1>3. Count(kind, u)' = Heard(kind, u) + (IF u \in pending[kind] THEN 1 ELSE 0) + Cardinality(Holders(kind, u)')
  BY DEF Count, Heard
<1> QED
  BY <1>1, <1>2, <1>3 DEF Count

\* A delivery moves a chat from the worker's job to the delivered ones.
LEMMA DeliveryCount ==
    ASSUME TypeOK, NEW w \in Workers, NEW x \in job[w].chats, x \in Users,
           NEW kind \in Kinds, NEW u \in Users,
           got' = [got EXCEPT ![x][job[w].kind] = @ + 1], unheard' = unheard, pending' = pending,
           Holders(kind, u)' \subseteq Holders(kind, u),
           \A k \in Kinds : w \notin Holders(k, x)'
    PROVE  Count(kind, u)' <= Count(kind, u)
<1>1. /\ got[u][kind] \in Nat /\ unheard[u][kind] \in Nat /\ job[w].kind \in Kinds
      /\ Cardinality(Holders(kind, u)) \in Nat /\ Cardinality(Holders(kind, u)') \in Nat
  BY HoldersFinite, JobFields DEF TypeOK
<1>2. Count(kind, u)' = (got'[u][kind] - unheard[u][kind]) + (IF u \in pending[kind] THEN 1 ELSE 0)
                           + Cardinality(Holders(kind, u)')
  BY DEF Count, Heard
<1>3. CASE u = x /\ kind = job[w].kind
  <2>1. got'[u][kind] = got[u][kind] + 1
    BY <1>1, <1>3 DEF TypeOK
  <2>2. w \in Holders(kind, u)
    BY <1>3 DEF Holders
  <2>3. Holders(kind, u)' \subseteq Holders(kind, u) \ {w}
    BY <1>3
  <2>4. Cardinality(Holders(kind, u)') + 1 <= Cardinality(Holders(kind, u))
    BY <2>2, <2>3, HoldersChange
  <2> QED
    BY <1>1, <1>2, <2>1, <2>4 DEF Count, Heard
<1>4. CASE ~(u = x /\ kind = job[w].kind)
  <2>1. got'[u][kind] = got[u][kind]
    BY <1>1, <1>4 DEF TypeOK
  <2>2. Cardinality(Holders(kind, u)') <= Cardinality(Holders(kind, u))
    BY HoldersChange
  <2> QED
    BY <1>1, <1>2, <2>1, <2>2 DEF Count, Heard
<1> QED
  BY <1>3, <1>4

\* JobDone takes the worker from all its chats.
LEMMA JobDoneHolders ==
    ASSUME TypeOK, NEW w \in Workers, JobDone(w), NEW kind, NEW u
    PROVE  Holders(kind, u)' = Holders(kind, u) \ {w}
<1>1. \A v \in Workers : job'[v] = IF v = w THEN NoJob ELSE job[v]
  BY DEF TypeOK, JobDone
<1>2. NoJob.chats = {}
  BY DEF NoJob
<1> QED
  BY <1>1, <1>2 DEF Holders

\* Jobs that keep their kinds and lose chats have fewer holders.
LEMMA ShrinkHolders ==
    ASSUME TypeOK, NEW w \in Workers, NEW c \in SUBSET Users,
           job' = [job EXCEPT ![w] = [job[w] EXCEPT !.chats = job[w].chats \cap c]],
           NEW kind, NEW u
    PROVE  /\ Holders(kind, u)' \subseteq Holders(kind, u)
           /\ u \notin c => w \notin Holders(kind, u)'
<1>1. job[w] \in Job /\ job[w].chats \cap c \in SUBSET Users
  BY DEF TypeOK
<1>2. /\ \A v \in Workers : v # w => job'[v] = job[v]
      /\ job'[w].kind = job[w].kind /\ job'[w].chats = job[w].chats \cap c
  BY <1>1, JobFields DEF TypeOK
<1> QED
  BY <1>2 DEF Holders

\* The chat that was served leaves the job, whether it was the last or not.
LEMMA ChatDoneHolders ==
    ASSUME TypeOK, NEW w \in Workers, NEW x \in Users, ChatDone(w, x)
    PROVE  \A kind, u :
              /\ Holders(kind, u)' \subseteq Holders(kind, u)
              /\ w \notin Holders(kind, x)'
<1> SUFFICES ASSUME NEW kind, NEW u
             PROVE  /\ Holders(kind, u)' \subseteq Holders(kind, u)
                    /\ w \notin Holders(kind, x)'
  OBVIOUS
<1>1. CASE job[w].chats = {x}
  <2>1. JobDone(w)
    BY <1>1 DEF ChatDone
  <2> QED
    BY <2>1, JobDoneHolders
<1>2. CASE job[w].chats # {x}
  <2>1. job[w].chats \in SUBSET Users
    BY JobFields DEF TypeOK
  <2>2. job[w].chats \ {x} = job[w].chats \cap (Users \ {x})
    BY <2>1
  <2>3. job' = [job EXCEPT ![w] = [job[w] EXCEPT !.chats = job[w].chats \cap (Users \ {x})]]
    BY <1>2, <2>2 DEF ChatDone
  <2>4. Users \ {x} \in SUBSET Users /\ x \notin Users \ {x}
    OBVIOUS
  <2>5. Holders(kind, u)' \subseteq Holders(kind, u)
    BY <2>3, <2>4, ShrinkHolders, Zenon
  <2>6. w \notin Holders(kind, x)'
    BY <2>3, <2>4, ShrinkHolders, Zenon
  <2> QED
    BY <2>5, <2>6
<1> QED
  BY <1>1, <1>2

\* takePending moves a chat from the pending job to the worker's.
LEMMA TakeCount ==
    ASSUME TypeOK, NEW w \in Workers, TakePending(w), NEW kind \in Kinds, NEW u \in Users
    PROVE  Count(kind, u)' <= Count(kind, u)
<1>1. got' = got /\ unheard' = unheard
  BY DEF TakePending
<1>2. CASE \A k \in Kinds : pending[k] = {}
  <2>1. pending' = pending /\ job' = job
    BY <1>2 DEF TakePending
  <2>2. Holders(kind, u)' = Holders(kind, u)
    BY <2>1 DEF Holders
  <2> QED
    BY <1>1, <2>1, <2>2, QuietCount
<1>3. CASE ~ \A k \in Kinds : pending[k] = {}
  <2>1. PICK k \in Kinds :
          /\ job' = [job EXCEPT ![w] = [kind |-> k, chats |-> pending[k]]]
          /\ pending' = [pending EXCEPT ![k] = {}]
    BY <1>3 DEF TakePending
  <2>2. /\ \A v \in Workers : v # w => job'[v] = job[v]
        /\ job'[w].kind = k /\ job'[w].chats = pending[k]
        /\ pending'[k] = {} /\ \A j \in Kinds : j # k => pending'[j] = pending[j]
    BY <2>1 DEF TypeOK
  <2>3. /\ Heard(kind, u) \in Int
        /\ Cardinality(Holders(kind, u)) \in Nat /\ Cardinality(Holders(kind, u)') \in Nat
    BY HoldersFinite, CountType
  <2>4. Count(kind, u)' = Heard(kind, u) + (IF u \in pending'[kind] THEN 1 ELSE 0) + Cardinality(Holders(kind, u)')
    BY <1>1 DEF Count, Heard
  <2>5. CASE kind = k /\ u \in pending[k]
    <3>1. Holders(kind, u)' \subseteq Holders(kind, u) \cup {w}
      BY <2>2 DEF Holders
    <3>2. Cardinality(Holders(kind, u)') <= Cardinality(Holders(kind, u)) + 1
      BY <3>1, HoldersChange
    <3>3. u \in pending[kind] /\ u \notin pending'[kind]
      BY <2>2, <2>5
    <3> QED
      BY <2>3, <2>4, <3>2, <3>3 DEF Count
  <2>6. CASE ~(kind = k /\ u \in pending[k])
    <3>1. Holders(kind, u)' \subseteq Holders(kind, u)
      BY <2>2, <2>6 DEF Holders
    <3>2. Cardinality(Holders(kind, u)') <= Cardinality(Holders(kind, u))
      BY <3>1, HoldersChange
    <3>3. u \in pending'[kind] <=> u \in pending[kind]
      BY <2>2, <2>6
    <3> QED
      BY <2>3, <2>4, <3>2, <3>3 DEF Count
  <2> QED
    BY <2>5, <2>6
<1> QED
  BY <1>2, <1>3

\* No step of a worker raises the count of a chat: taking, checking,
\* revalidating, sending, giving up and a message that was accepted although its
\* call was cancelled included.
LEMMA WorkerCount ==
    ASSUME TypeOK, NEW w \in Workers, WorkerStep(w), NEW kind \in Kinds, NEW u \in Users
    PROVE  Count(kind, u)' <= Count(kind, u)
<1>1. CASE WakeUp(w) \/ WorkerExits(w)
  <2>1. got' = got /\ unheard' = unheard /\ pending' = pending /\ job' = job
    BY <1>1 DEF WakeUp, WorkerExits
  <2>2. Holders(kind, u)' = Holders(kind, u)
    BY <2>1 DEF Holders
  <2> QED
    BY <2>1, <2>2, QuietCount
<1>2. CASE TakePending(w)
  BY <1>2, TakeCount
<1>3. CASE CheckJob(w) \/ Transport(w) \/ NoTransport(w)
  <2>1. got' = got /\ unheard' = unheard /\ pending' = pending /\ (job' = job \/ JobDone(w))
    BY <1>3 DEF CheckJob, Transport, NoTransport
  <2>2. Holders(kind, u)' \subseteq Holders(kind, u)
    <3>1. CASE job' = job
      BY <3>1 DEF Holders
    <3>2. CASE JobDone(w)
      BY <3>2, JobDoneHolders
    <3> QED
      BY <2>1, <3>1, <3>2
  <2> QED
    BY <2>1, <2>2, QuietCount
<1>4. ASSUME NEW fit \in SUBSET Users, Revalidate(w, fit) PROVE Count(kind, u)' <= Count(kind, u)
  <2>1. got' = got /\ unheard' = unheard /\ pending' = pending
    BY <1>4 DEF Revalidate
  <2>2. Holders(kind, u)' \subseteq Holders(kind, u)
    <3>1. CASE job[w].chats \cap fit = {}
      BY <1>4, <3>1, JobDoneHolders DEF Revalidate
    <3>2. CASE job[w].chats \cap fit # {}
      <4>1. job' = [job EXCEPT ![w] = [job[w] EXCEPT !.chats = job[w].chats \cap fit]]
        BY <1>4, <3>2 DEF Revalidate
      <4> QED
        BY <4>1, ShrinkHolders
    <3> QED
      BY <3>1, <3>2
  <2> QED
    BY <2>1, <2>2, QuietCount
<1>5. ASSUME NEW x \in Users, SendChat(w, x) PROVE Count(kind, u)' <= Count(kind, u)
  <2>1. /\ x \in job[w].chats /\ pending' = pending /\ unheard' = unheard
        /\ got' = [got EXCEPT ![x][job[w].kind] = @ + 1] /\ ChatDone(w, x)
    BY <1>5 DEF SendChat
  <2>2. Holders(kind, u)' \subseteq Holders(kind, u) /\ \A k \in Kinds : w \notin Holders(k, x)'
    BY <2>1, ChatDoneHolders
  <2> QED
    BY <2>1, <2>2, DeliveryCount
<1>6. ASSUME NEW x \in Users, SendRefused(w, x) PROVE Count(kind, u)' <= Count(kind, u)
  <2>1. pending' = pending /\ got' = got /\ unheard' = unheard /\ ChatDone(w, x)
    BY <1>6 DEF SendRefused
  <2>2. Holders(kind, u)' \subseteq Holders(kind, u)
    BY <2>1, ChatDoneHolders
  <2> QED
    BY <2>1, <2>2, QuietCount
<1>7. CASE SendCancelled(w)
  <2>1. pending' = pending /\ unheard' = unheard /\ JobDone(w)
    BY <1>7 DEF SendCancelled
  <2>2. \A k, x : Holders(k, x)' = Holders(k, x) \ {w}
    BY <2>1, JobDoneHolders
  <2>3. CASE UNCHANGED got
    BY <2>1, <2>2, <2>3, QuietCount
  <2>4. ASSUME NEW x \in job[w].chats, got' = [got EXCEPT ![x][job[w].kind] = @ + 1]
        PROVE  Count(kind, u)' <= Count(kind, u)
    <3>1. x \in Users
      BY JobFields DEF TypeOK
    <3>2. Holders(kind, u)' \subseteq Holders(kind, u) /\ \A k \in Kinds : w \notin Holders(k, x)'
      BY <2>2
    <3> QED
      BY <2>1, <2>4, <3>1, <3>2, DeliveryCount
  <2> QED
    BY <1>7, <2>3, <2>4 DEF SendCancelled
<1>8. ASSUME NEW x \in Users, AnswerLost(w, x) PROVE Count(kind, u)' <= Count(kind, u)
  <2>1. /\ pending' = pending /\ job' = job
        /\ got' = [got EXCEPT ![x][job[w].kind] = @ + 1]
        /\ unheard' = [unheard EXCEPT ![x][job[w].kind] = @ + 1]
    BY <1>8 DEF AnswerLost
  <2>2. Heard(kind, u)' = Heard(kind, u)
    BY <2>1 DEF Heard, TypeOK
  <2>3. Count(kind, u)' = Count(kind, u)
    BY <2>1, <2>2 DEF Count, Holders
  <2> QED
    BY <2>3, CountType
<1> QED
  BY <1>1, <1>2, <1>3, <1>4, <1>5, <1>6, <1>7, <1>8 DEF WorkerStep

-----------------------------------------------------------------------------
(* The tracker's calls. *)

\* Steps that touch neither jobs nor deliveries keep the counts.
LEMMA SameCount ==
    ASSUME UNCHANGED <<pending, job, chatVars>>
    PROVE  \A kind \in Kinds, u \in Users : Count(kind, u)' = Count(kind, u)
  BY DEF Count, Heard, Holders

\* enqueue raises only the counts of its kind and its chats, by at most one:
\* the job it replaces is gone.
LEMMA EnqueueCount ==
    ASSUME TypeOK, NEW kind \in Kinds, NEW chats \in SUBSET Users, Enqueue(kind, chats),
           UNCHANGED <<job, chatVars>>, NEW k \in Kinds, NEW u \in Users
    PROVE  Count(k, u)' <= IF k = kind /\ u \in chats THEN Count(k, u) + 1 ELSE Count(k, u)
<1>1. Count(k, u)' = Heard(k, u) + (IF u \in pending'[k] THEN 1 ELSE 0) + Cardinality(Holders(k, u))
  BY DEF Count, Heard, Holders
<1>2. Heard(k, u) \in Int /\ Cardinality(Holders(k, u)) \in Nat
  BY HoldersFinite, CountType
<1>3. u \in pending'[k] => u \in pending[k] \/ (k = kind /\ u \in chats)
  BY DEF Enqueue, TypeOK
<1> QED
  BY <1>1, <1>2, <1>3 DEF Count

-----------------------------------------------------------------------------
(* The invariant is inductive. *)

\* The invariant holds initially: nothing is enqueued, held or delivered.
LEMMA InitInv == Init => IInv
<1> SUFFICES ASSUME Init PROVE IInv
  OBVIOUS
<1>1. TypeOK
  BY InitTyped
<1>2. TrackerInv /\ LockInv
  BY DEF Init, TrackerInv, LockInv
<1>3. ASSUME NEW u \in Users, NEW kind \in Kinds PROVE Count(kind, u) = 0
  <2>1. Holders(kind, u) = {}
    BY DEF Holders, Init, NoJob
  <2>2. Heard(kind, u) = 0 /\ u \notin pending[kind]
    BY DEF Init, Heard
  <2> QED
    BY <2>1, <2>2, FS_EmptySet DEF Count
<1>4. CountInv
  <2> SUFFICES ASSUME NEW u \in Users
               PROVE  /\ Count("open", u) <= 0 /\ Count("close", u) <= 0
                      /\ Count("update", u) <= Level(u, peak)
                      /\ Count("update", u) <= Level(u, lastUpdate[u])
    BY DEF CountInv, Init, NotClosedYet
  <2>1. Level(u, peak) >= 0 /\ Level(u, lastUpdate[u]) >= 0
    BY Levels DEF Init
  <2> QED
    BY <1>3, <2>1 DEF Kinds, Init
<1>5. HeardInv
  BY DEF HeardInv, Init, Kinds
<1> QED
  BY <1>1, <1>2, <1>4, <1>5 DEF IInv

\* Every step of a worker keeps the invariant: it raises no count, and it enters
\* the transport call only with the lock and, after the invalidation, a CLOSE.
LEMMA WorkerInv ==
    ASSUME IInv, TypeOK', NEW w \in Workers, WorkerStep(w)
    PROVE  IInv'
<1>1. UNCHANGED <<trackerVars, lastUpdate, invalidated>>
  BY DEF WorkerStep, WakeUp, TakePending, CheckJob, Revalidate, Transport, NoTransport, SendChat,
         AnswerLost, SendRefused, SendCancelled, WorkerExits, WorkerFrame
<1>2. TrackerInv'
  BY <1>1 DEF IInv, TrackerInv
<1>3. CountInv'
  <2> SUFFICES ASSUME NEW u \in Users
               PROVE  /\ Count("open", u)' <= IF signal = "none" \/ tpc = "open" THEN 0 ELSE 1
                      /\ Count("close", u)' <= IF NotClosedYet THEN 0 ELSE 1
                      /\ Count("update", u)' <= Level(u, peak)
                      /\ signal # "closed" => Count("update", u)' <= Level(u, lastUpdate[u])
    BY <1>1 DEF CountInv, NotClosedYet, Level
  <2>1. \A kind \in Kinds : Count(kind, u)' \in Int /\ Count(kind, u) \in Int /\ Count(kind, u)' <= Count(kind, u)
    BY CountTypeNext, CountType, WorkerCount DEF IInv
  <2>2. peak \in Nat /\ lastUpdate[u] \in Nat
    BY DEF IInv, TypeOK
  <2>3. Level(u, peak) \in Nat /\ Level(u, lastUpdate[u]) \in Nat
    BY <2>2, Levels
  <2> QED
    BY <2>1, <2>3 DEF IInv, CountInv, Kinds
<1>4. LockInv'
  <2>1. CASE WakeUp(w) \/ TakePending(w) \/ WorkerExits(w)
    <3>1. /\ lock' = lock /\ invalidated' = invalidated /\ wpc'[w] # "send"
          /\ \A v \in Workers : v # w => wpc'[v] = wpc[v] /\ job'[v] = job[v]
      BY <1>1, <2>1 DEF IInv, TypeOK, WakeUp, TakePending, WorkerExits
    <3> QED
      BY <3>1 DEF IInv, LockInv
  <2>2. CASE CheckJob(w) \/ NoTransport(w) \/ \E fit \in SUBSET Users : Revalidate(w, fit)
    <3>1. /\ lock' = lock /\ invalidated' = invalidated /\ wpc'[w] # "send"
          /\ \A v \in Workers : v # w => wpc'[v] = wpc[v] /\ job'[v] = job[v]
      BY <1>1, <2>2 DEF IInv, TypeOK, CheckJob, NoTransport, Revalidate, JobDone
    <3> QED
      BY <3>1 DEF IInv, LockInv
  <2>3. CASE Transport(w)
    <3>1. \A v \in Workers : wpc[v] # "send"
      BY <2>3, RouterAssumption DEF RouterAssumption, Transport, IInv, LockInv
    <3> QED
      BY <1>1, <2>3, <3>1 DEF Transport, JobDone, IInv, LockInv, TypeOK
  <2>4. CASE SendCancelled(w) \/ \E u \in Users : SendChat(w, u) \/ SendRefused(w, u)
    <3>1. wpc[w] = "send" /\ lock = w
      BY <2>4 DEF SendCancelled, SendChat, SendRefused, IInv, LockInv
    <3>2. \A v \in Workers : v # w => wpc[v] # "send"
      BY <3>1 DEF IInv, LockInv
    <3>3. CASE JobDone(w)
      BY <3>2, <3>3 DEF JobDone, LockInv, IInv, TypeOK
    <3>4. CASE ~JobDone(w)
      <4>1. PICK u \in Users : job' = [job EXCEPT ![w].chats = @ \ {u}] /\ UNCHANGED <<lock, wpc>>
        BY <2>4, <3>4 DEF SendCancelled, SendChat, SendRefused, ChatDone
      <4>2. job[w] \in Job /\ job[w].chats \ {u} \in SUBSET Users
        BY JobFields DEF IInv, TypeOK
      <4>3. job'[w].kind = job[w].kind /\ \A v \in Workers : v # w => job'[v] = job[v]
        BY <4>1, <4>2, JobFields DEF IInv, TypeOK
      <4> QED
        BY <1>1, <4>1, <4>3 DEF IInv, LockInv
    <3> QED
      BY <3>3, <3>4
  <2>5. CASE \E u \in Users : AnswerLost(w, u)
    BY <1>1, <2>5 DEF AnswerLost, IInv, LockInv
  <2> QED
    BY <2>1, <2>2, <2>3, <2>4, <2>5 DEF WorkerStep
<1>5. HeardInv'
  <2> SUFFICES ASSUME NEW u \in Users
               PROVE  /\ \A kind \in Kinds : unheard'[u][kind] <= got'[u][kind]
                      /\ got'[u]["close"] > 0 => ~NotClosedYet
    BY <1>1 DEF HeardInv, NotClosedYet
  <2>1. \A kind \in Kinds : got[u][kind] \in Nat /\ unheard[u][kind] \in Nat /\ unheard[u][kind] <= got[u][kind]
    BY DEF IInv, TypeOK, HeardInv
  <2>2. got[u]["close"] > 0 => ~NotClosedYet
    BY DEF IInv, HeardInv
  <2>3. CASE UNCHANGED chatVars
    BY <2>1, <2>2, <2>3
  <2>4. ASSUME NEW x \in job[w].chats, got' = [got EXCEPT ![x][job[w].kind] = @ + 1],
               \/ unheard' = unheard
               \/ unheard' = [unheard EXCEPT ![x][job[w].kind] = @ + 1]
        PROVE  /\ \A kind \in Kinds : unheard'[u][kind] <= got'[u][kind]
               /\ got'[u]["close"] > 0 => ~NotClosedYet
    <3>1. x \in Users /\ job[w].kind \in Kinds
      BY JobFields DEF IInv, TypeOK
    <3>2. /\ \A kind \in Kinds : unheard'[u][kind] <= got'[u][kind]
          /\ ~(u = x /\ job[w].kind = "close") => got'[u]["close"] = got[u]["close"]
      <4>0. got \in [Users -> [Kinds -> Nat]] /\ unheard \in [Users -> [Kinds -> Nat]]
        BY DEF IInv, TypeOK
      <4>1. \A kind \in Kinds : got'[u][kind] = IF u = x /\ kind = job[w].kind THEN got[u][kind] + 1 ELSE got[u][kind]
        BY <2>4, <3>1, <4>0, OneMore
      <4>2. \A kind \in Kinds : \/ unheard'[u][kind] = unheard[u][kind]
                                \/ u = x /\ kind = job[w].kind /\ unheard'[u][kind] = unheard[u][kind] + 1
        <5>1. CASE unheard' = unheard
          BY <5>1
        <5>2. CASE unheard' = [unheard EXCEPT ![x][job[w].kind] = @ + 1]
          BY <3>1, <4>0, <5>2, OneMore
        <5> QED
          BY <2>4, <5>1, <5>2
      <4>3. \A kind \in Kinds : unheard'[u][kind] <= got'[u][kind]
        BY <2>1, <4>1, <4>2
      <4>4. ~(u = x /\ job[w].kind = "close") => got'[u]["close"] = got[u]["close"]
        BY <4>1 DEF Kinds
      <4> QED
        BY <4>3, <4>4
    <3>3. u = x /\ job[w].kind = "close" => ~NotClosedYet
      <4> SUFFICES ASSUME u = x, job[w].kind = "close" PROVE ~NotClosedYet
        OBVIOUS
      <4>1. w \in Holders("close", u)
        BY <2>4 DEF Holders
      <4>2. Heard("close", u) + 1 <= Count("close", u) /\ Count("close", u) \in Int /\ Heard("close", u) \in Int
        BY <4>1, CountType DEF IInv, Kinds
      <4>3. Heard("close", u) >= 0
        BY <2>1 DEF Heard, Kinds
      <4> QED
        BY <4>2, <4>3 DEF IInv, CountInv
    <3> QED
      BY <2>2, <3>2, <3>3
  <2>5. CASE WakeUp(w) \/ TakePending(w) \/ CheckJob(w) \/ (\E fit \in SUBSET Users : Revalidate(w, fit))
             \/ Transport(w) \/ NoTransport(w) \/ (\E x \in Users : SendRefused(w, x)) \/ WorkerExits(w)
    <3>1. UNCHANGED chatVars
      BY <2>5 DEF WakeUp, TakePending, CheckJob, Revalidate, Transport, NoTransport, SendRefused, WorkerExits
    <3> QED
      BY <2>3, <3>1
  <2>6. CASE SendCancelled(w) \/ \E x \in Users : SendChat(w, x) \/ AnswerLost(w, x)
    <3>1. \/ UNCHANGED chatVars
          \/ \E x \in job[w].chats :
                /\ got' = [got EXCEPT ![x][job[w].kind] = @ + 1]
                /\ \/ unheard' = unheard
                   \/ unheard' = [unheard EXCEPT ![x][job[w].kind] = @ + 1]
      BY <2>6 DEF SendCancelled, SendChat, AnswerLost
    <3> QED
      BY <2>3, <2>4, <3>1
  <2> QED
    BY <2>5, <2>6 DEF WorkerStep
<1> QED
  BY <1>2, <1>3, <1>4, <1>5 DEF IInv

\* An invariant over unchanged jobs, deliveries and locks: what a step of the
\* tracker or of the world has to show for the rest of the invariant.
LEMMA LockFrame ==
    ASSUME LockInv, UNCHANGED <<lock, wpc, job, invalidated>>
    PROVE  LockInv'
  BY DEF LockInv

\* Committing OPEN, UPDATE or CLOSE changes no count; a higher peak raises the
\* bound, and the CLOSE only drops the demand on the last thresholds.
LEMMA CommitInv ==
    ASSUME IInv, TypeOK', Commit
    PROVE  IInv'
<1>1. UNCHANGED <<pending, job, chatVars, lastUpdate, invalidated, lock, wpc>>
  BY DEF Commit, CommitOpen, CommitUpdate, CommitClose, TrackerFrame
<1>2. LockInv'
  BY <1>1, LockFrame DEF IInv
<1>3. TrackerInv'
  BY <1>1 DEF IInv, TrackerInv, TypeOK, Commit, CommitOpen, CommitUpdate, CommitClose
<1>4. peak \in Nat /\ peak' \in Nat /\ peak <= peak'
  BY RouterAssumption DEF RouterAssumption, IInv, TypeOK, Commit, CommitOpen, CommitUpdate, CommitClose
<1>5. CountInv'
  <2> SUFFICES ASSUME NEW u \in Users
               PROVE  /\ Count("open", u)' <= IF signal' = "none" \/ tpc' = "open" THEN 0 ELSE 1
                      /\ Count("close", u)' <= IF NotClosedYet' THEN 0 ELSE 1
                      /\ Count("update", u)' <= Level(u, peak)'
                      /\ signal' # "closed" => Count("update", u)' <= Level(u, lastUpdate[u])'
    BY DEF CountInv
  <2>1. \A kind \in Kinds : Count(kind, u)' = Count(kind, u) /\ Count(kind, u) \in Int
    BY <1>1, SameCount, CountType DEF IInv
  <2>2. Level(u, peak) <= Level(u, peak)' /\ Level(u, peak) \in Nat /\ Level(u, peak)' \in Nat
    BY <1>4, Levels DEF Level
  <2>3. Level(u, lastUpdate[u])' = Level(u, lastUpdate[u])
    BY <1>1 DEF Level
  <2>4. /\ signal' # "closed" => signal # "closed"
        /\ (signal' = "none" \/ tpc' = "open") <=> (signal = "none" \/ tpc = "open")
        /\ NotClosedYet /\ NotClosedYet'
    BY DEF Commit, CommitOpen, CommitUpdate, CommitClose, NotClosedYet
  <2>5. /\ Count("open", u) <= IF signal = "none" \/ tpc = "open" THEN 0 ELSE 1
        /\ Count("close", u) <= 0
        /\ Count("update", u) <= Level(u, peak)
        /\ signal # "closed" => Count("update", u) <= Level(u, lastUpdate[u])
    BY <2>4 DEF IInv, CountInv
  <2>6. Count("update", u) <= Level(u, peak)'
    BY <2>1, <2>2, <2>5 DEF Kinds
  <2> QED
    BY <2>1, <2>3, <2>4, <2>5, <2>6 DEF Kinds
<1>6. HeardInv'
  <2>1. NotClosedYet
    BY DEF Commit, CommitOpen, CommitUpdate, CommitClose, NotClosedYet
  <2>2. \A u \in Users : got[u]["close"] \in Nat /\ ~(got[u]["close"] > 0)
    BY <2>1 DEF IInv, HeardInv, TypeOK, Kinds
  <2> QED
    BY <1>1, <2>2 DEF IInv, HeardInv
<1> QED
  BY <1>2, <1>3, <1>5, <1>6 DEF IInv

\* The router's calls: what they enqueue was not enqueued before.
LEMMA RouterCallInv ==
    ASSUME IInv, TypeOK', TrackerCalls
    PROVE  IInv'
<1>1. UNCHANGED <<job, chatVars, lock, wpc, peak, signal>>
  BY DEF TrackerCalls, ProcessOpen, ProcessSignalUpdate, InvalidateSignal, DropPending, ProcessClose,
         ClearSignalUpdates, TrackerFrame
<1>2. TrackerInv'
  BY DEF IInv, TypeOK, TrackerInv, TrackerCalls, ProcessOpen, ProcessSignalUpdate, InvalidateSignal,
         DropPending, ProcessClose, ClearSignalUpdates
<1>3. LockInv'
  <2>1. CASE InvalidateSignal
    <3>1. \A w \in Workers : wpc[w] # "send"
      BY <2>1, RouterAssumption DEF RouterAssumption, InvalidateSignal, IInv, LockInv
    <3> QED
      BY <1>1, <3>1 DEF LockInv
  <2>2. CASE ~InvalidateSignal
    <3>1. invalidated' = invalidated
      BY <2>2 DEF TrackerCalls, ProcessOpen, ProcessSignalUpdate, DropPending, ProcessClose, ClearSignalUpdates
    <3> QED
      BY <1>1, <3>1, LockFrame DEF IInv
  <2> QED
    BY <2>1, <2>2
<1>4. CountInv'
  <2> SUFFICES ASSUME NEW u \in Users
               PROVE  /\ Count("open", u)' <= IF signal = "none" \/ tpc' = "open" THEN 0 ELSE 1
                      /\ Count("close", u)' <= IF NotClosedYet' THEN 0 ELSE 1
                      /\ Count("update", u)' <= Level(u, peak)
                      /\ signal # "closed" => Count("update", u)' <= Level(u, lastUpdate'[u])
    BY <1>1 DEF CountInv, Level
  <2>1. \A kind \in Kinds : Count(kind, u) \in Int
    BY CountType DEF IInv
  <2>2. Level(u, peak) \in Nat /\ Level(u, lastUpdate[u]) \in Nat
    <3>1. peak \in Nat /\ lastUpdate[u] \in Nat
      BY DEF IInv, TypeOK
    <3> QED
      BY <3>1, Levels
  <2>3. /\ Count("open", u) <= IF signal = "none" \/ tpc = "open" THEN 0 ELSE 1
        /\ Count("close", u) <= IF NotClosedYet THEN 0 ELSE 1
        /\ Count("update", u) <= Level(u, peak)
        /\ signal # "closed" => Count("update", u) <= Level(u, lastUpdate[u])
    BY DEF IInv, CountInv
  <2>4. \A kind \in Kinds : Count(kind, u)' \in Int
    BY CountTypeNext
  <2>5. ASSUME NEW fit \in SUBSET Users, ProcessOpen(fit)
        PROVE  /\ Count("open", u)' <= IF signal = "none" \/ tpc' = "open" THEN 0 ELSE 1
               /\ Count("close", u)' <= IF NotClosedYet' THEN 0 ELSE 1
               /\ Count("update", u)' <= Level(u, peak)
               /\ signal # "closed" => Count("update", u)' <= Level(u, lastUpdate'[u])
    <3>1. Enqueue("open", fit) /\ tpc = "open" /\ tpc' = "idle" /\ lastUpdate' = lastUpdate /\ signal = "open"
      BY <2>5 DEF ProcessOpen, IInv, TrackerInv
    <3>2. /\ Count("open", u)' <= Count("open", u) + 1
          /\ Count("close", u)' <= Count("close", u)
          /\ Count("update", u)' <= Count("update", u)
      <4>1. ASSUME NEW kind \in Kinds
            PROVE  Count(kind, u)' <= IF kind = "open" /\ u \in fit THEN Count(kind, u) + 1 ELSE Count(kind, u)
        BY <1>1, <3>1, EnqueueCount DEF IInv, Kinds
      <4> QED
        BY <2>1, <2>4, <4>1 DEF Kinds
    <3> QED
      BY <1>1, <2>1, <2>2, <2>3, <2>4, <3>1, <3>2 DEF NotClosedYet, Kinds
  <2>6. ASSUME NEW fit \in SUBSET Users, ProcessSignalUpdate(fit)
        PROVE  /\ Count("open", u)' <= IF signal = "none" \/ tpc' = "open" THEN 0 ELSE 1
               /\ Count("close", u)' <= IF NotClosedYet' THEN 0 ELSE 1
               /\ Count("update", u)' <= Level(u, peak)
               /\ signal # "closed" => Count("update", u)' <= Level(u, lastUpdate'[u])
    <3>1. /\ Enqueue("update", UpdateTargets(fit)) /\ UpdateTargets(fit) \in SUBSET Users
          /\ tpc = "update" /\ tpc' = "idle" /\ signal = "open"
          /\ lastUpdate'[u] = IF u \in UpdateTargets(fit) THEN Threshold(u) ELSE lastUpdate[u]
      BY <2>6 DEF ProcessSignalUpdate, UpdateTargets, IInv, TrackerInv
    <3>2. /\ Count("open", u)' <= Count("open", u)
          /\ Count("close", u)' <= Count("close", u)
          /\ Count("update", u)' <= IF u \in UpdateTargets(fit) THEN Count("update", u) + 1 ELSE Count("update", u)
      BY <1>1, <3>1, EnqueueCount DEF IInv, Kinds
    <3>3. CASE u \in UpdateTargets(fit)
      <4>1. /\ Level(u, Threshold(u)) = Level(u, peak)
            /\ Level(u, lastUpdate[u]) + 1 <= Level(u, peak)
        BY <3>3, ThresholdLevel DEF UpdateTargets, IInv
      <4> QED
        BY <1>1, <2>1, <2>2, <2>3, <2>4, <3>1, <3>2, <3>3, <4>1 DEF NotClosedYet, Kinds
    <3>4. CASE u \notin UpdateTargets(fit)
      BY <1>1, <2>1, <2>2, <2>3, <2>4, <3>1, <3>2, <3>4 DEF NotClosedYet, Kinds
    <3> QED
      BY <3>3, <3>4
  <2>7. CASE InvalidateSignal \/ ClearSignalUpdates
    <3>1. /\ UNCHANGED <<pending, job, chatVars>> /\ signal = "closed"
          /\ (NotClosedYet' <=> NotClosedYet) /\ tpc' # "open" /\ tpc # "open"
      BY <1>1, <2>7 DEF InvalidateSignal, ClearSignalUpdates, NotClosedYet, IInv, TrackerInv
    <3>2. \A kind \in Kinds : Count(kind, u)' = Count(kind, u)
      BY <3>1, SameCount
    <3> QED
      BY <2>3, <3>1, <3>2 DEF Kinds
  <2>8. CASE DropPending
    <3>1. /\ pending' = [pending EXCEPT !["update"] = {}] /\ signal = "closed"
          /\ NotClosedYet' /\ NotClosedYet /\ tpc' = "close" /\ tpc = "drop"
      BY <1>1, <2>8 DEF DropPending, NotClosedYet, IInv, TrackerInv
    <3>2. ASSUME NEW kind \in Kinds PROVE Count(kind, u)' <= Count(kind, u)
      <4>1. /\ u \in pending'[kind] => u \in pending[kind]
            /\ Heard(kind, u) \in Int /\ Cardinality(Holders(kind, u)) \in Nat
        BY <3>1, HoldersFinite, CountType DEF IInv, TypeOK
      <4>2. Count(kind, u)' = Heard(kind, u) + (IF u \in pending'[kind] THEN 1 ELSE 0)
                               + Cardinality(Holders(kind, u))
        BY <1>1 DEF Count, Heard, Holders
      <4> QED
        BY <4>1, <4>2 DEF Count
    <3> QED
      BY <2>1, <2>2, <2>3, <2>4, <3>1, <3>2 DEF Kinds
  <2>9. CASE ProcessClose
    <3>1. /\ Enqueue("close", notified) /\ notified \in SUBSET Users
          /\ NotClosedYet /\ ~NotClosedYet' /\ signal = "closed" /\ tpc = "close" /\ tpc' = "clear"
      BY <1>1, <2>9 DEF ProcessClose, NotClosedYet, IInv, TypeOK, TrackerInv
    <3>2. /\ Count("open", u)' <= Count("open", u)
          /\ Count("close", u)' <= Count("close", u) + 1
          /\ Count("update", u)' <= Count("update", u)
      <4>1. ASSUME NEW kind \in Kinds
            PROVE  Count(kind, u)' <= IF kind = "close" /\ u \in notified THEN Count(kind, u) + 1 ELSE Count(kind, u)
        BY <1>1, <3>1, EnqueueCount DEF IInv, Kinds
      <4> QED
        BY <2>1, <2>4, <4>1 DEF Kinds
    <3> QED
      BY <2>1, <2>2, <2>3, <2>4, <3>1, <3>2 DEF Kinds
  <2> QED
    BY <2>5, <2>6, <2>7, <2>8, <2>9 DEF TrackerCalls
<1>5. HeardInv'
  <2>1. NotClosedYet' => NotClosedYet
    BY <1>1 DEF NotClosedYet, IInv, TypeOK, TrackerInv, TrackerCalls, ProcessOpen, ProcessSignalUpdate,
                InvalidateSignal, DropPending, ProcessClose, ClearSignalUpdates
  <2> QED
    BY <1>1, <2>1 DEF IInv, HeardInv
<1> QED
  BY <1>2, <1>3, <1>4, <1>5 DEF IInv

\* Steps of Telegram and of Run leave the signal's part alone.
LEMMA WorldInv ==
    ASSUME IInv, TypeOK', UNCHANGED <<trackerVars, queueVars, invalidated, workerVars, chatVars>>
    PROVE  IInv'
<1>1. TrackerInv' /\ LockInv' /\ HeardInv'
  BY DEF IInv, TrackerInv, LockInv, HeardInv, NotClosedYet
<1>2. CountInv'
  <2>1. \A kind \in Kinds, u \in Users : Count(kind, u)' = Count(kind, u)
    BY SameCount
  <2> QED
    BY <2>1 DEF IInv, CountInv, NotClosedYet, Level, Kinds
<1> QED
  BY <1>1, <1>2 DEF IInv

\* The invariant holds in every reachable state.
THEOREM Inductive == Spec => []IInv
<1>1. IInv /\ [Next]_vars => IInv'
  <2> SUFFICES ASSUME IInv, [Next]_vars PROVE IInv'
    OBVIOUS
  <2>1. TypeOK'
    BY TypeStep DEF IInv
  <2>2. CASE SetTelegramSender \/ TelegramDown \/ TelegramUp \/ StopRun \/ CloseRouter \/ RouterClosed
    BY <2>1, <2>2, WorldInv DEF SetTelegramSender, TelegramDown, TelegramUp, StopRun, CloseRouter,
                                RouterClosed, WorldFrame
  <2>3. CASE UNCHANGED vars
    BY <2>1, <2>3, WorldInv DEF vars
  <2> QED
    BY <2>1, <2>2, <2>3, CommitInv, RouterCallInv, WorkerInv DEF Next
<1> QED
  BY <1>1, InitInv, PTL DEF Spec

-----------------------------------------------------------------------------
(* The results. *)

\* A chat is told once of a threshold, of the OPEN and of the CLOSE, and again only
\* for a lost answer, however many workers run and whatever Telegram and the
\* eligibility of the chats do.
THEOREM NeverQueuedTwice == Spec => []OnlyLostAnswersRepeat
<1>1. IInv => OnlyLostAnswersRepeat
  <2> SUFFICES ASSUME IInv, NEW u \in Users
               PROVE  /\ \A kind \in {"open", "close"} : got[u][kind] <= 1 + unheard[u][kind]
                      /\ got[u]["update"] <= Level(u, peak) + unheard[u]["update"]
    BY DEF OnlyLostAnswersRepeat, Level
  <2>1. \A kind \in Kinds :
          /\ Count(kind, u) \in Int /\ got[u][kind] \in Nat /\ unheard[u][kind] \in Nat
          /\ got[u][kind] - unheard[u][kind] <= Count(kind, u)
    BY CountType DEF IInv, TypeOK, Heard
  <2>2. Level(u, peak) \in Nat
    BY Levels DEF IInv, TypeOK
  <2>3. Count("open", u) <= 1 /\ Count("close", u) <= 1 /\ Count("update", u) <= Level(u, peak)
    BY <2>1 DEF IInv, CountInv, Kinds
  <2> QED
    BY <2>1, <2>2, <2>3 DEF Kinds
<1> QED
  BY <1>1, Inductive, PTL

\* Once a chat has the CLOSE of a signal it gets neither the OPEN nor the UPDATE that
\* other workers hold, nor a repetition of one: sendJob looks at invalidated under
\* lifecycleMu and keeps it until the transport is done.
THEOREM CloseComesLast == Spec => CloseIsLast
<1>1. ASSUME IInv, [Next]_vars, NEW u \in Users, got[u]["close"] > 0, NEW kind \in {"open", "update"}
      PROVE  got'[u][kind] = got[u][kind]
  <2>1. invalidated
    BY <1>1 DEF IInv, HeardInv, TrackerInv, NotClosedYet, TypeOK
  <2>2. ASSUME NEW w \in Workers, wpc[w] = "send" PROVE job[w].kind = "close"
    BY <1>1, <2>1, <2>2 DEF IInv, LockInv
  <2>3. ASSUME NEW w \in Workers, NEW x \in job[w].chats, wpc[w] = "send",
               got' = [got EXCEPT ![x][job[w].kind] = @ + 1]
        PROVE  got'[u][kind] = got[u][kind]
    BY <1>1, <2>2, <2>3 DEF IInv, TypeOK, Kinds
  <2>4. ASSUME NEW w \in Workers, WorkerStep(w) PROVE got'[u][kind] = got[u][kind]
    BY <2>3, <2>4 DEF WorkerStep, WakeUp, TakePending, CheckJob, Revalidate, Transport, NoTransport,
                      SendChat, AnswerLost, SendRefused, SendCancelled, WorkerExits
  <2>5. CASE Commit \/ TrackerCalls
    BY <2>5 DEF Commit, CommitOpen, CommitClose, CommitUpdate, TrackerCalls, ProcessOpen,
                ProcessSignalUpdate, InvalidateSignal, DropPending, ProcessClose, ClearSignalUpdates,
                TrackerFrame
  <2>6. CASE SetTelegramSender \/ TelegramDown \/ TelegramUp \/ StopRun \/ CloseRouter \/ RouterClosed
    BY <2>6 DEF SetTelegramSender, TelegramDown, TelegramUp, StopRun, CloseRouter, RouterClosed, WorldFrame
  <2>7. CASE UNCHANGED vars
    BY <2>7 DEF vars
  <2> QED
    BY <1>1, <2>4, <2>5, <2>6, <2>7 DEF Next
<1>2. IInv /\ [Next]_vars => [\A u \in Users : got[u]["close"] > 0 =>
                                \A kind \in {"open", "update"} : got'[u][kind] = got[u][kind]]_vars
  BY <1>1
<1> QED
  BY <1>2, Inductive, PTL DEF Spec, CloseIsLast
=============================================================================
