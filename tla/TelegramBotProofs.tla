-------------------------- MODULE TelegramBotProofs --------------------------
(* Proofs about TelegramBot, for any bots, chats, routes, calls and queue     *)
(* capacities.                                                                *)
EXTENDS TelegramBot, TLAPS

USE DEF callOnly, senderOnly, cmdOnly

-----------------------------------------------------------------------------
(* The inductive invariant. *)

SomeChat == CHOOSE c \in Chats : TRUE

CallRec == [pc : {"idle", "next", "check", "enqueue", "await", "returned"},
            to : SUBSET Chats, todo : SUBSET Chats, bot : Bots, chat : Chats \cup {SomeChat},
            err : BOOLEAN]
SenderRec == [pc : {"idle", "select", "interval", "send", "retry", "ended"}, req : Requests \cup {<<>>}]

\* Type correctness of the reliable path.
Typed ==
    /\ call \in [Calls -> CallRec]
    /\ result \in [Requests -> {"none", "ok", "err"}]
    /\ delivered \in [Requests -> 0..2] /\ unheard \subseteq Requests
    /\ relQ \in [Bots -> Seq(Requests)]
    /\ sender \in [Bots -> SenderRec]
    /\ cancelled \in BOOLEAN /\ closed \subseteq Bots

\* Request r waits in bot b's reliable queue, or is with its send worker.
Queued(b, r) == \E i \in 1..Len(relQ[b]) : relQ[b][i] = r
Pending(b, r) == Queued(b, r) \/ sender[b].req = r

\* The pool is closed after the router.
CloseInv == closed # {} => cancelled

\* A call is at a chat that it has still to do, with that chat's bot.
CallInv ==
    \A k \in Calls :
        /\ call[k].pc \in {"check", "enqueue", "await"} =>
            call[k].chat \in call[k].todo /\ call[k].bot = BotFor(call[k].chat)
        /\ call[k].pc = "returned" => call[k].todo = {}

\* The call has not enqueued this request.
NotYet(k, c) ==
    \/ call[k].pc = "idle"
    \/ c \in call[k].todo /\ ~(call[k].pc = "await" /\ call[k].chat = c)

\* What was not enqueued is nowhere and was never accepted.
FreshInv ==
    \A k \in Calls, c \in Chats : NotYet(k, c) =>
        delivered[<<k, c>>] = 0 /\ \A b \in Bots : ~Pending(b, <<k, c>>)

\* A request is pending with its chat's bot, in one place.
PlaceInv ==
    \A b \in Bots :
        /\ \A k \in Calls, c \in Chats : Pending(b, <<k, c>>) => b = BotFor(c)
        /\ \A i, j \in 1..Len(relQ[b]) : relQ[b][i] = relQ[b][j] => i = j
        /\ \A r \in Requests : sender[b].req = r => ~Queued(b, r)

\* A pending request that was accepted is one whose acceptance was not heard of,
\* and so is one that was accepted twice.
HeardInv ==
    \A r \in Requests :
        /\ \A b \in Bots : Pending(b, r) /\ delivered[r] > 0 => r \in unheard
        /\ delivered[r] = 2 => r \in unheard

\* Success is reported of what was accepted, and a call without an error has it
\* of every chat it has done.
ReportInv ==
    /\ \A r \in Requests : result[r] = "ok" => delivered[r] > 0
    /\ \A k \in Calls : ~call[k].err =>
        \A c \in call[k].to \ call[k].todo : delivered[<<k, c>>] > 0

IInv == Typed /\ CloseInv /\ CallInv /\ FreshInv /\ PlaceInv /\ HeardInv /\ ReportInv

-----------------------------------------------------------------------------
(* Records and requests. *)

\* A request is never the mark of a best-effort message.
LEMMA RequestIsReliable == <<>> \notin Requests
  BY DEF Requests

\* The values a call and a send worker start with.
LEMMA Values ==
    /\ NoCall \in CallRec /\ NoCall.pc = "idle" /\ NoCall.to = {} /\ NoCall.todo = {} /\ NoCall.err = FALSE
    /\ Resting \in SenderRec /\ Resting.pc = "idle" /\ Resting.req = <<>>
<1>1. NoCall = [pc |-> "idle", to |-> {}, todo |-> {}, bot |-> FirstBot, chat |-> SomeChat, err |-> FALSE]
  BY DEF NoCall, SomeChat
<1> QED
  BY <1>1, BotAssumption DEF BotAssumption, CallRec, SenderRec, Resting

\* The fields of a call and of a send worker.
LEMMA Fields ==
    ASSUME Typed
    PROVE  /\ \A k \in Calls : /\ call[k] \in CallRec /\ call[k].todo \subseteq Chats /\ call[k].to \subseteq Chats
                               /\ call[k].bot \in Bots /\ call[k].err \in BOOLEAN
           /\ \A b \in Bots : sender[b] \in SenderRec /\ sender[b].req \in Requests \cup {<<>>}
<1>1. \A k \in Calls : /\ call[k] \in CallRec /\ call[k].todo \subseteq Chats /\ call[k].to \subseteq Chats
                      /\ call[k].bot \in Bots
  BY DEF Typed, CallRec
<1>2. \A k \in Calls : call[k].err \in BOOLEAN
  BY DEF Typed, CallRec
<1>3. \A b \in Bots : sender[b] \in SenderRec /\ sender[b].req \in Requests \cup {<<>>}
  BY DEF Typed, SenderRec
<1> QED
  BY <1>1, <1>2, <1>3

-----------------------------------------------------------------------------
(* The calls. *)

\* Nothing has been asked for.
LEMMA InitInv == Init => IInv
<1> SUFFICES ASSUME Init PROVE IInv
  OBVIOUS
<1>1. Typed
  <2>1. cancelled \in BOOLEAN
    BY DEF Init
  <2>2. /\ call \in [Calls -> CallRec] /\ result \in [Requests -> {"none", "ok", "err"}]
        /\ delivered \in [Requests -> 0..2] /\ relQ \in [Bots -> Seq(Requests)]
        /\ sender \in [Bots -> SenderRec]
    BY Values DEF Init
  <2> QED
    BY <2>1, <2>2 DEF Init, Typed
<1>2. \A b \in Bots, r \in Requests : ~Pending(b, r)
  BY Values, RequestIsReliable DEF Init, Pending, Queued
<1>3. CloseInv /\ CallInv
  BY Values DEF Init, CloseInv, CallInv
<1>4. FreshInv
  BY <1>2 DEF Init, FreshInv, Requests
<1>5. PlaceInv
  <2>1. \A b \in Bots : Len(relQ[b]) = 0 /\ sender[b].req = <<>>
    BY Values DEF Init
  <2>2. \A b \in Bots, k \in Calls, c \in Chats : ~Pending(b, <<k, c>>)
    BY <1>2 DEF Requests
  <2> QED
    BY <2>1, <2>2, RequestIsReliable DEF PlaceInv
<1>6. HeardInv
  BY <1>2 DEF Init, HeardInv
<1>7. ReportInv
  BY Values DEF Init, ReportInv, Requests
<1> QED
  BY <1>1, <1>3, <1>4, <1>5, <1>6, <1>7 DEF IInv

\* A step of one call that enqueues nothing: no chat is to be done again, and a
\* chat is done without an error only if its message was accepted.
LEMMA CallOnlyInv ==
    ASSUME IInv, NEW k \in Calls, NEW r \in CallRec, call' = [call EXCEPT ![k] = r],
           UNCHANGED <<result, delivered, unheard, relQ, sender, cancelled, closed>>,
           r.pc \in {"check", "enqueue", "await"} => r.chat \in r.todo /\ r.bot = BotFor(r.chat),
           r.pc = "returned" => r.todo = {},
           r.pc # "await",
           \A c \in Chats : r.pc = "idle" \/ c \in r.todo => NotYet(k, c),
           ~r.err => \A c \in r.to \ r.todo : delivered[<<k, c>>] > 0
    PROVE  IInv'
<1>1. Typed' /\ call'[k] = r /\ \A j \in Calls : j # k => call'[j] = call[j]
  BY DEF IInv, Typed
<1>2. \A b \in Bots : \A q : Pending(b, q)' <=> Pending(b, q)
  BY DEF Pending, Queued
<1>3. CloseInv' /\ PlaceInv' /\ HeardInv'
  BY DEF IInv, CloseInv, PlaceInv, HeardInv, Pending, Queued
<1>4. CallInv'
  <2> SUFFICES ASSUME NEW j \in Calls
               PROVE  /\ call'[j].pc \in {"check", "enqueue", "await"} =>
                            call'[j].chat \in call'[j].todo /\ call'[j].bot = BotFor(call'[j].chat)
                      /\ call'[j].pc = "returned" => call'[j].todo = {}
    BY DEF CallInv, BotFor
  <2>1. CASE j = k
    BY <1>1, <2>1
  <2>2. CASE j # k
    BY <1>1, <2>2 DEF IInv, CallInv
  <2> QED
    BY <2>1, <2>2
<1>5. FreshInv'
  <2> SUFFICES ASSUME NEW j \in Calls, NEW c \in Chats, NotYet(j, c)'
               PROVE  (delivered[<<j, c>>] = 0 /\ \A b \in Bots : ~Pending(b, <<j, c>>))'
    BY DEF FreshInv
  <2>1. NotYet(j, c)
    BY <1>1 DEF NotYet
  <2> QED
    BY <1>2, <2>1 DEF IInv, FreshInv
<1>6. ReportInv'
  BY <1>1 DEF IInv, ReportInv
<1> QED
  BY <1>1, <1>3, <1>4, <1>5, <1>6 DEF IInv

\* A bot's BroadcastReliable returns early.
LEMMA LeaveBotInv ==
    ASSUME IInv, NEW k \in Calls, call[k].pc # "idle", LeaveBot(k), CallInv,
           call[k].pc \in {"check", "enqueue", "await"},
           UNCHANGED <<result, delivered, unheard, relQ, sender, cancelled, closed>>
    PROVE  IInv'
<1> DEFINE u == [call[k] EXCEPT !.pc = "next", !.todo = call[k].todo \ Mine(k), !.err = TRUE]
<1>1. call[k] \in CallRec /\ call[k].todo \subseteq Chats
  BY Fields DEF IInv
<1>2. /\ u \in CallRec /\ u.pc = "next" /\ u.todo = call[k].todo \ Mine(k) /\ u.err = TRUE
  BY <1>1 DEF CallRec
<1>3. call' = [call EXCEPT ![k] = u]
  BY DEF LeaveBot
<1>4. call[k].chat \in Mine(k)
  BY DEF CallInv, Mine
<1>5. \A c \in Chats : c \in u.todo => NotYet(k, c)
  BY <1>2, <1>4 DEF NotYet
<1> HIDE DEF u
<1>6. PICK r \in CallRec : r = u
  BY <1>2
<1> QED
  BY <1>2, <1>3, <1>5, <1>6, CallOnlyInv

\* A router worker calls.
LEMMA CallInvStep ==
    ASSUME IInv, NEW k \in Calls, NEW to \in SUBSET Chats, Call(k, to)
    PROVE  IInv'
<1> DEFINE u == [NoCall EXCEPT !.pc = "next", !.to = to, !.todo = to]
<1>1. /\ u \in CallRec /\ u.pc = "next" /\ u.to = to /\ u.todo = to
  BY Values DEF CallRec
<1>2. call[k].pc = "idle" /\ call' = [call EXCEPT ![k] = u]
      /\ UNCHANGED <<result, delivered, unheard, relQ, sender, cancelled, closed>>
  BY DEF Call
<1>3. \A c \in Chats : NotYet(k, c)
  BY <1>2 DEF NotYet
<1> HIDE DEF u
<1>4. PICK r \in CallRec : r = u
  BY <1>1
<1> QED
  BY <1>1, <1>2, <1>3, <1>4, CallOnlyInv

\* The next chat, or the end of the call.
LEMMA CallNextInv ==
    ASSUME IInv, NEW k \in Calls, CallNext(k)
    PROVE  IInv'
<1>1. /\ call[k] \in CallRec /\ call[k].pc = "next" /\ call[k].todo \subseteq Chats
      /\ UNCHANGED <<result, delivered, unheard, relQ, sender, cancelled, closed>>
  BY Fields DEF IInv, CallNext
<1>2. \A c \in Chats : c \in call[k].todo => NotYet(k, c)
  BY <1>1 DEF NotYet
<1>3. ~call[k].err => \A c \in call[k].to \ call[k].todo : delivered[<<k, c>>] > 0
  BY DEF IInv, ReportInv
<1>4. CASE call[k].todo = {}
  <2> DEFINE u == [call[k] EXCEPT !.pc = "returned"]
  <2>1. /\ u \in CallRec /\ u.pc = "returned" /\ u.todo = call[k].todo /\ u.to = call[k].to
        /\ u.err = call[k].err
    BY <1>1 DEF CallRec
  <2>2. call' = [call EXCEPT ![k] = u]
    BY <1>4 DEF CallNext
  <2> HIDE DEF u
  <2>3. PICK r \in CallRec : r = u
    BY <2>1
  <2> QED
    BY <1>1, <1>2, <1>3, <1>4, <2>1, <2>2, <2>3, CallOnlyInv
<1>5. CASE call[k].todo # {}
  <2>1. PICK c \in call[k].todo : call' = [call EXCEPT ![k].pc = "check", ![k].bot = BotFor(c), ![k].chat = c]
    BY <1>5 DEF CallNext, Mine
  <2> DEFINE u == [call[k] EXCEPT !.pc = "check", !.bot = BotFor(c), !.chat = c]
  <2>2. BotFor(c) \in Bots /\ c \in Chats
    BY <1>1, BotAssumption DEF BotFor, BotAssumption
  <2>3. /\ u \in CallRec /\ u.pc = "check" /\ u.todo = call[k].todo /\ u.to = call[k].to
        /\ u.err = call[k].err /\ u.chat = c /\ u.bot = BotFor(c)
    BY <1>1, <2>2 DEF CallRec
  <2>4. call' = [call EXCEPT ![k] = u]
    BY <2>1
  <2> HIDE DEF u
  <2>5. PICK r \in CallRec : r = u
    BY <2>3
  <2> QED
    BY <1>1, <1>2, <1>3, <2>3, <2>4, <2>5, CallOnlyInv
<1> QED
  BY <1>4, <1>5

\* A closed bot refuses.
LEMMA CallCheckInv ==
    ASSUME IInv, NEW k \in Calls, CallCheck(k)
    PROVE  IInv'
<1>1. /\ call[k] \in CallRec /\ call[k].pc = "check" /\ call[k].todo \subseteq Chats
      /\ UNCHANGED <<result, delivered, unheard, relQ, sender, cancelled, closed>>
  BY Fields DEF IInv, CallCheck
<1>2. CASE LeaveBot(k)
  BY <1>1, <1>2, LeaveBotInv DEF IInv
<1>3. CASE call' = [call EXCEPT ![k].pc = "enqueue"]
  <2> DEFINE u == [call[k] EXCEPT !.pc = "enqueue"]
  <2>1. /\ u \in CallRec /\ u.pc = "enqueue" /\ u.todo = call[k].todo /\ u.to = call[k].to
        /\ u.err = call[k].err /\ u.chat = call[k].chat /\ u.bot = call[k].bot
    BY <1>1 DEF CallRec
  <2>2. call' = [call EXCEPT ![k] = u]
    BY <1>3
  <2> HIDE DEF u
  <2>3. PICK r \in CallRec : r = u
    BY <2>1
  <2>4. \A c \in Chats : c \in r.todo => NotYet(k, c)
    BY <1>1, <2>1, <2>3 DEF NotYet
  <2>5. r.chat \in r.todo /\ r.bot = BotFor(r.chat)
    BY <1>1, <2>1, <2>3 DEF IInv, CallInv
  <2>6. ~r.err => \A c \in r.to \ r.todo : delivered[<<k, c>>] > 0
    BY <2>1, <2>3 DEF IInv, ReportInv
  <2> QED
    BY <1>1, <2>1, <2>2, <2>3, <2>4, <2>5, <2>6, CallOnlyInv
<1> QED
  BY <1>2, <1>3 DEF CallCheck

\* The request joins its bot's queue: it is nowhere else, now or before.
LEMMA CallEnqueueInv ==
    ASSUME IInv, NEW k \in Calls, CallEnqueue(k)
    PROVE  IInv'
<1>1. /\ call[k] \in CallRec /\ call[k].pc = "enqueue" /\ call[k].todo \subseteq Chats /\ call[k].bot \in Bots
      /\ UNCHANGED <<result, delivered, unheard, sender, cancelled, closed>>
  BY Fields DEF IInv, CallEnqueue
<1>2. call[k].chat \in call[k].todo /\ call[k].bot = BotFor(call[k].chat)
  BY <1>1 DEF IInv, CallInv
<1>3. CASE LeaveBot(k) /\ UNCHANGED relQ
  BY <1>1, <1>3, LeaveBotInv DEF IInv
<1>4. CASE /\ relQ' = [relQ EXCEPT ![call[k].bot] = Append(@, <<k, call[k].chat>>)]
           /\ call' = [call EXCEPT ![k].pc = "await"]
  <2>1. PICK c \in Chats, b \in Bots : c = call[k].chat /\ b = call[k].bot
    BY <1>1, <1>2
  <2> DEFINE q == <<k, c>>
             u == [call[k] EXCEPT !.pc = "await"]
  <2>2. /\ u \in CallRec /\ u.pc = "await" /\ u.todo = call[k].todo /\ u.to = call[k].to
        /\ u.err = call[k].err /\ u.chat = c /\ u.bot = b
    BY <1>1, <2>1 DEF CallRec
  <2>3. q \in Requests /\ b = BotFor(c) /\ c \in call[k].todo
    BY <1>2, <2>1 DEF Requests
  <2>4. NotYet(k, c)
    BY <1>1, <2>3 DEF NotYet
  <2>5. delivered[q] = 0 /\ \A d \in Bots : ~Pending(d, q)
    BY <2>4 DEF IInv, FreshInv
  <2>6. call' = [call EXCEPT ![k] = u] /\ relQ' = [relQ EXCEPT ![b] = Append(relQ[b], q)]
    BY <1>4, <2>1
  <2>7. relQ[b] \in Seq(Requests) /\ call \in [Calls -> CallRec] /\ relQ \in [Bots -> Seq(Requests)]
    BY DEF IInv, Typed
  <2> HIDE DEF u, q
  <2>8. /\ call'[k] = u /\ call' \in [Calls -> CallRec] /\ \A j \in Calls : j # k => call'[j] = call[j]
    BY <2>2, <2>6, <2>7
  <2>9. /\ relQ' \in [Bots -> Seq(Requests)] /\ \A d \in Bots : d # b => relQ'[d] = relQ[d]
        /\ Len(relQ'[b]) = Len(relQ[b]) + 1 /\ Len(relQ[b]) \in Nat /\ relQ'[b][Len(relQ[b]) + 1] = q
        /\ \A i \in 1..Len(relQ[b]) : relQ'[b][i] = relQ[b][i]
    BY <2>3, <2>6, <2>7
  <2>10. \A i \in 1..Len(relQ'[b]) : i = Len(relQ[b]) + 1 \/ i \in 1..Len(relQ[b])
    BY <2>9
  <2>11. \A d \in Bots : \A r : Pending(d, r)' => Pending(d, r) \/ (d = b /\ r = q)
    BY <1>1, <2>9, <2>10 DEF Pending, Queued
  <2>12. Typed' /\ CloseInv'
    BY <1>1, <2>8, <2>9 DEF IInv, Typed, CloseInv
  <2>13. CallInv'
    <3> SUFFICES ASSUME NEW j \in Calls
                 PROVE  /\ call'[j].pc \in {"check", "enqueue", "await"} =>
                              call'[j].chat \in call'[j].todo /\ call'[j].bot = BotFor(call'[j].chat)
                        /\ call'[j].pc = "returned" => call'[j].todo = {}
      BY DEF CallInv, BotFor
    <3>1. CASE j = k
      BY <2>2, <2>3, <2>8, <3>1
    <3>2. CASE j # k
      BY <2>8, <3>2 DEF IInv, CallInv
    <3> QED
      BY <3>1, <3>2
  <2>14. FreshInv'
    <3> SUFFICES ASSUME NEW j \in Calls, NEW x \in Chats, NotYet(j, x)'
                 PROVE  (delivered[<<j, x>>] = 0 /\ \A d \in Bots : ~Pending(d, <<j, x>>))'
      BY DEF FreshInv
    <3>1. NotYet(j, x) /\ <<j, x>> # q
      <4>1. CASE j = k
        BY <1>1, <2>2, <2>8, <4>1 DEF NotYet, q
      <4>2. CASE j # k
        BY <2>8, <4>2 DEF NotYet, q
      <4> QED
        BY <4>1, <4>2
    <3> QED
      BY <1>1, <2>11, <3>1 DEF IInv, FreshInv
  <2>15. PlaceInv'
    <3> SUFFICES ASSUME NEW d \in Bots
                 PROVE  /\ \A j \in Calls, x \in Chats : Pending(d, <<j, x>>)' => d = BotFor(x)
                        /\ \A i, j \in 1..Len(relQ'[d]) : relQ'[d][i] = relQ'[d][j] => i = j
                        /\ \A r \in Requests : sender'[d].req = r => ~Queued(d, r)'
      BY DEF PlaceInv, BotFor
    <3>1. \A j \in Calls, x \in Chats : Pending(d, <<j, x>>)' => d = BotFor(x)
      BY <2>3, <2>11 DEF IInv, PlaceInv, q
    <3>2. \A i, j \in 1..Len(relQ'[d]) : relQ'[d][i] = relQ'[d][j] => i = j
      <4>1. CASE d = b
        <5>1. \A i \in 1..Len(relQ[b]) : relQ[b][i] # q
          BY <2>5 DEF Pending, Queued
        <5>2. \A i, j \in 1..Len(relQ[b]) : relQ[b][i] = relQ[b][j] => i = j
          BY DEF IInv, PlaceInv
        <5> QED
          BY <2>9, <2>10, <4>1, <5>1, <5>2
      <4>2. CASE d # b
        BY <2>9, <4>2 DEF IInv, PlaceInv
      <4> QED
        BY <4>1, <4>2
    <3>3. ASSUME NEW r \in Requests, sender'[d].req = r, Queued(d, r)' PROVE FALSE
      <4>1. Queued(d, r) \/ (d = b /\ r = q)
        BY <2>9, <2>10, <3>3 DEF Queued
      <4>2. sender[d].req = r
        BY <1>1, <3>3
      <4> QED
        BY <2>5, <4>1, <4>2 DEF IInv, PlaceInv, Pending
    <3> QED
      BY <3>1, <3>2, <3>3
  <2>16. HeardInv'
    BY <1>1, <2>5, <2>11 DEF IInv, HeardInv
  <2>17. ReportInv'
    <3>1. \A r \in Requests : result'[r] = "ok" => delivered'[r] > 0
      BY <1>1 DEF IInv, ReportInv
    <3>2. \A j \in Calls : /\ call'[j].err <=> call[j].err
                           /\ call'[j].to = call[j].to /\ call'[j].todo = call[j].todo
      BY <2>2, <2>8
    <3> QED
      BY <1>1, <3>1, <3>2 DEF IInv, ReportInv
  <2> QED
    BY <2>12, <2>13, <2>14, <2>15, <2>16, <2>17 DEF IInv
<1> QED
  BY <1>3, <1>4 DEF CallEnqueue

\* The result comes, or the context ends.
LEMMA CallAwaitInv ==
    ASSUME IInv, NEW k \in Calls, CallAwait(k)
    PROVE  IInv'
<1>1. /\ call[k] \in CallRec /\ call[k].pc = "await" /\ call[k].todo \subseteq Chats
      /\ UNCHANGED <<result, delivered, unheard, relQ, sender, cancelled, closed>>
  BY Fields DEF IInv, CallAwait
<1>2. call[k].chat \in call[k].todo
  BY <1>1 DEF IInv, CallInv
<1>3. CASE LeaveBot(k)
  BY <1>1, <1>3, LeaveBotInv DEF IInv
<1>4. CASE /\ result[<<k, call[k].chat>>] # "none"
           /\ call' = [call EXCEPT ![k].pc = "next", ![k].todo = @ \ {call[k].chat},
                                   ![k].err = @ \/ result[<<k, call[k].chat>>] = "err"]
  <2>1. PICK c \in Chats : c = call[k].chat
    BY <1>1, <1>2
  <2>2. PICK e \in BOOLEAN : e = (call[k].err \/ result[<<k, c>>] = "err")
    OBVIOUS
  <2> DEFINE u == [call[k] EXCEPT !.pc = "next", !.todo = call[k].todo \ {c}, !.err = e]
  <2>3. /\ u \in CallRec /\ u.pc = "next" /\ u.todo = call[k].todo \ {c} /\ u.to = call[k].to
        /\ u.err = e
    BY <1>1 DEF CallRec
  <2>4. call' = [call EXCEPT ![k] = u]
    BY <1>4, <2>1, <2>2
  <2> HIDE DEF u
  <2>5. PICK r \in CallRec : r = u
    BY <2>3
  <2>6. \A x \in Chats : x \in r.todo => NotYet(k, x)
    BY <1>1, <2>1, <2>3, <2>5 DEF NotYet
  <2>7. <<k, c>> \in Requests /\ result[<<k, c>>] \in {"ok", "err"}
    BY <1>4, <2>1 DEF IInv, Typed, Requests
  <2>8. ~e => delivered[<<k, c>>] > 0 /\ ~call[k].err
    BY <2>2, <2>7 DEF IInv, ReportInv
  <2>9. ~r.err => \A x \in r.to \ r.todo : delivered[<<k, x>>] > 0
    BY <2>3, <2>5, <2>8 DEF IInv, ReportInv
  <2> QED
    BY <1>1, <2>3, <2>4, <2>5, <2>6, <2>9, CallOnlyInv
<1> QED
  BY <1>3, <1>4 DEF CallAwait

-----------------------------------------------------------------------------
(* The send workers. *)

\* A step of a send worker that takes no request from the queue: it keeps its
\* request or is done with it. What it does to the request q that it holds is
\* what HeardInv and ReportInv allow; every other request is left alone.
LEMMA SenderOnlyInv ==
    ASSUME IInv, NEW b \in Bots, NEW s \in SenderRec, NEW q, sender' = [sender EXCEPT ![b] = s],
           s.req = sender[b].req \/ s.req = <<>>,
           UNCHANGED <<call, relQ, cancelled, closed>>,
           delivered' \in [Requests -> 0..2], result' \in [Requests -> {"none", "ok", "err"}],
           unheard \subseteq unheard', unheard' \subseteq Requests,
           \A r \in Requests : r # q => delivered'[r] = delivered[r] /\ result'[r] = result[r],
           q \in Requests =>
              /\ sender[b].req = q
              /\ delivered'[q] >= delivered[q]
              /\ result'[q] = "ok" => delivered'[q] > 0
              /\ delivered'[q] > 0 /\ s.req = q => q \in unheard'
              /\ delivered'[q] = 2 => q \in unheard'
    PROVE  IInv'
<1>1. /\ sender' \in [Bots -> SenderRec] /\ sender'[b] = s
      /\ \A d \in Bots : d # b => sender'[d] = sender[d]
  BY DEF IInv, Typed
<1>2. Typed' /\ CloseInv' /\ CallInv'
  BY <1>1 DEF IInv, Typed, CloseInv, CallInv, BotFor
<1>3. \A d \in Bots, r \in Requests : Pending(d, r)' => Pending(d, r)
  BY <1>1, RequestIsReliable DEF Pending, Queued
<1>4. \A k \in Calls, c \in Chats : <<k, c>> \in Requests
  BY DEF Requests
<1>5. FreshInv'
  <2> SUFFICES ASSUME NEW k \in Calls, NEW c \in Chats, NotYet(k, c)'
               PROVE  (delivered[<<k, c>>] = 0 /\ \A d \in Bots : ~Pending(d, <<k, c>>))'
    BY DEF FreshInv
  <2>1. delivered[<<k, c>>] = 0 /\ \A d \in Bots : ~Pending(d, <<k, c>>)
    BY DEF NotYet, IInv, FreshInv
  <2>2. <<k, c>> # q
    BY <1>4, <2>1 DEF Pending
  <2> QED
    BY <1>3, <1>4, <2>1, <2>2
<1>6. PlaceInv'
  <2> SUFFICES ASSUME NEW d \in Bots
               PROVE  /\ \A k \in Calls, c \in Chats : Pending(d, <<k, c>>)' => d = BotFor(c)
                      /\ \A i, j \in 1..Len(relQ'[d]) : relQ'[d][i] = relQ'[d][j] => i = j
                      /\ \A r \in Requests : sender'[d].req = r => ~Queued(d, r)'
    BY DEF PlaceInv, BotFor
  <2>1. \A k \in Calls, c \in Chats : Pending(d, <<k, c>>)' => d = BotFor(c)
    BY <1>3, <1>4 DEF IInv, PlaceInv
  <2>2. \A i, j \in 1..Len(relQ'[d]) : relQ'[d][i] = relQ'[d][j] => i = j
    BY DEF IInv, PlaceInv
  <2>3. \A r \in Requests : sender'[d].req = r => sender[d].req = r
    BY <1>1, RequestIsReliable
  <2>4. \A r \in Requests : sender'[d].req = r => ~Queued(d, r)'
    BY <2>3 DEF IInv, PlaceInv, Queued
  <2> QED
    BY <2>1, <2>2, <2>4
<1>7. HeardInv'
  <2> SUFFICES ASSUME NEW r \in Requests
               PROVE  /\ \A d \in Bots : Pending(d, r)' /\ delivered'[r] > 0 => r \in unheard'
                      /\ delivered'[r] = 2 => r \in unheard'
    BY DEF HeardInv
  <2>1. CASE r # q
    BY <1>3, <2>1 DEF IInv, HeardInv
  <2>2. CASE r = q
    <3>1. ASSUME NEW d \in Bots, Pending(d, q)' PROVE s.req = q
      <4>1. PICK k \in Calls, c \in Chats : q = <<k, c>>
        BY <2>2 DEF Requests
      <4>2. Pending(b, q) /\ Pending(d, q)
        BY <1>3, <2>2, <3>1 DEF Pending
      <4>3. d = b
        BY <4>1, <4>2 DEF IInv, PlaceInv
      <4>4. ~Queued(b, q)
        BY <2>2 DEF IInv, PlaceInv
      <4> QED
        BY <1>1, <3>1, <4>3, <4>4 DEF Pending, Queued
    <3> QED
      BY <2>2, <3>1
  <2> QED
    BY <2>1, <2>2
<1>8. ReportInv'
  <2>1. \A r \in Requests : result'[r] = "ok" => delivered'[r] > 0
    BY DEF IInv, ReportInv
  <2>2. ASSUME NEW r \in Requests, delivered[r] > 0 PROVE delivered'[r] > 0
    <3>1. delivered[r] \in 0..2 /\ delivered'[r] \in 0..2
      BY DEF IInv, Typed
    <3>2. CASE r = q
      BY <2>2, <3>1, <3>2
    <3>3. CASE r # q
      BY <2>2, <3>1, <3>3
    <3> QED
      BY <3>2, <3>3
  <2>3. ASSUME NEW k \in Calls, ~call[k].err, NEW c \in call[k].to \ call[k].todo PROVE delivered'[<<k, c>>] > 0
    <3>1. <<k, c>> \in Requests
      BY Fields DEF IInv, Requests
    <3> QED
      BY <2>2, <2>3, <3>1 DEF IInv, ReportInv
  <2> QED
    BY <2>1, <2>3 DEF ReportInv
<1> QED
  BY <1>2, <1>5, <1>6, <1>7, <1>8 DEF IInv

\* A step of a send worker that reports nothing.
LEMMA SenderQuietInv ==
    ASSUME IInv, NEW b \in Bots, (\E pc \in {"select", "send", "retry", "ended"} : SetSender(b, pc)) \/ Rest(b),
           UNCHANGED <<call, result, delivered, unheard, relQ, cancelled, closed>>
    PROVE  IInv'
<1>1. sender[b] \in SenderRec
  BY Fields DEF IInv
<1>2. /\ delivered' \in [Requests -> 0..2] /\ result' \in [Requests -> {"none", "ok", "err"}]
      /\ unheard' \subseteq Requests
  BY DEF IInv, Typed
<1>3. PICK s \in SenderRec : sender' = [sender EXCEPT ![b] = s] /\ (s.req = sender[b].req \/ s.req = <<>>)
  <2>1. CASE Rest(b)
    BY <2>1, Values DEF Rest
  <2>2. ASSUME NEW pc \in {"select", "send", "retry", "ended"}, SetSender(b, pc)
        PROVE  \E s \in SenderRec : sender' = [sender EXCEPT ![b] = s] /\ s.req = sender[b].req
    <3> DEFINE u == [sender[b] EXCEPT !.pc = pc]
    <3>1. u \in SenderRec /\ u.req = sender[b].req
      BY <1>1 DEF SenderRec
    <3>2. sender' = [sender EXCEPT ![b] = u]
      BY <2>2 DEF SetSender
    <3> HIDE DEF u
    <3> QED
      BY <3>1, <3>2
  <2> QED
    BY <2>1, <2>2
<1>4. PICK q : q = <<>>
  OBVIOUS
<1> QED
  BY <1>2, <1>3, <1>4, RequestIsReliable, SenderOnlyInv

\* A step of a send worker that ends its request with a report.
LEMMA SenderReportsInv ==
    ASSUME IInv, NEW b \in Bots, NEW what \in {"ok", "err"}, Reliable(b), Report(b, what),
           UNCHANGED <<call, unheard, relQ, cancelled, closed>>,
           \/ UNCHANGED delivered /\ what = "err"
           \/ Accept(b)
    PROVE  IInv'
<1>1. sender[b].req \in Requests
  BY Fields DEF IInv, Reliable
<1>2. PICK q \in Requests : q = sender[b].req
  BY <1>1
<1>3. PICK s \in SenderRec : sender' = [sender EXCEPT ![b] = s] /\ s.req = <<>>
  BY Values DEF Report, Rest
<1>4. result' = [result EXCEPT ![q] = what]
  BY <1>2 DEF Report
<1>5. /\ result' \in [Requests -> {"none", "ok", "err"}] /\ result'[q] = what
      /\ \A r \in Requests : r # q => result'[r] = result[r]
  BY <1>4 DEF IInv, Typed
<1>6. delivered[q] \in 0..2 /\ delivered \in [Requests -> 0..2] /\ unheard \subseteq Requests
  BY DEF IInv, Typed
<1>7. (delivered[q] > 0 => q \in unheard)
  BY <1>2 DEF IInv, HeardInv, Pending
<1>8. /\ delivered' \in [Requests -> 0..2]
      /\ \A r \in Requests : r # q => delivered'[r] = delivered[r]
      /\ delivered'[q] >= delivered[q]
      /\ what = "ok" => delivered'[q] > 0
      /\ delivered'[q] = 2 => delivered[q] > 0
  <2>1. CASE UNCHANGED delivered /\ what = "err"
    BY <1>6, <2>1
  <2>2. CASE Accept(b)
    <3>1. PICK d \in 0..2 : d = (IF delivered[q] = 2 THEN 2 ELSE delivered[q] + 1)
      BY <1>6
    <3>2. delivered' = [delivered EXCEPT ![q] = d]
      BY <1>2, <2>2, <3>1 DEF Accept
    <3> QED
      BY <1>6, <3>1, <3>2
  <2> QED
    BY <2>1, <2>2
<1>9. \A r \in Requests : r # q => delivered'[r] = delivered[r] /\ result'[r] = result[r]
  BY <1>5, <1>8
<1>10. /\ sender[b].req = q /\ delivered'[q] >= delivered[q] /\ s.req # q
       /\ result'[q] = "ok" => delivered'[q] > 0
       /\ delivered'[q] = 2 => q \in unheard
  BY <1>2, <1>3, <1>5, <1>7, <1>8, RequestIsReliable
<1>11. unheard \subseteq unheard' /\ unheard' \subseteq Requests /\ unheard' = unheard
  BY <1>6
<1>12. q \in Requests =>
         /\ sender[b].req = q
         /\ delivered'[q] >= delivered[q]
         /\ result'[q] = "ok" => delivered'[q] > 0
         /\ delivered'[q] > 0 /\ s.req = q => q \in unheard'
         /\ delivered'[q] = 2 => q \in unheard'
  BY <1>10, <1>11
<1>13. /\ s.req = sender[b].req \/ s.req = <<>>
       /\ delivered' \in [Requests -> 0..2] /\ result' \in [Requests -> {"none", "ok", "err"}]
       /\ sender' = [sender EXCEPT ![b] = s]
  BY <1>3, <1>5, <1>8
<1> QED
  BY <1>9, <1>11, <1>12, <1>13, SenderOnlyInv

\* Telegram accepted the message and the answer was lost.
LEMMA SenderUnheardInv ==
    ASSUME IInv, NEW b \in Bots, Reliable(b), SetSender(b, "retry"), Accept(b),
           unheard' = unheard \cup {sender[b].req}, UNCHANGED <<call, result, relQ, cancelled, closed>>
    PROVE  IInv'
<1>1. sender[b].req \in Requests /\ sender[b] \in SenderRec
  BY Fields DEF IInv, Reliable
<1>2. PICK q \in Requests : q = sender[b].req
  BY <1>1
<1> DEFINE u == [sender[b] EXCEPT !.pc = "retry"]
<1>3. u \in SenderRec /\ u.req = q /\ sender' = [sender EXCEPT ![b] = u]
  BY <1>1, <1>2 DEF SetSender, SenderRec
<1> HIDE DEF u
<1>4. PICK s \in SenderRec : s = u
  BY <1>3
<1>5. delivered[q] \in 0..2 /\ delivered \in [Requests -> 0..2] /\ unheard \subseteq Requests
      /\ result \in [Requests -> {"none", "ok", "err"}]
  BY DEF IInv, Typed
<1>6. /\ delivered' \in [Requests -> 0..2]
      /\ \A r \in Requests : r # q => delivered'[r] = delivered[r]
      /\ delivered'[q] > 0 /\ delivered'[q] >= delivered[q]
  BY <1>2, <1>5 DEF Accept
<1> QED
  BY <1>2, <1>3, <1>4, <1>5, <1>6, SenderOnlyInv

\* The worker takes the first request of its queue.
LEMMA TakeReliableInv ==
    ASSUME IInv, NEW b \in Bots, TakeReliable(b),
           UNCHANGED <<call, result, delivered, unheard, cancelled, closed>>
    PROVE  IInv'
<1>1. relQ \in [Bots -> Seq(Requests)] /\ relQ[b] \in Seq(Requests) /\ relQ[b] # <<>> /\ sender \in [Bots -> SenderRec]
  BY DEF IInv, Typed, TakeReliable
<1>2. Head(relQ[b]) \in Requests
  BY <1>1
<1>3. PICK q \in Requests : q = Head(relQ[b])
  BY <1>2
<1>4. PICK s \in SenderRec : sender' = [sender EXCEPT ![b] = s] /\ s.req = q
  <2> DEFINE u == [pc |-> "interval", req |-> q]
  <2>1. u \in SenderRec /\ u.req = q /\ sender' = [sender EXCEPT ![b] = u]
    BY <1>3 DEF SenderRec, TakeReliable
  <2> HIDE DEF u
  <2> QED
    BY <2>1
<1>5. relQ' = [relQ EXCEPT ![b] = Tail(relQ[b])]
  BY DEF TakeReliable
<1>6. /\ relQ' \in [Bots -> Seq(Requests)] /\ relQ'[b] = Tail(relQ[b])
      /\ \A d \in Bots : d # b => relQ'[d] = relQ[d]
  BY <1>1, <1>5
<1>7. /\ sender' \in [Bots -> SenderRec] /\ sender'[b] = s
      /\ \A d \in Bots : d # b => sender'[d] = sender[d]
  BY <1>1, <1>4
<1>8. /\ Len(relQ[b]) \in Nat \ {0} /\ Len(relQ'[b]) = Len(relQ[b]) - 1 /\ relQ[b][1] = q
      /\ \A i \in 1..Len(relQ'[b]) : relQ'[b][i] = relQ[b][i + 1] /\ i + 1 \in 1..Len(relQ[b])
  BY <1>1, <1>3, <1>6
<1>9. \A i, j \in 1..Len(relQ[b]) : relQ[b][i] = relQ[b][j] => i = j
  BY DEF IInv, PlaceInv
<1>10. \A d \in Bots : \A r : Queued(d, r)' => Queued(d, r) /\ (d = b => r # q)
  <2> SUFFICES ASSUME NEW d \in Bots, NEW r, Queued(d, r)' PROVE Queued(d, r) /\ (d = b => r # q)
    OBVIOUS
  <2>1. CASE d # b
    BY <1>6, <2>1 DEF Queued
  <2>2. CASE d = b
    <3>1. PICK i \in 1..Len(relQ'[b]) : relQ'[b][i] = r
      BY <2>2 DEF Queued
    <3>2. relQ[b][i + 1] = r /\ i + 1 \in 1..Len(relQ[b]) /\ 1 \in 1..Len(relQ[b]) /\ i + 1 # 1
      BY <1>8, <3>1
    <3>3. r # q
      BY <1>8, <1>9, <3>2
    <3> QED
      BY <2>2, <3>2, <3>3 DEF Queued
  <2> QED
    BY <2>1, <2>2
<1>11. Queued(b, q)
  BY <1>8 DEF Queued
<1>12. \A d \in Bots, r \in Requests : Pending(d, r)' => Pending(d, r)
  BY <1>4, <1>7, <1>10, <1>11 DEF Pending
<1>13. Typed' /\ CloseInv' /\ CallInv' /\ ReportInv'
  BY <1>6, <1>7 DEF IInv, Typed, CloseInv, CallInv, BotFor, ReportInv
<1>14. \A k \in Calls, c \in Chats : <<k, c>> \in Requests
  BY DEF Requests
<1>15. FreshInv'
  <2> SUFFICES ASSUME NEW k \in Calls, NEW c \in Chats, NotYet(k, c)'
               PROVE  (delivered[<<k, c>>] = 0 /\ \A d \in Bots : ~Pending(d, <<k, c>>))'
    BY DEF FreshInv
  <2>1. delivered[<<k, c>>] = 0 /\ \A d \in Bots : ~Pending(d, <<k, c>>)
    BY DEF NotYet, IInv, FreshInv
  <2> QED
    BY <1>12, <1>14, <2>1
<1>16. PlaceInv'
  <2> SUFFICES ASSUME NEW d \in Bots
               PROVE  /\ \A k \in Calls, c \in Chats : Pending(d, <<k, c>>)' => d = BotFor(c)
                      /\ \A i, j \in 1..Len(relQ'[d]) : relQ'[d][i] = relQ'[d][j] => i = j
                      /\ \A r \in Requests : sender'[d].req = r => ~Queued(d, r)'
    BY DEF PlaceInv, BotFor
  <2>1. \A k \in Calls, c \in Chats : Pending(d, <<k, c>>)' => d = BotFor(c)
    BY <1>12, <1>14 DEF IInv, PlaceInv
  <2>2. ASSUME NEW i \in 1..Len(relQ'[d]), NEW j \in 1..Len(relQ'[d]), relQ'[d][i] = relQ'[d][j] PROVE i = j
    <3>1. CASE d = b
      <4>1. /\ relQ'[b][i] = relQ[b][i + 1] /\ i + 1 \in 1..Len(relQ[b])
            /\ relQ'[b][j] = relQ[b][j + 1] /\ j + 1 \in 1..Len(relQ[b])
        BY <1>8, <3>1
      <4>2. i + 1 = j + 1
        BY <1>9, <2>2, <3>1, <4>1
      <4> QED
        BY <1>8, <3>1, <4>2
    <3>2. CASE d # b
      BY <1>6, <2>2, <3>2 DEF IInv, PlaceInv
    <3> QED
      BY <3>1, <3>2
  <2>3. ASSUME NEW r \in Requests, sender'[d].req = r, Queued(d, r)' PROVE FALSE
    <3>1. CASE d = b
      BY <1>4, <1>7, <1>10, <2>3, <3>1
    <3>2. CASE d # b
      BY <1>7, <1>10, <2>3, <3>2 DEF IInv, PlaceInv
    <3> QED
      BY <3>1, <3>2
  <2> QED
    BY <2>1, <2>2, <2>3
<1>17. HeardInv'
  BY <1>12 DEF IInv, HeardInv
<1> QED
  BY <1>13, <1>15, <1>16, <1>17 DEF IInv

\* Every step of a send worker.
LEMMA SenderStepInv ==
    ASSUME IInv, NEW b \in Bots, SenderStep(b)
    PROVE  IInv'
<1>1. CASE SenderHead(b)
  BY <1>1, TakeReliableInv, SenderQuietInv DEF SenderHead
<1>2. CASE SenderSelect(b)
  <2>1. UNCHANGED <<call, result, delivered, unheard, cancelled, closed>>
    BY <1>2 DEF SenderSelect
  <2>2. CASE /\ sender' = [sender EXCEPT ![b] = [pc |-> "interval", req |-> <<>>]] /\ UNCHANGED relQ
    <3> DEFINE u == [pc |-> "interval", req |-> <<>>]
    <3>1. u \in SenderRec /\ u.req = <<>> /\ sender' = [sender EXCEPT ![b] = u]
      BY <2>2 DEF SenderRec
    <3> HIDE DEF u
    <3>2. PICK s \in SenderRec : s = u
      BY <3>1
    <3>3. /\ delivered' \in [Requests -> 0..2] /\ result' \in [Requests -> {"none", "ok", "err"}]
          /\ unheard' \subseteq Requests
      BY <2>1 DEF IInv, Typed
    <3> QED
      BY <2>1, <2>2, <3>1, <3>2, <3>3, RequestIsReliable, SenderOnlyInv
  <2>3. CASE SetSender(b, "ended") /\ UNCHANGED <<relQ, sendQ>>
    BY <2>1, <2>3, SenderQuietInv
  <2>4. CASE TakeReliable(b)
    BY <2>1, <2>4, TakeReliableInv
  <2> QED
    BY <1>2, <2>2, <2>3, <2>4 DEF SenderSelect
<1>3. CASE SenderInterval(b)
  BY <1>3, SenderQuietInv, SenderReportsInv DEF SenderInterval
<1>4. CASE SendReliable(b)
  BY <1>4, SenderQuietInv, SenderReportsInv, SenderUnheardInv DEF SendReliable
<1>5. CASE RetryReliable(b)
  <2>1. b \in closed => cancelled
    BY DEF IInv, CloseInv
  <2> QED
    BY <1>5, <2>1, SenderQuietInv, SenderReportsInv DEF RetryReliable
<1>6. CASE SendBestEffort(b)
  BY <1>6, SenderQuietInv DEF SendBestEffort
<1> QED
  BY <1>1, <1>2, <1>3, <1>4, <1>5, <1>6 DEF SenderStep

-----------------------------------------------------------------------------
(* The theorems. *)

\* Every step preserves the invariant.
LEMMA StepInv == IInv /\ [Next]_vars => IInv'
<1> SUFFICES ASSUME IInv, [Next]_vars PROVE IInv'
  OBVIOUS
<1>1. CASE UNCHANGED <<call, result, delivered, unheard, relQ, sender>> /\ Typed' /\ CloseInv'
  BY <1>1 DEF IInv, CallInv, BotFor, FreshInv, NotYet, PlaceInv, HeardInv, ReportInv, Pending, Queued
<1>2. CASE \E k \in Calls : CallStep(k) \/ \E to \in SUBSET Chats \ {{}} : Call(k, to)
  BY <1>2, CallInvStep, CallNextInv, CallCheckInv, CallEnqueueInv, CallAwaitInv DEF CallStep
<1>3. CASE \E b \in Bots : SenderStep(b)
  BY <1>3, SenderStepInv
<1>4. CASE UNCHANGED vars \/ (\E b \in Bots : Poll(b) \/ TakeCommand(b) \/ Answer(b)) \/ (\E c \in Chats : Broadcast(c))
  <2>1. UNCHANGED <<call, result, delivered, unheard, relQ, sender, cancelled, closed>>
    BY <1>4 DEF vars, Poll, TakeCommand, Answer, Broadcast
  <2> QED
    BY <1>1, <2>1 DEF IInv, Typed, CloseInv
<1>5. CASE CancelReliable \/ \E b \in Bots : CloseBot(b)
  <2>1. UNCHANGED <<call, result, delivered, unheard, relQ, sender>>
    BY <1>5 DEF CancelReliable, CloseBot
  <2>2. cancelled' \in BOOLEAN /\ closed' \subseteq Bots /\ CloseInv'
    BY <1>5 DEF CancelReliable, CloseBot, IInv, Typed, CloseInv
  <2> QED
    BY <1>1, <2>1, <2>2 DEF IInv, Typed
<1> QED
  BY <1>2, <1>3, <1>4, <1>5 DEF Next

\* The invariant holds of every state.
LEMMA Inductive == Spec => []IInv
  BY InitInv, StepInv, PTL DEF Spec

\* BroadcastReliable (botpool.go, bot.go) reports success only for messages that
\* Telegram accepted, and a message is accepted twice only if an acceptance was
\* not heard of: for any pool of bots, any routes, chats, calls and queue sizes.
THEOREM AcknowledgedIsDelivered == Spec => []AckIsDelivery
<1>1. IInv => AckIsDelivery
  <2> SUFFICES ASSUME IInv PROVE AckIsDelivery
    OBVIOUS
  <2>1. \A k \in Calls : call[k].pc = "returned" /\ ~call[k].err => \A c \in call[k].to : delivered[<<k, c>>] > 0
    BY DEF IInv, CallInv, ReportInv
  <2>2. \A r \in Requests : delivered[r] = 2 => r \in unheard
    BY DEF IInv, HeardInv
  <2> QED
    BY <2>1, <2>2 DEF AckIsDelivery
<1> QED
  BY <1>1, Inductive, PTL

=============================================================================
