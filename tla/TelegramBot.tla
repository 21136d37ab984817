---------------------------- MODULE TelegramBot -----------------------------
(***************************************************************************)
(* The Telegram transport: a pool of bots, each with a best-effort queue,  *)
(* a reliable queue, one send worker and its command workers; the router's *)
(* BroadcastReliable calls, which wait for an acknowledgement of every     *)
(* message; the Telegram API, which answers, refuses, throttles, fails, or *)
(* accepts a message and loses the answer; and the end of the program:     *)
(* first the router is closed, then the pool.                              *)
(*                                                                         *)
(* A call is one BroadcastReliable of the router, a request is a call and  *)
(* a chat. Best-effort messages carry nothing that is told apart: their    *)
(* queue is a number.                                                      *)
(***************************************************************************)
EXTENDS Integers, Sequences, FiniteSets, SequencesExt

CONSTANTS
    Bots,      \* ids of the bots
    FirstBot,  \* the pool's first
    Chats,     \* chats
    Route,     \* RouteBot: [Chats -> id], not always that of a bot
    Calls,     \* calls of BroadcastReliable
    QueueCap,  \* capacity of a bot's send queues
    CmdCap,    \* capacity of a bot's command queue
    MaxOther   \* bound: commands and alerts

ASSUME BotAssumption == FirstBot \in Bots /\ QueueCap \in Nat \ {0} /\ CmdCap \in Nat \ {0}

VARIABLES
    call,       \* [call |-> where it stands]
    result,     \* [request |-> what its result channel holds]
    delivered,  \* [request |-> how often Telegram accepted it (at most 2)]
    unheard,    \* history: requests one of whose acceptances was not heard of
    relQ,       \* [bot |-> reliableChan]
    sendQ,      \* [bot |-> length of sendChan]
    sender,     \* [bot |-> its sendWorker]
    cmdQ,       \* [bot |-> length of commands]
    cmdWorker,  \* [bot |-> its command worker]
    cancelled,  \* the reliable context is cancelled: router.Close
    closed,     \* the bots with Close called: closed and sendStop
    others      \* number of commands and alerts so far

vars == <<call, result, delivered, unheard, relQ, sendQ, sender, cmdQ, cmdWorker, cancelled, closed, others>>

Requests == Calls \X Chats
NoCall == [pc |-> "idle", to |-> {}, todo |-> {}, bot |-> FirstBot, chat |-> CHOOSE c \in Chats : TRUE,
           err |-> FALSE]
Resting == [pc |-> "idle", req |-> <<>>]   \* req: <<>> is a best-effort message

Init ==
    /\ call = [k \in Calls |-> NoCall]
    /\ result = [r \in Requests |-> "none"]
    /\ delivered = [r \in Requests |-> 0]
    /\ unheard = {}
    /\ relQ = [b \in Bots |-> <<>>] /\ sendQ = [b \in Bots |-> 0]
    /\ sender = [b \in Bots |-> Resting]
    /\ cmdQ = [b \in Bots |-> 0] /\ cmdWorker = [b \in Bots |-> "idle"]
    /\ cancelled = FALSE /\ closed = {} /\ others = 0

\* botFor: the chat's bot, or the first one of the pool.
BotFor(c) == IF Route[c] \in Bots THEN Route[c] ELSE FirstBot

-----------------------------------------------------------------------------
(* BroadcastReliable of the pool: bot by bot, in any order, chat by chat. *)

callOnly == <<result, delivered, unheard, sendQ, sender, cmdQ, cmdWorker, cancelled, closed, others>>
Mine(k) == {c \in call[k].todo : BotFor(c) = call[k].bot}

\* The bot's BroadcastReliable returns early; the pool goes on with the others.
LeaveBot(k) == call' = [call EXCEPT ![k].pc = "next", ![k].todo = @ \ Mine(k), ![k].err = TRUE]

\* A router worker calls, one at a time because it holds lifecycleMu.
Call(k, to) ==
    /\ call[k].pc = "idle" /\ ~cancelled
    /\ \A j \in Calls : call[j].pc \in {"idle", "returned"}
    /\ call' = [call EXCEPT ![k] = [NoCall EXCEPT !.pc = "next", !.to = to, !.todo = to]]
    /\ UNCHANGED <<callOnly, relQ>>

\* The next chat, of the same bot while it has one; nothing left ends the call.
CallNext(k) ==
    /\ call[k].pc = "next"
    /\ IF call[k].todo = {}
       THEN call' = [call EXCEPT ![k].pc = "returned"]
       ELSE \E c \in IF Mine(k) # {} THEN Mine(k) ELSE call[k].todo :
                call' = [call EXCEPT ![k].pc = "check", ![k].bot = BotFor(c), ![k].chat = c]
    /\ UNCHANGED <<callOnly, relQ>>

\* A closed bot refuses.
CallCheck(k) ==
    /\ call[k].pc = "check"
    /\ IF call[k].bot \in closed THEN LeaveBot(k) ELSE call' = [call EXCEPT ![k].pc = "enqueue"]
    /\ UNCHANGED <<callOnly, relQ>>

\* The request waits for room; the context or sendStop ends the wait.
CallEnqueue(k) ==
    LET b == call[k].bot
    IN  /\ call[k].pc = "enqueue"
        /\ \/ /\ Len(relQ[b]) < QueueCap
              /\ relQ' = [relQ EXCEPT ![b] = Append(@, <<k, call[k].chat>>)]
              /\ call' = [call EXCEPT ![k].pc = "await"]
           \/ /\ cancelled \/ b \in closed
              /\ LeaveBot(k)
              /\ UNCHANGED relQ
        /\ UNCHANGED callOnly

\* The result, or the end of the context. An error does not stop the other chats.
CallAwait(k) ==
    LET r == <<k, call[k].chat>>
    IN  /\ call[k].pc = "await"
        /\ \/ /\ result[r] # "none"
              /\ call' = [call EXCEPT ![k].pc = "next", ![k].todo = @ \ {call[k].chat},
                                      ![k].err = @ \/ result[r] = "err"]
           \/ cancelled /\ LeaveBot(k)
        /\ UNCHANGED <<callOnly, relQ>>

-----------------------------------------------------------------------------
(* The send worker. *)

senderOnly == <<call, cmdQ, cmdWorker, cancelled, closed, others>>
SetSender(b, pc) == sender' = [sender EXCEPT ![b].pc = pc]
Rest(b) == sender' = [sender EXCEPT ![b] = Resting]
Report(b, what) == result' = [result EXCEPT ![sender[b].req] = what] /\ Rest(b)
Reliable(b) == sender[b].req # <<>>

TakeReliable(b) ==
    /\ relQ[b] # <<>>
    /\ sender' = [sender EXCEPT ![b] = [pc |-> "interval", req |-> Head(relQ[b])]]
    /\ relQ' = [relQ EXCEPT ![b] = Tail(@)]
    /\ UNCHANGED sendQ

\* The head of the loop: sendStop first, then a reliable request.
SenderHead(b) ==
    /\ sender[b].pc = "idle"
    /\ \/ b \in closed /\ SetSender(b, "ended") /\ UNCHANGED <<relQ, sendQ>>
       \/ b \notin closed /\ TakeReliable(b)
       \/ b \notin closed /\ relQ[b] = <<>> /\ SetSender(b, "select") /\ UNCHANGED <<relQ, sendQ>>
    /\ UNCHANGED <<senderOnly, result, delivered, unheard>>

\* Mutation of SenderSelect: it does not listen to sendStop.
SenderSelectDeaf(b) ==
    /\ sender[b].pc = "select"
    /\ \/ TakeReliable(b)
       \/ /\ sendQ[b] > 0
          /\ sender' = [sender EXCEPT ![b] = [pc |-> "interval", req |-> <<>>]]
          /\ sendQ' = [sendQ EXCEPT ![b] = @ - 1]
          /\ UNCHANGED relQ
    /\ UNCHANGED <<senderOnly, result, delivered, unheard>>

\* The second select: whatever comes first.
SenderSelect(b) ==
    /\ sender[b].pc = "select"
    /\ \/ b \in closed /\ SetSender(b, "ended") /\ UNCHANGED <<relQ, sendQ>>
       \/ TakeReliable(b)
       \/ /\ sendQ[b] > 0
          /\ sender' = [sender EXCEPT ![b] = [pc |-> "interval", req |-> <<>>]]
          /\ sendQ' = [sendQ EXCEPT ![b] = @ - 1]
          /\ UNCHANGED relQ
    /\ UNCHANGED <<senderOnly, result, delivered, unheard>>

\* waitSendInterval, and with the request's context waitSendIntervalContext.
SenderInterval(b) ==
    /\ sender[b].pc = "interval"
    /\ \/ SetSender(b, "send") /\ UNCHANGED result
       \/ b \in closed /\ ~Reliable(b) /\ Rest(b) /\ UNCHANGED result
       \/ (b \in closed \/ cancelled) /\ Reliable(b) /\ Report(b, "err")
    /\ UNCHANGED <<senderOnly, relQ, sendQ, delivered, unheard>>

Accept(b) == delivered' = [delivered EXCEPT ![sender[b].req] = IF @ = 2 THEN 2 ELSE @ + 1]

\* sendReliable's loop: a cancelled request ends; Telegram accepts, refuses for
\* good (4xx), or throttles or fails, which is tried again, as is a message whose
\* acceptance was not heard of.
SendReliable(b) ==
    /\ sender[b].pc = "send" /\ Reliable(b)
    /\ \/ cancelled /\ Report(b, "err") /\ UNCHANGED <<delivered, unheard>>
       \/ ~cancelled /\ Accept(b) /\ Report(b, "ok") /\ UNCHANGED unheard
       \/ ~cancelled /\ Report(b, "err") /\ UNCHANGED <<delivered, unheard>>
       \/ ~cancelled /\ SetSender(b, "retry") /\ UNCHANGED <<result, delivered, unheard>>
       \/ /\ ~cancelled /\ SetSender(b, "retry") /\ Accept(b)
          /\ unheard' = unheard \cup {sender[b].req}
          /\ UNCHANGED result
    /\ UNCHANGED <<senderOnly, relQ, sendQ>>

\* waitRetryContext: the delay passes, or the context or sendStop ends it and the
\* context's error is reported, which is nil while the context is alive.
RetryReliable(b) ==
    /\ sender[b].pc = "retry" /\ Reliable(b)
    /\ \/ SetSender(b, "send") /\ UNCHANGED result
       \/ (cancelled \/ b \in closed) /\ Report(b, IF cancelled THEN "err" ELSE "ok")
    /\ UNCHANGED <<senderOnly, relQ, sendQ, delivered, unheard>>

\* sendBestEffort: sent or dropped, and tried a second time when throttled.
SendBestEffort(b) ==
    /\ sender[b].pc \in {"send", "retry"} /\ ~Reliable(b)
    /\ \/ Rest(b)
       \/ sender[b].pc = "send" /\ SetSender(b, "retry")
    /\ UNCHANGED <<senderOnly, result, relQ, sendQ, delivered, unheard>>

-----------------------------------------------------------------------------
(* Commands, and best-effort messages. *)

cmdOnly == <<call, result, delivered, unheard, relQ, sender, cancelled, closed>>

\* StartPolling: a command is queued, or dropped when the queue is full. Polling
\* has ended when the pool is closed.
Poll(b) ==
    /\ closed = {} /\ others < MaxOther
    /\ others' = others + 1
    /\ cmdQ' = IF cmdQ[b] = CmdCap THEN cmdQ ELSE [cmdQ EXCEPT ![b] = @ + 1]
    /\ UNCHANGED <<cmdOnly, sendQ, cmdWorker>>

\* commandWorker: takes a command, or ends because of sendStop.
TakeCommand(b) ==
    /\ cmdWorker[b] = "idle"
    /\ \/ /\ cmdQ[b] > 0
          /\ cmdQ' = [cmdQ EXCEPT ![b] = @ - 1]
          /\ cmdWorker' = [cmdWorker EXCEPT ![b] = "handling"]
       \/ /\ b \in closed
          /\ cmdWorker' = [cmdWorker EXCEPT ![b] = "ended"]
          /\ UNCHANGED cmdQ
    /\ UNCHANGED <<cmdOnly, sendQ, others>>

\* SendPrivateMessage: nothing once the bot is closed, dropped if the queue is full.
Offer(b) == sendQ' = IF b \in closed \/ sendQ[b] = QueueCap THEN sendQ ELSE [sendQ EXCEPT ![b] = @ + 1]

\* HandleCommand returns and its answer goes to the bot that got the command.
Answer(b) ==
    /\ cmdWorker[b] = "handling"
    /\ cmdWorker' = [cmdWorker EXCEPT ![b] = "idle"]
    /\ Offer(b)
    /\ UNCHANGED <<cmdOnly, cmdQ, others>>

\* Broadcast to the administrators: an alert, also while the program stops.
Broadcast(c) ==
    /\ others < MaxOther
    /\ others' = others + 1
    /\ Offer(BotFor(c))
    /\ UNCHANGED <<cmdOnly, cmdQ, cmdWorker>>

-----------------------------------------------------------------------------
(* The end of the program. *)

\* router.Close cancels the context and waits for the calls,
CancelReliable ==
    /\ ~cancelled
    /\ cancelled' = TRUE
    /\ UNCHANGED <<call, result, delivered, unheard, relQ, sendQ, sender, cmdQ, cmdWorker, closed, others>>

\* Mutation of CloseBot: the pool is closed before the router.
CloseBotEarly(b) ==
    /\ b \notin closed
    /\ closed' = closed \cup {b}
    /\ UNCHANGED <<call, result, delivered, unheard, relQ, sendQ, sender, cmdQ, cmdWorker, cancelled,
                   others>>

\* then main's pool.Close closes one bot after the other, each when the workers
\* of the one before have ended.
CloseBot(b) ==
    /\ cancelled /\ b \notin closed
    /\ \A k \in Calls : call[k].pc \in {"idle", "returned"}
    /\ \A d \in closed : sender[d].pc = "ended" /\ cmdWorker[d] = "ended"
    /\ closed' = closed \cup {b}
    /\ UNCHANGED <<call, result, delivered, unheard, relQ, sendQ, sender, cmdQ, cmdWorker, cancelled,
                   others>>

CallStep(k) == CallNext(k) \/ CallCheck(k) \/ CallEnqueue(k) \/ CallAwait(k)
SenderStep(b) ==
    \/ SenderHead(b) \/ SenderSelect(b) \/ SenderInterval(b)
    \/ SendReliable(b) \/ RetryReliable(b) \/ SendBestEffort(b)

Next ==
    \/ \E k \in Calls : CallStep(k) \/ \E to \in SUBSET Chats \ {{}} : Call(k, to)
    \/ \E b \in Bots : SenderStep(b) \/ Poll(b) \/ TakeCommand(b) \/ Answer(b) \/ CloseBot(b)
    \/ \E c \in Chats : Broadcast(c)
    \/ CancelReliable

\* Goroutines run, HandleCommand and the HTTP client's calls return (timeouts),
\* and main goes on with its shutdown once it has begun.
Fairness ==
    /\ \A k \in Calls : WF_vars(CallStep(k))
    /\ \A b \in Bots : WF_vars(SenderStep(b)) /\ WF_vars(TakeCommand(b) \/ Answer(b))
    /\ WF_vars(\E b \in Bots : CloseBot(b))

Spec == Init /\ [][Next]_vars /\ Fairness

-----------------------------------------------------------------------------
(* Properties. *)

\* Type correctness of the bots, their queues, the callers and the shutdown.
TypeOK ==
    /\ \A k \in Calls : call[k].pc \in {"idle", "next", "check", "enqueue", "await", "returned"}
    /\ result \in [Requests -> {"none", "ok", "err"}]
    /\ delivered \in [Requests -> 0..2] /\ unheard \subseteq Requests
    /\ \A b \in Bots :
        /\ Len(relQ[b]) <= QueueCap /\ sendQ[b] \in 0..QueueCap /\ cmdQ[b] \in 0..CmdCap
        /\ sender[b].pc \in {"idle", "select", "interval", "send", "retry", "ended"}
        /\ cmdWorker[b] \in {"idle", "handling", "ended"}

\* BroadcastReliable reports success only if Telegram accepted the message for
\* every one of its chats, whatever failed on the way and although the program is
\* ending; and a message is accepted twice only if an acceptance was not heard of
\* (botpool.go:79, "waits for the Telegram API acknowledgement").
AckIsDelivery ==
    /\ \A k \in Calls : call[k].pc = "returned" /\ ~call[k].err =>
            \A c \in call[k].to : delivered[<<k, c>>] > 0
    /\ \A r \in Requests : delivered[r] = 2 => r \in unheard

\* Once the router is closed every call returns and every worker of every bot
\* ends, although Telegram is down, throttles, or queues are full (bot.go:317).
TransportStops ==
    cancelled ~> /\ \A k \in Calls : call[k].pc \in {"idle", "returned"}
                 /\ \A b \in Bots : sender[b].pc = "ended" /\ cmdWorker[b] = "ended"
=============================================================================
