---------------------------- MODULE UserCommands ----------------------------
(***************************************************************************)
(* Telegram commands that change settings: the bot's workers run           *)
(* HandleCommand concurrently, each reading a user or the configuration,   *)
(* writing the database and then the memory (users) or the other way round *)
(* (the operator's settings), while the database fails or runs statements  *)
(* their client has given up on, and the process restarts from it.         *)
(*                                                                         *)
(* A user is his minimum spread and his other settings, Fields (MinVolume, *)
(* Timeframe, MinFundingMinutes, UpdateStep), which are all set alike.     *)
(* Spreads are levels above the absolute minimum 1. A target is what two   *)
(* calls may compete for: a chat, the hard floor or the fees.              *)
(***************************************************************************)
EXTENDS Integers, FiniteSets, FiniteSetsExt

CONSTANTS
    Chats,        \* chats
    Workers,      \* command workers
    Fields,       \* settings of a user beside the spread; "step" is UpdateStep
    MaxSpread,    \* bound: spread levels
    FeeKeys,      \* exchanges with a fee, DEFAULT included
    EnvFloor,     \* HARD_MIN_SPREAD of the environment
    MaxCommands,  \* bound: commands
    MaxRestarts,  \* bound: restarts
    MaxAbandoned  \* bound: statements in doubt at a time

Spreads == 1..MaxSpread
Values == {0, 1}
ASSUME CommandAssumption ==
    /\ MaxSpread \in Nat /\ MaxCommands \in Nat /\ MaxRestarts \in Nat /\ MaxAbandoned \in Nat
    /\ EnvFloor \in Spreads /\ "DEFAULT" \in FeeKeys
    /\ Chats \cap {"hard", "fees"} = {}

VARIABLES
    mem,        \* UserManager.users
    rows,       \* the users table
    hardMin,    \* ScreenerConfig.hardMinSpread
    fundMin,    \* the funding manager's MinSpread
    fees,       \* ScreenerConfig.fees
    settings,   \* the settings table: [hard, fees], at most one value each
    inDoubt,    \* statements whose client gave up before the server answered
    call,       \* [worker |-> its HandleCommand]
    accepting,  \* Application.accepting
    commands,   \* number of commands so far
    restarts,   \* number of restarts so far
    raced,      \* history: targets two calls have competed for
    unsaved,    \* history: targets of which the database may hold something else
    acked       \* history: what the last acknowledged command of a chat set

vars == <<mem, rows, hardMin, fundMin, fees, settings, inDoubt, call, accepting, commands, restarts,
          raced, unsaved, acked>>

NoUser == [spread |-> 0]
Users == [spread : Spreads, set : [Fields -> Values]]
NoFee == -1
FeeMaps == [FeeKeys -> Values \cup {NoFee}]
EnvFees == [k \in FeeKeys |-> IF k = "DEFAULT" THEN 0 ELSE NoFee]
Targets == Chats \cup {"hard", "fees"}
Calls ==
    [pc : {"idle", "save", "delete", "set", "hard", "saveHard", "fees", "saveFees"}, on : Targets,
     u : Users \cup {NoUser}, v : 0..MaxSpread, m : FeeMaps, lone : BOOLEAN]
Statements ==
    {s \in [on : Targets, u : Users \cup {NoUser}, v : 0..MaxSpread, m : FeeMaps] :
        s.on = "hard" => s.v \in Spreads}
NoCall == [pc |-> "idle", on |-> "hard", u |-> NoUser, v |-> 0, m |-> EnvFees, lone |-> TRUE]

NewUser == [spread |-> hardMin, set |-> [f \in Fields |-> 0]]

Init ==
    /\ mem = [c \in Chats |-> NoUser] /\ rows = [c \in Chats |-> NoUser]
    /\ hardMin = EnvFloor /\ fundMin = EnvFloor /\ fees = EnvFees
    /\ settings = [hard |-> {}, fees |-> {}] /\ inDoubt = {}
    /\ call = [w \in Workers |-> NoCall]
    /\ accepting = TRUE /\ commands = 0 /\ restarts = 0
    /\ raced = {} /\ unsaved = {} /\ acked = [c \in Chats |-> NoUser]

-----------------------------------------------------------------------------
(* The calls. *)

Busy(t) == {w \in Workers : call[w].pc # "idle" /\ call[w].on = t}

\* HandleCommand begins: refused while the application does not accept. The call
\* and its competitors are marked.
Enter(w, t, pc, u, v, m) ==
    /\ accepting /\ call[w].pc = "idle" /\ commands < MaxCommands
    /\ commands' = commands + 1
    /\ call' = [x \in Workers |->
                    IF x = w THEN [pc |-> pc, on |-> t, u |-> u, v |-> v, m |-> m,
                                      lone |-> Busy(t) = {}]
                    ELSE IF x \in Busy(t) THEN [call[x] EXCEPT !.lone = FALSE] ELSE call[x]]
    /\ raced' = IF Busy(t) = {} THEN raced ELSE raced \cup {t}

Step(w, pc) == call' = [call EXCEPT ![w].pc = pc]
Return(w) == call' = [call EXCEPT ![w] = NoCall]

\* A call that had the target for itself leaves it whole.
Settled(w, S) == IF call[w].lone THEN S \ {call[w].on} ELSE S

\* /start: a chat without a user gets the defaults, at the current floor.
Start(w, c) ==
    /\ mem[c] = NoUser
    /\ Enter(w, c, "save", NewUser, 0, EnvFees)
    /\ UNCHANGED <<mem, rows, hardMin, fundMin, fees, settings, inDoubt, accepting, restarts,
                   unsaved, acked>>

\* /stop.
Stop(w, c) ==
    /\ mem[c] # NoUser
    /\ Enter(w, c, "delete", NoUser, 0, EnvFees)
    /\ UNCHANGED <<mem, rows, hardMin, fundMin, fees, settings, inDoubt, accepting, restarts,
                   unsaved, acked>>

\* /setcross: not below the floor.
SetCross(w, c, s) ==
    /\ mem[c] # NoUser
    /\ Enter(w, c, "save", [mem[c] EXCEPT !.spread = Max({s, hardMin})], 0, EnvFees)
    /\ UNCHANGED <<mem, rows, hardMin, fundMin, fees, settings, inDoubt, accepting, restarts,
                   unsaved, acked>>

\* /setvol, /setupdates, /setfundingtime, /settimeframe.
SetField(w, c, f, v) ==
    /\ mem[c] # NoUser
    /\ Enter(w, c, "save", [mem[c] EXCEPT !.set[f] = v], 0, EnvFees)
    /\ UNCHANGED <<mem, rows, hardMin, fundMin, fees, settings, inDoubt, accepting, restarts,
                   unsaved, acked>>

\* What the call has asked of the server, and the calls that wait for its answer.
Statement(w) == [on |-> call[w].on, u |-> call[w].u, v |-> call[w].v, m |-> call[w].m]
Saving == {w \in Workers : call[w].pc \in {"save", "delete", "saveHard", "saveFees"}}

\* The statement fails for good, or the client gives up on it (five seconds) and
\* the server may run it later, or never.
Fails(w) ==
    \/ UNCHANGED inDoubt
    \/ /\ Cardinality(inDoubt) < MaxAbandoned
       /\ inDoubt' = inDoubt \cup {Statement(w)}

\* Mutation of SaveUser: the memory is written whatever the database says.
SaveUserRegardless(w) ==
    /\ call[w].pc = "save"
    /\ Step(w, "set")
    /\ unsaved' = Settled(w, unsaved)
    /\ \/ rows' = [rows EXCEPT ![call[w].on] = call[w].u] /\ UNCHANGED inDoubt
       \/ Fails(w) /\ UNCHANGED rows
    /\ UNCHANGED <<mem, hardMin, fundMin, fees, settings, accepting, commands, restarts, raced,
                   acked>>

\* persistUser: the whole record is written, or an error ends the command.
SaveUser(w) ==
    /\ call[w].pc = "save"
    /\ \/ /\ rows' = [rows EXCEPT ![call[w].on] = call[w].u]
          /\ Step(w, "set")
          /\ unsaved' = Settled(w, unsaved)
          /\ UNCHANGED inDoubt
       \/ Fails(w) /\ Return(w) /\ UNCHANGED <<rows, unsaved>>
    /\ UNCHANGED <<mem, hardMin, fundMin, fees, settings, accepting, commands, restarts, raced,
                   acked>>

\* deleteUser, likewise.
DeleteUser(w) ==
    /\ call[w].pc = "delete"
    /\ \/ /\ rows' = [rows EXCEPT ![call[w].on] = NoUser]
          /\ Step(w, "set")
          /\ unsaved' = Settled(w, unsaved)
          /\ UNCHANGED inDoubt
       \/ Fails(w) /\ Return(w) /\ UNCHANGED <<rows, unsaved>>
    /\ UNCHANGED <<mem, hardMin, fundMin, fees, settings, accepting, commands, restarts, raced,
                   acked>>

\* SetUser, or RemoveUser after a deletion.
SetUser(w) ==
    /\ call[w].pc = "set"
    /\ mem' = [mem EXCEPT ![call[w].on] = call[w].u]
    /\ acked' = [acked EXCEPT ![call[w].on] = call[w].u]
    /\ raced' = Settled(w, raced)
    /\ Return(w)
    /\ UNCHANGED <<rows, hardMin, fundMin, fees, settings, inDoubt, accepting, commands, restarts,
                   unsaved>>

\* /sethardspread: a valid level, first for the funding manager,
SetHardSpread(w, s) ==
    /\ Enter(w, "hard", "hard", NoUser, s, EnvFees)
    /\ fundMin' = s
    /\ UNCHANGED <<mem, rows, hardMin, fees, settings, inDoubt, accepting, restarts,
                   unsaved, acked>>

\* Mutation of SetHardMinSpread: it refuses to lower the floor.
SetHardMinSpreadRaises(w) ==
    /\ call[w].pc = "hard"
    /\ hardMin' = Max({hardMin, call[w].v})
    /\ Step(w, "saveHard")
    /\ UNCHANGED <<mem, rows, fundMin, fees, settings, inDoubt, accepting, commands, restarts, raced,
                   unsaved, acked>>

\* then for the configuration,
SetHardMinSpread(w) ==
    /\ call[w].pc = "hard"
    /\ hardMin' = call[w].v
    /\ Step(w, "saveHard")
    /\ UNCHANGED <<mem, rows, fundMin, fees, settings, inDoubt, accepting, commands, restarts, raced,
                   unsaved, acked>>

\* A setting is saved, or it holds until the restart only.
SaveSetting(w, key, value) ==
    /\ \/ /\ settings' = [settings EXCEPT ![key] = {value}]
          /\ unsaved' = Settled(w, unsaved)
          /\ UNCHANGED inDoubt
       \/ /\ Fails(w)
          /\ unsaved' = unsaved \cup {key}
          /\ UNCHANGED settings
    /\ raced' = Settled(w, raced)
    /\ Return(w)
    /\ UNCHANGED <<mem, rows, hardMin, fundMin, fees, accepting, commands, restarts, acked>>

\* and last in the settings table.
PersistHard(w) == call[w].pc = "saveHard" /\ SaveSetting(w, "hard", call[w].v)

\* /setfees: the fees of some exchanges,
SetFees(w, parsed) ==
    /\ Enter(w, "fees", "fees", NoUser, 0, parsed)
    /\ UNCHANGED <<mem, rows, hardMin, fundMin, fees, settings, inDoubt, accepting, restarts,
                   unsaved, acked>>

\* set one after the other; the others stay.
SetFee(w, k) ==
    /\ call[w].pc = "fees" /\ call[w].m[k] # NoFee
    /\ fees' = [fees EXCEPT ![k] = call[w].m[k]]
    /\ call' = [call EXCEPT ![w].m[k] = NoFee]
    /\ UNCHANGED <<mem, rows, hardMin, fundMin, settings, inDoubt, accepting, commands, restarts,
                   raced, unsaved, acked>>

\* FeesString: the whole map is read,
ReadFees(w) ==
    /\ call[w].pc = "fees" /\ \A k \in FeeKeys : call[w].m[k] = NoFee
    /\ call' = [call EXCEPT ![w].pc = "saveFees", ![w].m = fees]
    /\ UNCHANGED <<mem, rows, hardMin, fundMin, fees, settings, inDoubt, accepting, commands,
                   restarts, raced, unsaved, acked>>

\* and saved.
PersistFees(w) == call[w].pc = "saveFees" /\ SaveSetting(w, "fees", call[w].m)

-----------------------------------------------------------------------------
(* Late statements, stop and restart. *)

\* A statement the client gave up on takes effect after all: in the process that
\* sent it or in a later one, over whatever was saved in between.
AbandonedStatementRuns(s) ==
    /\ inDoubt' = inDoubt \ {s}
    /\ rows' = IF s.on \in Chats THEN [rows EXCEPT ![s.on] = s.u] ELSE rows
    /\ settings' = [hard |-> IF s.on = "hard" THEN {s.v} ELSE settings.hard,
                    fees |-> IF s.on = "fees" THEN {s.m} ELSE settings.fees]
    /\ unsaved' = unsaved \cup {s.on}
    /\ UNCHANGED <<mem, hardMin, fundMin, fees, call, accepting, commands, restarts, raced, acked>>

\* Cleanup begins; calls in progress go on until the process ends.
StopAccepting ==
    /\ accepting
    /\ accepting' = FALSE
    /\ UNCHANGED <<mem, rows, hardMin, fundMin, fees, settings, inDoubt, call, commands, restarts,
                   raced, unsaved, acked>>

\* scanUser and the checks of Run: the row's spread is raised to the floor;
\* update_step is read but never assigned.
Loaded(u, floor) ==
    IF u = NoUser THEN NoUser
    ELSE [u EXCEPT !.spread = Max({@, floor}), !.set["step"] = 0]

\* The stored setting, or the environment's if there is none or it cannot be read.
Stored(key, env, read) == IF read /\ settings[key] # {} THEN settings[key] ELSE {env}

\* The process ends at any point, perhaps with statements on their way, and a new
\* one loads the two settings (an error is only logged and leaves the
\* environment's value) and then the users. A process that cannot read the users
\* does not run.
Restart(hardRead, feesRead) ==
    /\ restarts < MaxRestarts
    /\ restarts' = restarts + 1
    /\ \E onTheirWay \in SUBSET Saving :
        inDoubt' = inDoubt \cup {Statement(w) : w \in onTheirWay}
    /\ Cardinality(inDoubt') <= MaxAbandoned
    /\ hardMin' \in Stored("hard", EnvFloor, hardRead)
    /\ fundMin' = hardMin'
    /\ fees' \in Stored("fees", EnvFees, feesRead)
    /\ mem' = [c \in Chats |-> Loaded(rows[c], hardMin')]
    /\ call' = [w \in Workers |-> NoCall]
    /\ accepting' = TRUE
    /\ raced' = {} /\ acked' = rows
    /\ unsaved' = (IF hardRead THEN {} ELSE {"hard"}) \cup (IF feesRead THEN {} ELSE {"fees"})
    /\ UNCHANGED <<rows, settings, commands>>

-----------------------------------------------------------------------------
CommandStep(w) ==
    \/ \E c \in Chats :
        \/ Start(w, c) \/ Stop(w, c)
        \/ \E s \in Spreads : SetCross(w, c, s)
        \/ \E f \in Fields, v \in Values : SetField(w, c, f, v)
    \/ SaveUser(w) \/ DeleteUser(w) \/ SetUser(w)
    \/ \E s \in Spreads : SetHardSpread(w, s)
    \/ SetHardMinSpread(w) \/ PersistHard(w)
    \/ \E parsed \in FeeMaps \ {[k \in FeeKeys |-> NoFee]} : SetFees(w, parsed)
    \/ \E k \in FeeKeys : SetFee(w, k)
    \/ ReadFees(w) \/ PersistFees(w)

Next ==
    \/ \E w \in Workers : CommandStep(w)
    \/ \E s \in inDoubt : AbandonedStatementRuns(s)
    \/ StopAccepting
    \/ \E hardRead, feesRead \in BOOLEAN : Restart(hardRead, feesRead)

Spec == Init /\ [][Next]_vars

-----------------------------------------------------------------------------
(* Properties. *)

\* Type correctness of the memory, the tables and the command workers.
TypeOK ==
    /\ mem \in [Chats -> Users \cup {NoUser}] /\ rows \in [Chats -> Users \cup {NoUser}]
    /\ hardMin \in Spreads /\ fundMin \in Spreads
    /\ fees \in FeeMaps
    /\ settings \in [hard : SUBSET Spreads, fees : SUBSET FeeMaps]
    /\ inDoubt \subseteq Statements
    /\ call \in [Workers -> Calls]
    /\ accepting \in BOOLEAN /\ commands \in 0..MaxCommands /\ restarts \in 0..MaxRestarts
    /\ raced \subseteq Targets /\ unsaved \subseteq Targets
    /\ acked \in [Chats -> Users \cup {NoUser}]

\* The threshold at which routes open (the configuration's) and the one funding
\* is judged by are the same, except while /sethardspread is at work or after
\* two of them have raced; a failed save does not part them (app.go:615).
FloorsAgree == Busy("hard") = {} /\ "hard" \notin raced => fundMin = hardMin

Quiet(t) == Busy(t) = {} /\ t \notin raced \cup unsaved

\* A restart at any point, in the middle of other chats' commands too, loses no
\* setting that was acknowledged: a chat nobody works on gets back what its last
\* acknowledged command set (but the update step, which scanUser drops,
\* repo.go:345, and a spread below the floor, which is raised), and the hard
\* floor (README.md:113) and the fees are kept, unless the setting could not be
\* read. Where commands raced the last one may be lost, and so may one that was
\* saved before an abandoned statement ran late on the same row (repo.go:256): the
\* next undisturbed save of the row ends either exception.
RestartKeepsSettings ==
    [][restarts' # restarts =>
        /\ \A c \in Chats : Quiet(c) => mem'[c] = Loaded(acked[c], hardMin')
        /\ Quiet("hard") /\ "hard" \notin unsaved' => hardMin' = hardMin
        /\ Quiet("fees") /\ "fees" \notin unsaved' => fees' = fees]_vars
=============================================================================
