------------------------- MODULE UserCommandsProofs -------------------------
(* Proofs about UserCommands, for any chats, workers, settings and fees.    *)
EXTENDS UserCommands, TLAPS

-----------------------------------------------------------------------------
(* The inductive invariant. *)

\* What a call works on, by where it is.
CallInv ==
    \A w \in Workers :
        /\ call[w].pc \in {"save", "delete", "set"} => call[w].on \in Chats
        /\ call[w].pc \in {"hard", "saveHard"} => call[w].on = "hard" /\ call[w].v \in Spreads
        /\ call[w].pc \in {"fees", "saveFees"} => call[w].on = "fees"
        /\ call[w].pc = "delete" => call[w].u = NoUser

\* A call that is marked as alone has its target for itself, and the target of
\* any other call counts as raced.
LoneInv ==
    \A w \in Workers : call[w].pc # "idle" =>
        IF call[w].lone THEN Busy(call[w].on) = {w} ELSE call[w].on \in raced

\* The floors, while a call that is alone changes them and when none does.
FloorInv ==
    /\ \A w \in Workers : call[w].lone =>
        /\ call[w].pc = "hard" => fundMin = call[w].v
        /\ call[w].pc = "saveHard" => fundMin = call[w].v /\ hardMin = call[w].v
    /\ FloorsAgree

\* What a restart would read is what holds, unless the target is raced, unsaved
\* or at work; a call that is alone has saved what it is about to set, unless a
\* late statement has overwritten it since.
StoredInv ==
    /\ \A w \in Workers : call[w].lone =>
        /\ call[w].pc = "set" /\ call[w].on \notin unsaved => rows[call[w].on] = call[w].u
        /\ call[w].pc \in {"save", "delete"} /\ call[w].on \notin raced \cup unsaved =>
            rows[call[w].on] = acked[call[w].on]
        /\ call[w].pc = "saveFees" => call[w].m = fees
    /\ \A c \in Chats : Quiet(c) => rows[c] = acked[c]
    /\ \A x, y \in settings.hard : x = y
    /\ \A x, y \in settings.fees : x = y
    /\ Quiet("hard") => Stored("hard", EnvFloor, TRUE) = {hardMin}
    /\ Quiet("fees") => Stored("fees", EnvFees, TRUE) = {fees}

IInv == TypeOK /\ CallInv /\ LoneInv /\ FloorInv /\ StoredInv

-----------------------------------------------------------------------------
(* Lemmas about the operators. *)

\* The fields of a call.
LEMMA CallFields ==
    ASSUME NEW k \in Calls
    PROVE  /\ k.on \in Targets /\ k.u \in Users \cup {NoUser} /\ k.v \in 0..MaxSpread
           /\ k.m \in FeeMaps /\ k.lone \in BOOLEAN
  BY DEF Calls

\* The mark a competitor leaves on a call.
LEMMA CallMarked ==
    ASSUME NEW k \in Calls
    PROVE  /\ [k EXCEPT !.lone = FALSE] \in Calls
           /\ [k EXCEPT !.lone = FALSE].pc = k.pc /\ [k EXCEPT !.lone = FALSE].on = k.on
           /\ [k EXCEPT !.lone = FALSE].u = k.u /\ [k EXCEPT !.lone = FALSE].v = k.v
           /\ [k EXCEPT !.lone = FALSE].m = k.m /\ ~ [k EXCEPT !.lone = FALSE].lone
  BY DEF Calls

\* The larger of two spreads is a spread, and is one of the two.
LEMMA MaxOfTwo ==
    ASSUME NEW x \in Int, NEW y \in Int
    PROVE  Max({x, y}) \in {x, y} /\ Max({x, y}) >= x /\ Max({x, y}) >= y
<1>1. \E z \in {x, y} : \A a \in {x, y} : z >= a
  <2>1. CASE x >= y
    BY <2>1
  <2>2. CASE ~(x >= y)
    BY <2>2
  <2> QED
    BY <2>1, <2>2
<1> QED
  BY <1>1 DEF Max

\* The defaults of a new user, his settings and the idle call are well typed.
LEMMA Defaults ==
    /\ EnvFees \in FeeMaps /\ EnvFloor \in Spreads /\ NoCall \in Calls
    /\ {"hard", "fees"} \subseteq Targets /\ Chats \subseteq Targets
    /\ NoCall.pc = "idle"
<1>1. EnvFees \in FeeMaps
  BY DEF EnvFees, FeeMaps, Values
<1>2. NoCall \in Calls
  BY <1>1, CommandAssumption DEF CommandAssumption, NoCall, Calls, Targets
<1> QED
  BY <1>1, <1>2, CommandAssumption DEF CommandAssumption, Targets, NoCall

\* A call that goes on keeps all but its place.
LEMMA StepCall ==
    ASSUME TypeOK, NEW w \in Workers,
           NEW p \in {"idle", "save", "delete", "set", "hard", "saveHard", "fees", "saveFees"},
           Step(w, p)
    PROVE  /\ call' \in [Workers -> Calls]
           /\ call'[w].pc = p /\ call'[w].on = call[w].on /\ call'[w].u = call[w].u
           /\ call'[w].v = call[w].v /\ call'[w].m = call[w].m /\ call'[w].lone = call[w].lone
           /\ \A x \in Workers : x # w => call'[x] = call[x]
<1> DEFINE k == [call[w] EXCEPT !.pc = p]
<1>1. call' = [call EXCEPT ![w] = k] /\ call[w] \in Calls
  BY DEF Step, TypeOK
<1>2. /\ k \in Calls /\ k.pc = p /\ k.on = call[w].on /\ k.u = call[w].u /\ k.v = call[w].v
      /\ k.m = call[w].m /\ k.lone = call[w].lone
  BY <1>1 DEF Calls
<1> HIDE DEF k
<1>3. call' \in [Workers -> Calls] /\ call'[w] = k /\ \A x \in Workers : x # w => call'[x] = call[x]
  BY <1>1, <1>2 DEF TypeOK
<1> QED
  BY <1>2, <1>3

\* A call that returns leaves the worker idle.
LEMMA ReturnCall ==
    ASSUME TypeOK, NEW w \in Workers, Return(w)
    PROVE  /\ call' \in [Workers -> Calls] /\ call'[w] = NoCall
           /\ \A x \in Workers : x # w => call'[x] = call[x]
  BY Defaults DEF Return, TypeOK

\* What a call has asked of the server is a statement, and so is what is in doubt
\* after a failure.
LEMMA StatementTyped ==
    ASSUME TypeOK, CallInv, NEW w \in Saving
    PROVE  Statement(w) \in Statements
<1>1. w \in Workers /\ call[w].pc \in {"save", "delete", "saveHard", "saveFees"}
  BY DEF Saving
<1>2. call[w] \in Calls
  BY <1>1 DEF TypeOK
<1>3. call[w].on = "hard" => call[w].v \in Spreads
  BY <1>1, CommandAssumption DEF CommandAssumption, CallInv
<1> QED
  BY <1>2, <1>3, CallFields DEF Statement, Statements

LEMMA FailsTyped ==
    ASSUME TypeOK, CallInv, NEW w \in Saving, Fails(w)
    PROVE  inDoubt' \subseteq Statements
  BY StatementTyped DEF Fails, TypeOK

\* A call that begins: alone, or its competitors are marked and the target is
\* raced.
LEMMA EnterCall ==
    ASSUME IInv, NEW w \in Workers, NEW t \in Targets,
           NEW p \in {"save", "delete", "hard", "fees"},
           NEW u \in Users \cup {NoUser}, NEW v \in 0..MaxSpread, NEW m \in FeeMaps,
           Enter(w, t, p, u, v, m)
    PROVE  /\ call' \in [Workers -> Calls]
           /\ call'[w].pc = p /\ call'[w].on = t /\ call'[w].u = u /\ call'[w].v = v
           /\ call'[w].lone <=> Busy(t) = {}
           /\ \A x \in Workers : x # w =>
                /\ call'[x].pc = call[x].pc /\ call'[x].on = call[x].on /\ call'[x].u = call[x].u
                /\ call'[x].v = call[x].v /\ call'[x].m = call[x].m
                /\ call'[x].lone => call[x].lone
                /\ x \in Busy(t) => ~call'[x].lone
                /\ x \notin Busy(t) => call'[x] = call[x]
           /\ w \notin Busy(t) /\ Busy(t)' = Busy(t) \cup {w}
           /\ \A s : s # t => Busy(s)' = Busy(s)
           /\ raced \subseteq raced' /\ raced' \subseteq raced \cup {t}
           /\ Busy(t) # {} => t \in raced'
           /\ commands' \in 0..MaxCommands
           /\ LoneInv'
<1> DEFINE k == [pc |-> p, on |-> t, u |-> u, v |-> v, m |-> m, lone |-> Busy(t) = {}]
<1>1. k \in Calls
  <2>1. (Busy(t) = {}) \in BOOLEAN
    OBVIOUS
  <2> QED
    BY <2>1, Defaults DEF Calls
<1>2. \A x \in Workers : call[x] \in Calls
  BY DEF IInv, TypeOK
<1>3. call' = [x \in Workers |->
                 IF x = w THEN k
                 ELSE IF x \in Busy(t) THEN [call[x] EXCEPT !.lone = FALSE] ELSE call[x]]
  BY DEF Enter
<1>4. call'[w] = k
  BY <1>3
<1>5. \A x \in Workers : x # w => call'[x] = IF x \in Busy(t) THEN [call[x] EXCEPT !.lone = FALSE] ELSE call[x]
  BY <1>3
<1>6. call' \in [Workers -> Calls]
  BY <1>1, <1>2, <1>3, CallMarked
<1>7. call'[w].pc = p /\ call'[w].on = t /\ call'[w].u = u /\ call'[w].v = v /\ (call'[w].lone <=> Busy(t) = {})
  <2>1. k.pc = p /\ k.on = t /\ k.u = u /\ k.v = v
    OBVIOUS
  <2>2. k.lone <=> Busy(t) = {}
    BY Zenon
  <2> QED
    BY <1>4, <2>1, <2>2
<1>8. \A x \in Workers : x # w =>
        /\ call'[x].pc = call[x].pc /\ call'[x].on = call[x].on /\ call'[x].u = call[x].u
        /\ call'[x].v = call[x].v /\ call'[x].m = call[x].m
        /\ call'[x].lone => call[x].lone
        /\ x \in Busy(t) => ~call'[x].lone
        /\ x \notin Busy(t) => call'[x] = call[x]
  BY <1>2, <1>5, CallMarked
<1>9. call[w].pc = "idle"
  BY DEF Enter
<1> HIDE DEF k
<1>10. w \notin Busy(t) /\ Busy(t)' = Busy(t) \cup {w} /\ \A s : s # t => Busy(s)' = Busy(s)
  BY <1>7, <1>8, <1>9 DEF Busy
<1>11. raced \subseteq raced' /\ raced' \subseteq raced \cup {t} /\ (Busy(t) # {} => t \in raced')
  BY DEF Enter
<1>12. commands' \in 0..MaxCommands
  BY CommandAssumption DEF CommandAssumption, Enter, IInv, TypeOK
<1>13. LoneInv'
  <2> SUFFICES ASSUME NEW x \in Workers, call'[x].pc # "idle"
               PROVE  IF call'[x].lone THEN Busy(call[x].on)' = {x} ELSE call'[x].on \in raced'
    BY DEF LoneInv
  <2>1. CASE x = w
    BY <1>7, <1>8, <1>10, <1>11, <2>1 DEF Busy
  <2>2. CASE x # w /\ x \in Busy(t)
    BY <1>8, <1>11, <2>2 DEF Busy
  <2>3. CASE x # w /\ x \notin Busy(t)
    <3>1. call'[x] = call[x] /\ call[x].on # t /\ call[x].pc # "idle"
      BY <1>8, <2>3 DEF Busy
    <3>2. IF call[x].lone THEN Busy(call[x].on) = {x} ELSE call[x].on \in raced
      BY <3>1 DEF IInv, LoneInv
    <3> QED
      BY <1>7, <1>8, <1>9, <1>11, <2>3, <3>1, <3>2 DEF Busy
  <2> QED
    BY <2>1, <2>2, <2>3
<1> QED
  BY <1>6, <1>7, <1>8, <1>10, <1>11, <1>12, <1>13

\* A call in progress that is alone and another one never share a target.
LEMMA Apart ==
    ASSUME LoneInv, NEW w \in Workers, NEW x \in Workers, x # w,
           call[w].pc # "idle", call[x].pc # "idle", call[x].lone
    PROVE  call[x].on # call[w].on
  BY DEF LoneInv, Busy

\* A call that goes on keeps the marks right.
LEMMA LoneStep ==
    ASSUME LoneInv, NEW w \in Workers, call[w].pc # "idle", call'[w].pc # "idle",
           call'[w].on = call[w].on, call'[w].lone = call[w].lone,
           \A x \in Workers : x # w => call'[x] = call[x],
           raced' = raced
    PROVE  LoneInv' /\ \A t : Busy(t)' = Busy(t)
<1>1. \A t : Busy(t)' = Busy(t)
  BY DEF Busy
<1>2. \A x \in Workers : call'[x].on = call[x].on /\ call'[x].lone = call[x].lone
  OBVIOUS
<1>3. ASSUME NEW x \in Workers, call'[x].pc # "idle"
      PROVE  IF call'[x].lone THEN Busy(call[x].on)' = {x} ELSE call'[x].on \in raced'
  <2>1. call[x].pc # "idle"
    BY <1>3
  <2>2. IF call[x].lone THEN Busy(call[x].on) = {x} ELSE call[x].on \in raced
    BY <2>1 DEF LoneInv
  <2>3. Busy(call[x].on)' = Busy(call[x].on)
    BY <1>2 DEF Busy
  <2> QED
    BY <1>2, <2>2, <2>3
<1> QED
  BY <1>1, <1>3 DEF LoneInv

\* A call that returns, settled or not, leaves the marks right.
LEMMA LoneReturn ==
    ASSUME LoneInv, NEW w \in Workers, call[w].pc # "idle", call'[w] = NoCall,
           \A x \in Workers : x # w => call'[x] = call[x],
           raced' = raced \/ raced' = Settled(w, raced)
    PROVE  LoneInv' /\ \A t : Busy(t)' = Busy(t) \ {w}
<1>1. call'[w].pc = "idle"
  BY DEF NoCall
<1>2. \A t : Busy(t)' = Busy(t) \ {w}
  BY <1>1 DEF Busy
<1>3. ASSUME NEW x \in Workers, call'[x].pc # "idle"
      PROVE  IF call'[x].lone THEN Busy(call[x].on)' = {x} ELSE call'[x].on \in raced'
  <2>1. x # w /\ call'[x] = call[x] /\ call[x].pc # "idle"
    BY <1>1, <1>3
  <2>2. CASE call[x].lone
    <3>1. Busy(call[x].on) = {x}
      BY <2>1, <2>2 DEF LoneInv
    <3>2. Busy(call[x].on)' = {x}
      BY <1>1, <2>1, <3>1 DEF Busy
    <3> QED
      BY <2>1, <2>2, <3>2
  <2>3. CASE ~call[x].lone
    <3>1. call[x].on \in raced
      BY <2>1, <2>3 DEF LoneInv
    <3>2. call[w].lone => call[x].on # call[w].on
      BY <2>1, Apart
    <3> QED
      BY <2>1, <2>3, <3>1, <3>2 DEF Settled
  <2> QED
    BY <2>2, <2>3
<1> QED
  BY <1>2, <1>3 DEF LoneInv

-----------------------------------------------------------------------------
(* The commands of users. *)

\* /start, /stop, /setcross and the other settings begin.
LEMMA UserBegins ==
    ASSUME IInv, NEW w \in Workers, NEW c \in Chats, NEW p \in {"save", "delete"},
           NEW u \in Users \cup {NoUser}, p = "delete" => u = NoUser,
           Enter(w, c, p, u, 0, EnvFees),
           UNCHANGED <<mem, rows, hardMin, fundMin, fees, settings, inDoubt, accepting, restarts, unsaved, acked>>
    PROVE  IInv'
<1>1. c \in Targets /\ 0 \in 0..MaxSpread /\ c \notin {"hard", "fees"} /\ EnvFees \in FeeMaps
  BY Defaults, CommandAssumption DEF CommandAssumption, Targets
<1>2. /\ call' \in [Workers -> Calls]
      /\ call'[w].pc = p /\ call'[w].on = c /\ call'[w].u = u
      /\ call'[w].lone <=> Busy(c) = {}
      /\ Busy(c)' = Busy(c) \cup {w}
      /\ raced \subseteq raced' /\ raced' \subseteq raced \cup {c}
      /\ commands' \in 0..MaxCommands
      /\ LoneInv'
  <2>1. p \in {"save", "delete", "hard", "fees"}
    OBVIOUS
  <2>2. call' \in [Workers -> Calls] /\ call'[w].pc = p /\ call'[w].on = c /\ call'[w].u = u
    BY <1>1, <2>1, EnterCall
  <2>3. call'[w].lone <=> Busy(c) = {}
    BY <1>1, <2>1, EnterCall
  <2>4. Busy(c)' = Busy(c) \cup {w}
    BY <1>1, <2>1, EnterCall
  <2>5. raced \subseteq raced' /\ raced' \subseteq raced \cup {c} /\ commands' \in 0..MaxCommands
    BY <1>1, <2>1, EnterCall
  <2>6. LoneInv'
    BY <1>1, <2>1, EnterCall
  <2> QED
    BY <2>2, <2>3, <2>4, <2>5, <2>6
<1>3. \A x \in Workers : x # w =>
        /\ call'[x].pc = call[x].pc /\ call'[x].on = call[x].on /\ call'[x].u = call[x].u
        /\ call'[x].v = call[x].v /\ call'[x].m = call[x].m
        /\ call'[x].lone => call[x].lone
  BY <1>1, EnterCall
<1>4. \A s : s # c => Busy(s)' = Busy(s)
  BY <1>1, EnterCall
<1>5. TypeOK'
  BY <1>1, <1>2 DEF IInv, TypeOK
<1>6. CallInv'
  BY <1>2, <1>3 DEF IInv, CallInv
<1>7. \A s \in Targets : Quiet(s)' => s # c /\ Quiet(s)
  BY <1>2, <1>4 DEF Quiet
<1>8. FloorInv'
  BY <1>1, <1>2, <1>3, <1>4 DEF IInv, FloorInv, FloorsAgree
<1>9. StoredInv'
  <2>1. ASSUME NEW x \in Workers, call'[x].lone
        PROVE  /\ call'[x].pc = "set" /\ call'[x].on \notin unsaved => rows[call'[x].on] = call'[x].u
               /\ call'[x].pc \in {"save", "delete"} /\ call'[x].on \notin raced' \cup unsaved =>
                    rows[call'[x].on] = acked[call'[x].on]
               /\ call'[x].pc = "saveFees" => call'[x].m = fees
    <3>1. CASE x = w
      BY <1>2, <2>1, <3>1 DEF IInv, StoredInv, Quiet
    <3>2. CASE x # w
      BY <1>2, <1>3, <2>1, <3>2 DEF IInv, StoredInv
    <3> QED
      BY <3>1, <3>2
  <2>2. \A d \in Chats : Quiet(d)' => rows[d] = acked[d]
    BY <1>7, Defaults DEF IInv, StoredInv
  <2>3. /\ Quiet("hard")' => Stored("hard", EnvFloor, TRUE) = {hardMin}
        /\ Quiet("fees")' => Stored("fees", EnvFees, TRUE) = {fees}
    BY <1>7, Defaults DEF IInv, StoredInv
  <2> QED
    BY <2>1, <2>2, <2>3 DEF IInv, StoredInv, Stored
<1> QED
  BY <1>2, <1>5, <1>6, <1>8, <1>9 DEF IInv

\* The row is written and the call goes on.
LEMMA RowSaved ==
    ASSUME IInv, NEW w \in Workers, call[w].pc \in {"save", "delete"},
           rows' = [rows EXCEPT ![call[w].on] = call[w].u], Step(w, "set"),
           unsaved' = Settled(w, unsaved),
           UNCHANGED <<mem, hardMin, fundMin, fees, settings, inDoubt, accepting, commands, restarts, raced, acked>>
    PROVE  IInv'
<1>1. call[w].on \in Chats /\ call[w].u \in Users \cup {NoUser} /\ call[w].on \notin {"hard", "fees"}
  BY CallFields, CommandAssumption DEF CommandAssumption, IInv, TypeOK, CallInv
<1>2. /\ call' \in [Workers -> Calls]
      /\ call'[w].pc = "set" /\ call'[w].on = call[w].on /\ call'[w].u = call[w].u
      /\ call'[w].lone = call[w].lone
      /\ \A x \in Workers : x # w => call'[x] = call[x]
  BY StepCall DEF IInv
<1>3. LoneInv' /\ \A t : Busy(t)' = Busy(t)
  BY <1>2, LoneStep DEF IInv
<1>10. unsaved' \subseteq unsaved /\ unsaved \ {call[w].on} \subseteq unsaved'
  BY DEF Settled
<1>4. TypeOK'
  BY <1>1, <1>2, <1>10 DEF IInv, TypeOK
<1>5. CallInv'
  BY <1>1, <1>2 DEF IInv, CallInv
<1>6. FloorInv'
  BY <1>2, <1>3 DEF IInv, FloorInv, FloorsAgree
<1>7. \A s : Quiet(s)' => Quiet(s) /\ s # call[w].on
  BY <1>3, <1>10 DEF Quiet, Busy
<1>8. /\ rows'[call[w].on] = call[w].u
      /\ \A c \in Chats : c # call[w].on => rows'[c] = rows[c]
  BY <1>1 DEF IInv, TypeOK
<1>9. StoredInv'
  <2>1. ASSUME NEW x \in Workers, call'[x].lone
        PROVE  /\ call'[x].pc = "set" /\ call'[x].on \notin unsaved' => rows'[call'[x].on] = call'[x].u
               /\ call'[x].pc \in {"save", "delete"} /\ call'[x].on \notin raced \cup unsaved' =>
                    rows'[call'[x].on] = acked[call'[x].on]
               /\ call'[x].pc = "saveFees" => call'[x].m = fees
    <3>1. CASE x = w
      BY <1>2, <1>8, <3>1
    <3>2. CASE x # w
      <4>1. call'[x] = call[x] /\ call[x].lone
        BY <1>2, <2>1, <3>2
      <4>2. call[x].pc \in {"set", "save", "delete"} => call[x].on \in Chats /\ call[x].on # call[w].on
        BY <3>2, <4>1, Apart DEF IInv, CallInv
      <4> QED
        BY <1>8, <1>10, <4>1, <4>2 DEF IInv, StoredInv
    <3> QED
      BY <3>1, <3>2
  <2>2. \A c \in Chats : Quiet(c)' => rows'[c] = acked[c]
    BY <1>7, <1>8 DEF IInv, StoredInv
  <2>3. /\ Quiet("hard")' => Stored("hard", EnvFloor, TRUE) = {hardMin}
        /\ Quiet("fees")' => Stored("fees", EnvFees, TRUE) = {fees}
    BY <1>7 DEF IInv, StoredInv
  <2> QED
    BY <2>1, <2>2, <2>3 DEF IInv, StoredInv, Stored
<1> QED
  BY <1>3, <1>4, <1>5, <1>6, <1>9 DEF IInv

\* The write fails and the command ends: only the statements in doubt change.
LEMMA RowFailed ==
    ASSUME IInv, NEW w \in Workers, call[w].pc \in {"save", "delete"}, Return(w), Fails(w),
           UNCHANGED <<mem, rows, hardMin, fundMin, fees, settings, accepting, commands, restarts, raced, unsaved, acked>>
    PROVE  IInv'
<1>1. call[w].on \in Chats /\ call[w].on \notin {"hard", "fees"}
  BY CommandAssumption DEF CommandAssumption, IInv, CallInv
<1>2. /\ call' \in [Workers -> Calls] /\ call'[w] = NoCall /\ call'[w].pc = "idle"
      /\ \A x \in Workers : x # w => call'[x] = call[x]
  BY ReturnCall, Defaults DEF IInv
<1>3. LoneInv' /\ \A t : Busy(t)' = Busy(t) \ {w}
  BY <1>2, LoneReturn DEF IInv
<1>10. inDoubt' \subseteq Statements
  <2>1. w \in Saving
    BY DEF Saving
  <2> QED
    BY <2>1, FailsTyped DEF IInv
<1>4. TypeOK'
  BY <1>2, <1>10 DEF IInv, TypeOK
<1>5. CallInv'
  BY <1>2 DEF IInv, CallInv
<1>6. \A s : s # call[w].on => Busy(s)' = Busy(s)
  BY <1>3 DEF Busy
<1>7. FloorInv'
  BY <1>1, <1>2, <1>6 DEF IInv, FloorInv, FloorsAgree
<1>8. \A s : s # call[w].on /\ Quiet(s)' => Quiet(s)
  BY <1>6 DEF Quiet
<1>9. StoredInv'
  <2>1. \A x \in Workers : call'[x].lone =>
            /\ call'[x].pc = "set" /\ call'[x].on \notin unsaved => rows[call'[x].on] = call'[x].u
            /\ call'[x].pc \in {"save", "delete"} /\ call'[x].on \notin raced \cup unsaved =>
                rows[call'[x].on] = acked[call'[x].on]
            /\ call'[x].pc = "saveFees" => call'[x].m = fees
    BY <1>2 DEF IInv, StoredInv
  <2>2. ASSUME NEW c \in Chats, Quiet(c)' PROVE rows[c] = acked[c]
    <3>1. CASE c # call[w].on
      BY <1>8, <2>2, <3>1 DEF IInv, StoredInv
    <3>2. CASE c = call[w].on
      <4>1. c \notin raced \cup unsaved /\ call[w].lone
        BY <2>2, <3>2 DEF Quiet, IInv, LoneInv
      <4> QED
        BY <3>2, <4>1 DEF IInv, StoredInv
    <3> QED
      BY <3>1, <3>2
  <2>3. /\ Quiet("hard")' => Stored("hard", EnvFloor, TRUE) = {hardMin}
        /\ Quiet("fees")' => Stored("fees", EnvFees, TRUE) = {fees}
    BY <1>1, <1>8 DEF IInv, StoredInv
  <2> QED
    BY <2>1, <2>2, <2>3 DEF IInv, StoredInv, Stored
<1> QED
  BY <1>3, <1>4, <1>5, <1>7, <1>9 DEF IInv

\* The memory follows the row, and the command is acknowledged.
LEMMA UserSet ==
    ASSUME IInv, NEW w \in Workers, SetUser(w)
    PROVE  IInv'
<1>1. /\ call[w].pc = "set" /\ Return(w)
      /\ call[w].on \in Chats /\ call[w].u \in Users \cup {NoUser} /\ call[w].on \notin {"hard", "fees"}
  BY CallFields, CommandAssumption DEF CommandAssumption, IInv, TypeOK, CallInv, SetUser
<1>2. /\ call' \in [Workers -> Calls] /\ call'[w] = NoCall /\ call'[w].pc = "idle"
      /\ \A x \in Workers : x # w => call'[x] = call[x]
  BY <1>1, ReturnCall, Defaults DEF IInv
<1>3. LoneInv' /\ \A t : Busy(t)' = Busy(t) \ {w}
  BY <1>1, <1>2, LoneReturn DEF IInv, SetUser
<1>4. /\ raced' \subseteq raced /\ raced \ {call[w].on} \subseteq raced'
      /\ unsaved' = unsaved
      /\ ~call[w].lone => raced' = raced
  BY DEF SetUser, Settled
<1>5. TypeOK'
  BY <1>1, <1>2, <1>4 DEF IInv, TypeOK, SetUser
<1>6. CallInv'
  BY <1>2 DEF IInv, CallInv
<1>7. \A s : s # call[w].on => Busy(s)' = Busy(s)
  BY <1>3 DEF Busy
<1>8. FloorInv'
  BY <1>1, <1>2, <1>4, <1>7 DEF IInv, FloorInv, FloorsAgree, SetUser
<1>9. \A s : s # call[w].on /\ Quiet(s)' => Quiet(s)
  BY <1>4, <1>7 DEF Quiet
<1>10. /\ acked'[call[w].on] = call[w].u
       /\ \A c \in Chats : c # call[w].on => acked'[c] = acked[c]
       /\ UNCHANGED <<rows, fees, settings, hardMin>>
  BY <1>1 DEF IInv, TypeOK, SetUser
<1>11. StoredInv'
  <2>1. ASSUME NEW x \in Workers, call'[x].lone
        PROVE  /\ call'[x].pc = "set" /\ call'[x].on \notin unsaved' => rows[call'[x].on] = call'[x].u
               /\ call'[x].pc \in {"save", "delete"} /\ call'[x].on \notin raced' \cup unsaved' =>
                    rows[call'[x].on] = acked'[call'[x].on]
               /\ call'[x].pc = "saveFees" => call'[x].m = fees
    <3>1. CASE x = w
      BY <1>2, <3>1
    <3>2. CASE x # w
      <4>1. call'[x] = call[x] /\ call[x].lone
        BY <1>2, <2>1, <3>2
      <4>2. call[x].pc \in {"set", "save", "delete"} => call[x].on \in Chats /\ call[x].on # call[w].on
        BY <1>1, <3>2, <4>1, Apart DEF IInv, CallInv
      <4> QED
        BY <1>4, <1>10, <4>1, <4>2 DEF IInv, StoredInv
    <3> QED
      BY <3>1, <3>2
  <2>2. ASSUME NEW c \in Chats, Quiet(c)' PROVE rows[c] = acked'[c]
    <3>1. CASE c # call[w].on
      BY <1>9, <1>10, <2>2, <3>1 DEF IInv, StoredInv
    <3>2. CASE c = call[w].on
      <4>1. call[w].lone /\ call[w].on \notin unsaved
        BY <1>1, <1>4, <2>2, <3>2 DEF Quiet, IInv, LoneInv
      <4> QED
        BY <1>1, <1>10, <3>2, <4>1 DEF IInv, StoredInv
    <3> QED
      BY <3>1, <3>2
  <2>3. /\ Quiet("hard")' => Stored("hard", EnvFloor, TRUE) = {hardMin}
        /\ Quiet("fees")' => Stored("fees", EnvFees, TRUE) = {fees}
    BY <1>1, <1>9 DEF IInv, StoredInv
  <2> QED
    BY <1>10, <2>1, <2>2, <2>3 DEF IInv, StoredInv, Stored
<1> QED
  BY <1>3, <1>5, <1>6, <1>8, <1>11 DEF IInv

-----------------------------------------------------------------------------
(* The operator's settings. *)

\* /sethardspread begins: the funding manager's floor is the call's.
LEMMA HardBegins ==
    ASSUME IInv, NEW w \in Workers, NEW s \in Spreads, SetHardSpread(w, s)
    PROVE  IInv'
<1>1. /\ "hard" \in Targets /\ s \in 0..MaxSpread /\ s \in Spreads /\ NoUser \in Users \cup {NoUser}
      /\ Enter(w, "hard", "hard", NoUser, s, EnvFees) /\ EnvFees \in FeeMaps
      /\ "hard" \in {"save", "delete", "hard", "fees"}
  BY Defaults, CommandAssumption DEF CommandAssumption, Targets, Spreads, SetHardSpread
<1>2. call' \in [Workers -> Calls] /\ call'[w].pc = "hard" /\ call'[w].on = "hard" /\ call'[w].v = s
  <2>1. call' \in [Workers -> Calls]
    BY <1>1, EnterCall
  <2>2. call'[w].pc = "hard" /\ call'[w].on = "hard"
    BY <1>1, EnterCall
  <2>3. call'[w].v = s
    BY <1>1, EnterCall
  <2> QED
    BY <2>1, <2>2, <2>3
<1>3. Busy("hard")' = Busy("hard") \cup {w} /\ \A t : t # "hard" => Busy(t)' = Busy(t)
  BY <1>1, EnterCall
<1>4. raced \subseteq raced' /\ raced' \subseteq raced \cup {"hard"} /\ commands' \in 0..MaxCommands
  BY <1>1, EnterCall
<1>5. LoneInv'
  BY <1>1, EnterCall
<1>6. \A x \in Workers : x # w =>
        /\ call'[x].pc = call[x].pc /\ call'[x].on = call[x].on /\ call'[x].u = call[x].u
        /\ call'[x].v = call[x].v /\ call'[x].m = call[x].m
        /\ call'[x].lone => call[x].lone
        /\ x \in Busy("hard") => ~call'[x].lone
  BY <1>1, EnterCall
<1>7. TypeOK'
  BY <1>1, <1>2, <1>4 DEF IInv, TypeOK, SetHardSpread
<1>8. CallInv'
  BY <1>1, <1>2, <1>6 DEF IInv, CallInv
<1>9. FloorInv'
  <2>1. \A x \in Workers : x # w /\ call[x].pc \in {"hard", "saveHard"} => ~call'[x].lone
    BY <1>6 DEF IInv, CallInv, Busy
  <2>2. fundMin' = s /\ Busy("hard")' # {}
    BY <1>3 DEF SetHardSpread
  <2> QED
    BY <1>2, <1>6, <2>1, <2>2 DEF FloorInv, FloorsAgree
<1>10. \A t : Quiet(t)' => t # "hard" /\ Quiet(t)
  BY <1>3, <1>4 DEF Quiet, SetHardSpread
<1>11. StoredInv'
  <2>1. UNCHANGED <<rows, acked, fees, settings, hardMin, unsaved>>
    BY DEF SetHardSpread
  <2>2. ASSUME NEW x \in Workers, call'[x].lone
        PROVE  /\ call'[x].pc = "set" /\ call'[x].on \notin unsaved => rows[call'[x].on] = call'[x].u
               /\ call'[x].pc \in {"save", "delete"} /\ call'[x].on \notin raced' \cup unsaved =>
                    rows[call'[x].on] = acked[call'[x].on]
               /\ call'[x].pc = "saveFees" => call'[x].m = fees
    <3>1. CASE x = w
      BY <1>2, <3>1
    <3>2. CASE x # w
      BY <1>4, <1>6, <2>2, <3>2 DEF IInv, StoredInv
    <3> QED
      BY <3>1, <3>2
  <2>3. /\ \A c \in Chats : Quiet(c)' => rows[c] = acked[c]
        /\ ~Quiet("hard")'
        /\ Quiet("fees")' => Stored("fees", EnvFees, TRUE) = {fees}
    BY <1>10 DEF IInv, StoredInv
  <2> QED
    BY <2>1, <2>2, <2>3 DEF IInv, StoredInv, Stored
<1> QED
  BY <1>5, <1>7, <1>8, <1>9, <1>11 DEF IInv

\* The configuration's floor follows.
LEMMA HardSet ==
    ASSUME IInv, NEW w \in Workers, SetHardMinSpread(w)
    PROVE  IInv'
<1>1. call[w].pc = "hard" /\ call[w].on = "hard" /\ call[w].v \in Spreads /\ Step(w, "saveHard")
  BY DEF IInv, CallInv, SetHardMinSpread
<1>2. /\ call' \in [Workers -> Calls]
      /\ call'[w].pc = "saveHard" /\ call'[w].on = "hard" /\ call'[w].v = call[w].v
      /\ call'[w].lone = call[w].lone
      /\ \A x \in Workers : x # w => call'[x] = call[x]
  BY <1>1, StepCall DEF IInv
<1>3. LoneInv' /\ \A t : Busy(t)' = Busy(t)
  BY <1>1, <1>2, LoneStep DEF IInv, SetHardMinSpread
<1>4. TypeOK'
  BY <1>1, <1>2 DEF IInv, TypeOK, SetHardMinSpread
<1>5. CallInv'
  BY <1>1, <1>2 DEF IInv, CallInv
<1>6. w \in Busy("hard")
  BY <1>1 DEF Busy
<1>7. \A x \in Workers : x # w /\ call[x].pc \in {"hard", "saveHard"} => ~call[x].lone
  BY <1>1, Apart DEF IInv, CallInv
<1>8. FloorInv'
  BY <1>1, <1>2, <1>3, <1>6, <1>7 DEF IInv, FloorInv, FloorsAgree, SetHardMinSpread
<1>9. \A t : Quiet(t)' => t # "hard" /\ Quiet(t)
  BY <1>3, <1>6 DEF Quiet, SetHardMinSpread
<1>10. StoredInv'
  <2>1. UNCHANGED <<rows, acked, fees, settings, raced, unsaved>>
    BY DEF SetHardMinSpread
  <2>2. /\ \A c \in Chats : Quiet(c)' => rows[c] = acked[c]
        /\ ~Quiet("hard")'
        /\ Quiet("fees")' => Stored("fees", EnvFees, TRUE) = {fees}
    BY <1>9 DEF IInv, StoredInv
  <2> QED
    BY <1>2, <2>1, <2>2 DEF IInv, StoredInv, Stored
<1> QED
  BY <1>3, <1>4, <1>5, <1>8, <1>10 DEF IInv

\* The floor or the fees are saved, or hold until the restart only; what is
\* saved is what holds if the call was alone.
LEMMA SettingSaved ==
    ASSUME IInv, NEW w \in Workers, NEW key \in {"hard", "fees"}, NEW value,
           \/ key = "hard" /\ call[w].pc = "saveHard" /\ value = call[w].v
           \/ key = "fees" /\ call[w].pc = "saveFees" /\ value = call[w].m,
           SaveSetting(w, key, value)
    PROVE  IInv'
<1>1. /\ call[w].pc # "idle" /\ call[w].on = key /\ Return(w)
      /\ key = "hard" => value \in Spreads
      /\ key = "fees" => value \in FeeMaps
      /\ key \in Targets /\ key \notin Chats
  BY CallFields, CommandAssumption DEF CommandAssumption, IInv, TypeOK, CallInv, SaveSetting, Targets
<1>2. /\ call' \in [Workers -> Calls] /\ call'[w] = NoCall /\ call'[w].pc = "idle"
      /\ \A x \in Workers : x # w => call'[x] = call[x]
  BY <1>1, ReturnCall, Defaults DEF IInv
<1>3. LoneInv' /\ \A t : Busy(t)' = Busy(t) \ {w}
  BY <1>1, <1>2, LoneReturn DEF IInv, SaveSetting
<1>4. /\ raced' \subseteq raced /\ raced \ {key} \subseteq raced'
      /\ unsaved' \subseteq unsaved \cup {key} /\ unsaved \ {key} \subseteq unsaved'
      /\ ~call[w].lone => raced' = raced
  BY <1>1 DEF SaveSetting, Settled
<1>5. UNCHANGED <<mem, rows, hardMin, fundMin, fees, accepting, commands, restarts, acked>>
  BY DEF SaveSetting
<1>6. /\ settings' \in [hard : SUBSET Spreads, fees : SUBSET FeeMaps]
      /\ key = "hard" => settings'.fees = settings.fees
      /\ key = "fees" => settings'.hard = settings.hard
      /\ settings'[key] = {value} \/ (settings' = settings /\ key \in unsaved')
  <2>1. settings \in [hard : SUBSET Spreads, fees : SUBSET FeeMaps]
    BY DEF IInv, TypeOK
  <2>2. CASE settings' = [settings EXCEPT !["hard"] = {value}] /\ key = "hard"
    BY <1>1, <2>1, <2>2
  <2>3. CASE settings' = [settings EXCEPT !["fees"] = {value}] /\ key = "fees"
    BY <1>1, <2>1, <2>3
  <2>4. CASE settings' = settings /\ key \in unsaved'
    BY <2>1, <2>4
  <2> QED
    BY <2>2, <2>3, <2>4 DEF SaveSetting
<1>14. inDoubt' \subseteq Statements
  <2>1. w \in Saving
    BY DEF Saving
  <2> QED
    BY <2>1, FailsTyped DEF SaveSetting, IInv, TypeOK
<1>7. TypeOK'
  BY <1>1, <1>2, <1>4, <1>5, <1>6, <1>14 DEF IInv, TypeOK
<1>8. CallInv'
  BY <1>2 DEF IInv, CallInv
<1>9. \A s : s # key => Busy(s)' = Busy(s)
  BY <1>1, <1>3 DEF Busy
<1>10. \A s : s # key /\ Quiet(s)' => Quiet(s)
  BY <1>4, <1>9 DEF Quiet
<1>11. key \notin raced' => call[w].lone
  BY <1>1, <1>4 DEF IInv, LoneInv
<1>12. FloorInv'
  <2>1. FloorsAgree'
    BY <1>1, <1>4, <1>5, <1>9, <1>11 DEF IInv, FloorInv, FloorsAgree
  <2> QED
    BY <1>2, <1>5, <2>1 DEF IInv, FloorInv
<1>13. StoredInv'
  <2>1. ASSUME NEW x \in Workers, call'[x].lone
        PROVE  /\ call'[x].pc = "set" /\ call'[x].on \notin unsaved' => rows[call'[x].on] = call'[x].u
               /\ call'[x].pc \in {"save", "delete"} /\ call'[x].on \notin raced' \cup unsaved' =>
                    rows[call'[x].on] = acked[call'[x].on]
               /\ call'[x].pc = "saveFees" => call'[x].m = fees
    <3>1. CASE x = w
      BY <1>2, <3>1
    <3>2. CASE x # w
      <4>1. call'[x] = call[x] /\ call[x].lone
        BY <1>2, <2>1, <3>2
      <4>2. call[x].pc \in {"set", "save", "delete"} => call[x].on # key
        BY <1>1, <4>1 DEF IInv, CallInv
      <4> QED
        BY <1>4, <4>1, <4>2 DEF IInv, StoredInv
    <3> QED
      BY <3>1, <3>2
  <2>2. \A c \in Chats : Quiet(c)' => rows[c] = acked[c]
    BY <1>1, <1>10 DEF IInv, StoredInv
  <2>3. (\A x, y \in settings'.hard : x = y) /\ (\A x, y \in settings'.fees : x = y)
    BY <1>6 DEF IInv, StoredInv
  <2>4. Quiet("hard")' => Stored("hard", EnvFloor, TRUE)' = {hardMin}
    <3>1. CASE key = "hard"
      BY <1>6, <1>11, <3>1 DEF IInv, FloorInv, Quiet, Stored
    <3>2. CASE key # "hard"
      <4>1. settings'.hard = settings.hard
        BY <1>6, <3>2
      <4> QED
        BY <1>10, <3>2, <4>1 DEF IInv, StoredInv, Stored
    <3> QED
      BY <3>1, <3>2
  <2>5. Quiet("fees")' => Stored("fees", EnvFees, TRUE)' = {fees}
    <3>1. CASE key = "fees"
      BY <1>6, <1>11, <3>1 DEF IInv, StoredInv, Quiet, Stored
    <3>2. CASE key # "fees"
      <4>1. settings'.fees = settings.fees
        BY <1>6, <3>2
      <4> QED
        BY <1>10, <3>2, <4>1 DEF IInv, StoredInv, Stored
    <3> QED
      BY <3>1, <3>2
  <2> QED
    BY <1>5, <2>1, <2>2, <2>3, <2>4, <2>5 DEF StoredInv
<1> QED
  BY <1>3, <1>7, <1>8, <1>12, <1>13 DEF IInv

\* /setfees begins.
LEMMA FeesBegin ==
    ASSUME IInv, NEW w \in Workers, NEW parsed \in FeeMaps, SetFees(w, parsed)
    PROVE  IInv'
<1>1. /\ "fees" \in Targets /\ 0 \in 0..MaxSpread /\ NoUser \in Users \cup {NoUser}
      /\ Enter(w, "fees", "fees", NoUser, 0, parsed)
      /\ "fees" \in {"save", "delete", "hard", "fees"}
  BY CommandAssumption DEF CommandAssumption, Targets, SetFees
<1>2. call' \in [Workers -> Calls] /\ call'[w].pc = "fees" /\ call'[w].on = "fees"
  BY <1>1, EnterCall
<1>3. Busy("fees")' = Busy("fees") \cup {w} /\ \A t : t # "fees" => Busy(t)' = Busy(t)
  BY <1>1, EnterCall
<1>4. raced \subseteq raced' /\ raced' \subseteq raced \cup {"fees"} /\ commands' \in 0..MaxCommands
  BY <1>1, EnterCall
<1>5. LoneInv'
  BY <1>1, EnterCall
<1>6. \A x \in Workers : x # w =>
        /\ call'[x].pc = call[x].pc /\ call'[x].on = call[x].on /\ call'[x].u = call[x].u
        /\ call'[x].v = call[x].v /\ call'[x].m = call[x].m
        /\ call'[x].lone => call[x].lone
  BY <1>1, EnterCall
<1>7. TypeOK'
  BY <1>1, <1>2, <1>4 DEF IInv, TypeOK, SetFees
<1>8. CallInv'
  BY <1>2, <1>6 DEF IInv, CallInv
<1>9. FloorInv'
  BY <1>2, <1>3, <1>4, <1>6 DEF IInv, FloorInv, FloorsAgree, SetFees
<1>10. \A t : Quiet(t)' => t # "fees" /\ Quiet(t)
  BY <1>3, <1>4 DEF Quiet, SetFees
<1>11. StoredInv'
  <2>1. UNCHANGED <<rows, acked, fees, settings, hardMin, unsaved>>
    BY DEF SetFees
  <2>2. ASSUME NEW x \in Workers, call'[x].lone
        PROVE  /\ call'[x].pc = "set" /\ call'[x].on \notin unsaved => rows[call'[x].on] = call'[x].u
               /\ call'[x].pc \in {"save", "delete"} /\ call'[x].on \notin raced' \cup unsaved =>
                    rows[call'[x].on] = acked[call'[x].on]
               /\ call'[x].pc = "saveFees" => call'[x].m = fees
    <3>1. CASE x = w
      BY <1>2, <3>1
    <3>2. CASE x # w
      BY <1>4, <1>6, <2>2, <3>2 DEF IInv, StoredInv
    <3> QED
      BY <3>1, <3>2
  <2>3. /\ \A c \in Chats : Quiet(c)' => rows[c] = acked[c]
        /\ ~Quiet("fees")'
        /\ Quiet("hard")' => Stored("hard", EnvFloor, TRUE) = {hardMin}
    BY <1>10 DEF IInv, StoredInv
  <2> QED
    BY <2>1, <2>2, <2>3 DEF IInv, StoredInv, Stored
<1> QED
  BY <1>5, <1>7, <1>8, <1>9, <1>11 DEF IInv

\* One fee is set: no other call that is alone has read the fees.
LEMMA FeeSet ==
    ASSUME IInv, NEW w \in Workers, NEW k \in FeeKeys, SetFee(w, k)
    PROVE  IInv'
<1>1. call[w].pc = "fees" /\ call[w].on = "fees" /\ call[w] \in Calls /\ fees \in FeeMaps
  BY DEF IInv, TypeOK, CallInv, SetFee
<1> DEFINE m == [call[w].m EXCEPT ![k] = NoFee]
           q == [call[w] EXCEPT !.m = m]
<1>2. call' = [call EXCEPT ![w] = q] /\ fees' = [fees EXCEPT ![k] = call[w].m[k]]
  BY DEF SetFee, IInv, TypeOK
<1>3. call[w].m \in FeeMaps
  BY <1>1, CallFields
<1>4. m \in FeeMaps /\ fees' \in FeeMaps
  BY <1>1, <1>2, <1>3 DEF FeeMaps
<1> HIDE DEF m
<1>5. q \in Calls /\ q.pc = "fees" /\ q.on = "fees" /\ q.lone = call[w].lone
  BY <1>1, <1>4 DEF Calls
<1> HIDE DEF q
<1>6. /\ call' \in [Workers -> Calls] /\ call'[w] = q
      /\ \A x \in Workers : x # w => call'[x] = call[x]
  BY <1>2, <1>5 DEF IInv, TypeOK
<1>7. UNCHANGED <<mem, rows, hardMin, fundMin, settings, inDoubt, accepting, commands, restarts, raced, unsaved, acked>>
  BY DEF SetFee
<1>8. LoneInv' /\ \A t : Busy(t)' = Busy(t)
  BY <1>1, <1>5, <1>6, <1>7, LoneStep DEF IInv
<1>9. TypeOK' /\ CallInv'
  BY <1>4, <1>5, <1>6, <1>7 DEF IInv, TypeOK, CallInv
<1>10. FloorInv'
  BY <1>5, <1>6, <1>7, <1>8 DEF IInv, FloorInv, FloorsAgree
<1>11. w \in Busy("fees")
  BY <1>1 DEF Busy
<1>12. \A t : Quiet(t)' => t # "fees" /\ Quiet(t)
  BY <1>7, <1>8, <1>11 DEF Quiet
<1>13. StoredInv'
  <2>1. \A x \in Workers : x # w /\ call[x].pc = "saveFees" => ~call[x].lone
    BY <1>1, Apart DEF IInv, CallInv
  <2>2. /\ \A c \in Chats : Quiet(c)' => rows[c] = acked[c]
        /\ ~Quiet("fees")'
        /\ Quiet("hard")' => Stored("hard", EnvFloor, TRUE) = {hardMin}
    BY <1>12 DEF IInv, StoredInv
  <2> QED
    BY <1>5, <1>6, <1>7, <2>1, <2>2 DEF IInv, StoredInv, Stored
<1> QED
  BY <1>8, <1>9, <1>10, <1>13 DEF IInv

\* The fees are read for the database.
LEMMA FeesRead ==
    ASSUME IInv, NEW w \in Workers, ReadFees(w)
    PROVE  IInv'
<1>1. call[w].pc = "fees" /\ call[w].on = "fees" /\ call[w] \in Calls /\ fees \in FeeMaps
  BY DEF IInv, TypeOK, CallInv, ReadFees
<1> DEFINE k == [call[w] EXCEPT !.pc = "saveFees", !.m = fees]
<1>2. call' = [call EXCEPT ![w] = k]
  BY DEF ReadFees, IInv, TypeOK
<1>3. /\ k \in Calls /\ k.pc = "saveFees" /\ k.on = "fees" /\ k.m = fees /\ k.lone = call[w].lone
  BY <1>1 DEF Calls
<1> HIDE DEF k
<1>4. /\ call' \in [Workers -> Calls] /\ call'[w] = k
      /\ \A x \in Workers : x # w => call'[x] = call[x]
  BY <1>2, <1>3 DEF IInv, TypeOK
<1>5. LoneInv' /\ \A t : Busy(t)' = Busy(t)
  BY <1>1, <1>3, <1>4, LoneStep DEF IInv, ReadFees
<1>6. UNCHANGED <<mem, rows, hardMin, fundMin, fees, settings, inDoubt, accepting, commands, restarts, raced, unsaved, acked>>
  BY DEF ReadFees
<1>7. TypeOK' /\ CallInv'
  BY <1>3, <1>4, <1>6 DEF IInv, TypeOK, CallInv
<1>8. FloorInv'
  BY <1>3, <1>4, <1>5, <1>6 DEF IInv, FloorInv, FloorsAgree
<1>9. \A t : Quiet(t)' => Quiet(t)
  BY <1>5, <1>6 DEF Quiet
<1>10. StoredInv'
  <2>1. /\ \A c \in Chats : Quiet(c)' => rows[c] = acked[c]
        /\ Quiet("hard")' => Stored("hard", EnvFloor, TRUE) = {hardMin}
        /\ Quiet("fees")' => Stored("fees", EnvFees, TRUE) = {fees}
    BY <1>9 DEF IInv, StoredInv
  <2> QED
    BY <1>3, <1>4, <1>6, <2>1 DEF IInv, StoredInv, Stored
<1> QED
  BY <1>5, <1>7, <1>8, <1>10 DEF IInv

-----------------------------------------------------------------------------
(* Stop, restart and the results. *)

\* Raising the spread to the floor and dropping the update step leave a user.
LEMMA LoadedTyped ==
    ASSUME NEW u \in Users \cup {NoUser}, NEW floor \in Spreads
    PROVE  Loaded(u, floor) \in Users \cup {NoUser}
<1>1. CASE u = NoUser
  BY <1>1 DEF Loaded
<1>2. CASE u # NoUser
  <2>1. u \in Users /\ u.spread \in Spreads /\ u.set \in [Fields -> Values]
    BY <1>2 DEF Users
  <2> DEFINE s == Max({u.spread, floor})
  <2>2. s \in Spreads
    <3>1. u.spread \in Int /\ floor \in Int
      BY <2>1 DEF Spreads
    <3> QED
      BY <2>1, <3>1, MaxOfTwo
  <2>3. Loaded(u, floor) = [u EXCEPT !.spread = s, !.set = [u.set EXCEPT !["step"] = 0]]
    BY <1>2 DEF Loaded
  <2> HIDE DEF s
  <2>4. [u.set EXCEPT !["step"] = 0] \in [Fields -> Values]
    BY <2>1 DEF Values
  <2> QED
    BY <2>1, <2>2, <2>3, <2>4 DEF Users
<1> QED
  BY <1>1, <1>2

\* A late statement overwrites its target, which from then on counts as unsaved.
LEMMA LateInv ==
    ASSUME IInv, NEW s \in inDoubt, AbandonedStatementRuns(s)
    PROVE  IInv'
<1>1. s.on \in Targets /\ s.u \in Users \cup {NoUser} /\ s.v \in 0..MaxSpread /\ s.m \in FeeMaps
  BY DEF IInv, TypeOK, Statements
<1>2. s.on = "hard" => s.v \in Spreads
  BY DEF IInv, TypeOK, Statements
<1>3. UNCHANGED <<mem, hardMin, fundMin, fees, call, accepting, commands, restarts, raced, acked>>
  BY DEF AbandonedStatementRuns
<1>4. /\ unsaved' = unsaved \cup {s.on} /\ inDoubt' \subseteq inDoubt
      /\ \A c \in Chats : c # s.on => rows'[c] = rows[c]
      /\ rows' \in [Chats -> Users \cup {NoUser}]
  BY <1>1 DEF AbandonedStatementRuns, IInv, TypeOK
<1>5. /\ settings'.hard = IF s.on = "hard" THEN {s.v} ELSE settings.hard
      /\ settings'.fees = IF s.on = "fees" THEN {s.m} ELSE settings.fees
  BY DEF AbandonedStatementRuns
<1>6. settings' \in [hard : SUBSET Spreads, fees : SUBSET FeeMaps]
  <2>1. settings.hard \in SUBSET Spreads /\ settings.fees \in SUBSET FeeMaps
    BY DEF IInv, TypeOK
  <2> QED
    BY <1>1, <1>2, <2>1 DEF AbandonedStatementRuns
<1>7. TypeOK'
  BY <1>1, <1>3, <1>4, <1>6 DEF IInv, TypeOK
<1>8. CallInv' /\ LoneInv' /\ FloorInv'
  BY <1>3, <1>4 DEF IInv, CallInv, LoneInv, FloorInv, FloorsAgree, Busy
<1>9. \A t : Quiet(t)' => t # s.on /\ Quiet(t)
  BY <1>3, <1>4 DEF Quiet, Busy
<1>10. StoredInv'
  <2>1. ASSUME NEW x \in Workers, call[x].lone
        PROVE  /\ call[x].pc = "set" /\ call[x].on \notin unsaved' => rows'[call[x].on] = call[x].u
               /\ call[x].pc \in {"save", "delete"} /\ call[x].on \notin raced \cup unsaved' =>
                    rows'[call[x].on] = acked[call[x].on]
               /\ call[x].pc = "saveFees" => call[x].m = fees
    BY <1>4, <2>1 DEF IInv, StoredInv, CallInv
  <2>2. \A c \in Chats : Quiet(c)' => rows'[c] = acked[c]
    BY <1>4, <1>9 DEF IInv, StoredInv
  <2>3. (\A x, y \in settings'.hard : x = y) /\ (\A x, y \in settings'.fees : x = y)
    BY <1>5 DEF IInv, StoredInv
  <2>4. /\ Quiet("hard")' => Stored("hard", EnvFloor, TRUE)' = {hardMin}
        /\ Quiet("fees")' => Stored("fees", EnvFees, TRUE)' = {fees}
    BY <1>5, <1>9 DEF IInv, StoredInv, Stored
  <2> QED
    BY <1>3, <2>1, <2>2, <2>3, <2>4 DEF StoredInv
<1> QED
  BY <1>7, <1>8, <1>10 DEF IInv

\* A restart begins from the tables.
LEMMA RestartInv ==
    ASSUME IInv, NEW hardRead \in BOOLEAN, NEW feesRead \in BOOLEAN, Restart(hardRead, feesRead)
    PROVE  IInv'
<1>1. /\ settings \in [hard : SUBSET Spreads, fees : SUBSET FeeMaps]
      /\ rows \in [Chats -> Users \cup {NoUser}]
  BY DEF IInv, TypeOK
<1>2. hardMin' \in Spreads /\ fees' \in FeeMaps
  BY <1>1, Defaults DEF Restart, Stored
<1>3. mem' \in [Chats -> Users \cup {NoUser}]
  BY <1>1, <1>2, LoadedTyped DEF Restart
<1>4. \A w \in Workers : call'[w] = NoCall /\ call'[w].pc = "idle"
  BY Defaults DEF Restart
<1>5. inDoubt' \subseteq Statements
  <2>1. PICK W \in SUBSET Saving : inDoubt' = inDoubt \cup {Statement(w) : w \in W}
    BY DEF Restart
  <2>2. \A w \in W : Statement(w) \in Statements
    BY StatementTyped DEF IInv
  <2> QED
    BY <2>1, <2>2 DEF IInv, TypeOK
<1>6. TypeOK'
  <2>1. unsaved' \subseteq Targets
    BY Defaults DEF Restart
  <2> QED
    BY <1>1, <1>2, <1>3, <1>5, <2>1, Defaults, CommandAssumption
       DEF CommandAssumption, Restart, IInv, TypeOK
<1>7. CallInv' /\ LoneInv'
  BY <1>4 DEF CallInv, LoneInv
<1>8. FloorInv'
  BY <1>4 DEF Restart, FloorInv, FloorsAgree
<1>9. StoredInv'
  <2>1. ("hard" \notin unsaved' => hardRead) /\ ("fees" \notin unsaved' => feesRead)
    BY DEF Restart
  <2>2. /\ hardRead => Stored("hard", EnvFloor, TRUE)' = {hardMin'}
        /\ feesRead => Stored("fees", EnvFees, TRUE)' = {fees'}
    BY <1>1 DEF Restart, Stored, IInv, StoredInv
  <2> QED
    BY <1>4, <2>1, <2>2 DEF Restart, IInv, StoredInv, Quiet
<1> QED
  BY <1>6, <1>7, <1>8, <1>9 DEF IInv

\* Nobody works, nothing is stored and memory is the environment's.
LEMMA InitInv == Init => IInv
<1> SUFFICES ASSUME Init PROVE IInv
  OBVIOUS
<1>1. \A w \in Workers : call[w] = NoCall /\ call[w].pc = "idle"
  BY Defaults DEF Init
<1>2. TypeOK
  <2>1. accepting \in BOOLEAN
    BY DEF Init
  <2>2. /\ commands \in 0..MaxCommands /\ restarts \in 0..MaxRestarts
        /\ hardMin \in Spreads /\ fundMin \in Spreads
    BY CommandAssumption DEF CommandAssumption, Init
  <2> QED
    BY <2>1, <2>2, Defaults DEF Init, TypeOK
<1>3. CallInv /\ LoneInv /\ FloorInv
  BY <1>1 DEF Init, CallInv, LoneInv, FloorInv, FloorsAgree
<1>4. StoredInv
  BY <1>1 DEF Init, StoredInv, Stored, Quiet
<1> QED
  BY <1>2, <1>3, <1>4 DEF IInv

\* A command of a chat begins with a well-typed user.
LEMMA UserCommandInv ==
    ASSUME IInv, NEW w \in Workers, NEW c \in Chats,
           \/ Start(w, c) \/ Stop(w, c)
           \/ \E s \in Spreads : SetCross(w, c, s)
           \/ \E f \in Fields, v \in Values : SetField(w, c, f, v)
    PROVE  IInv'
<1>1. hardMin \in Spreads /\ mem[c] \in Users \cup {NoUser}
  BY DEF IInv, TypeOK
<1>2. CASE Start(w, c)
  <2>1. NewUser \in Users \cup {NoUser}
    BY <1>1 DEF NewUser, Users, Values
  <2> QED
    BY <1>2, <2>1, UserBegins DEF Start
<1>3. CASE Stop(w, c)
  BY <1>3, UserBegins DEF Stop
<1>4. ASSUME NEW s \in Spreads, SetCross(w, c, s) PROVE IInv'
  <2> DEFINE m == Max({s, hardMin})
  <2>1. m \in Spreads
    <3>1. s \in Int /\ hardMin \in Int
      BY <1>1 DEF Spreads
    <3> QED
      BY <1>1, <3>1, MaxOfTwo
  <2> HIDE DEF m
  <2>2. mem[c] \in Users
    BY <1>1, <1>4 DEF SetCross
  <2>3. [mem[c] EXCEPT !.spread = m] \in Users \cup {NoUser}
    BY <2>1, <2>2 DEF Users
  <2>4. Enter(w, c, "save", [mem[c] EXCEPT !.spread = m], 0, EnvFees)
    BY <1>4 DEF SetCross, m
  <2> QED
    BY <1>4, <2>3, <2>4, UserBegins DEF SetCross
<1>5. ASSUME NEW f \in Fields, NEW v \in Values, SetField(w, c, f, v) PROVE IInv'
  <2>1. mem[c] \in Users
    BY <1>1, <1>5 DEF SetField
  <2>2. [mem[c] EXCEPT !.set[f] = v] \in Users \cup {NoUser}
    BY <2>1 DEF Users
  <2> QED
    BY <1>5, <2>2, UserBegins DEF SetField
<1> QED
  BY <1>2, <1>3, <1>4, <1>5

\* Every step keeps the invariant.
LEMMA NextInv == IInv /\ [Next]_vars => IInv'
<1> SUFFICES ASSUME IInv, [Next]_vars PROVE IInv'
  OBVIOUS
<1>1. ASSUME NEW w \in Workers, CommandStep(w) PROVE IInv'
  <2>1. CASE SaveUser(w) \/ DeleteUser(w)
    <3>1. call[w].pc = "delete" => call[w].u = NoUser
      BY DEF IInv, CallInv
    <3>2. \/ /\ rows' = [rows EXCEPT ![call[w].on] = call[w].u]
             /\ Step(w, "set") /\ unsaved' = Settled(w, unsaved) /\ UNCHANGED inDoubt
          \/ Fails(w) /\ Return(w) /\ UNCHANGED <<rows, unsaved>>
      BY <2>1, <3>1 DEF SaveUser, DeleteUser
    <3>3. /\ call[w].pc \in {"save", "delete"}
          /\ UNCHANGED <<mem, hardMin, fundMin, fees, settings, accepting, commands, restarts, raced, acked>>
      BY <2>1 DEF SaveUser, DeleteUser
    <3> QED
      BY <3>2, <3>3, RowSaved, RowFailed
  <2>2. CASE PersistHard(w)
    BY <2>2, SettingSaved DEF PersistHard
  <2>3. CASE PersistFees(w)
    BY <2>3, SettingSaved DEF PersistFees
  <2> QED
    BY <1>1, <2>1, <2>2, <2>3, UserCommandInv, UserSet, HardBegins, HardSet, FeesBegin,
       FeeSet, FeesRead
       DEF CommandStep
<1>2. CASE StopAccepting \/ UNCHANGED vars
  <2>1. UNCHANGED <<mem, rows, hardMin, fundMin, fees, settings, inDoubt, call, commands, restarts, raced, unsaved, acked>>
    BY <1>2 DEF StopAccepting, vars
  <2>2. accepting' \in BOOLEAN
    BY <1>2, Zenon DEF StopAccepting, vars, IInv, TypeOK
  <2>3. TypeOK'
    BY <2>1, <2>2 DEF IInv, TypeOK
  <2>4. CallInv' /\ LoneInv' /\ FloorInv' /\ StoredInv'
    BY <2>1 DEF IInv, CallInv, LoneInv, FloorInv, FloorsAgree, StoredInv, Stored, Quiet, Busy
  <2> QED
    BY <2>3, <2>4 DEF IInv
<1> QED
  BY <1>1, <1>2, LateInv, RestartInv DEF Next

\* The invariant holds in every reachable state; type correctness is a part.
THEOREM Inductive == Spec => []IInv
  BY InitInv, NextInv, PTL DEF Spec

\* The floor at which routes open and the one funding is judged by are the same
\* whenever no /sethardspread is at work and none has raced, through failed
\* writes and restarts, for any number of command workers.
THEOREM FloorsStayTogether == Spec => []FloorsAgree
<1>1. IInv => FloorsAgree
  BY DEF IInv, FloorInv
<1> QED
  BY <1>1, Inductive, PTL

\* What was acknowledged survives a restart at any point: a quiet chat gets back
\* what its last command set, as scanUser and the floor let it through, and the
\* floor and the fees are what they were if they could be read; a target on which
\* commands raced or an abandoned statement ran late is quiet again after the
\* next undisturbed save.
THEOREM RestartKeepsAcknowledged == Spec => RestartKeepsSettings
<1>1. ASSUME IInv, [Next]_vars, restarts' # restarts
      PROVE  /\ \A c \in Chats : Quiet(c) => mem'[c] = Loaded(acked[c], hardMin')
             /\ Quiet("hard") /\ "hard" \notin unsaved' => hardMin' = hardMin
             /\ Quiet("fees") /\ "fees" \notin unsaved' => fees' = fees
  <2>1. PICK hardRead \in BOOLEAN, feesRead \in BOOLEAN : Restart(hardRead, feesRead)
    BY <1>1 DEF Next, CommandStep, Start, Stop, SetCross, SetField, SaveUser, DeleteUser, SetUser,
                SetHardSpread, SetHardMinSpread, PersistHard, SaveSetting, SetFees, SetFee,
                ReadFees, PersistFees, AbandonedStatementRuns, StopAccepting, vars
  <2>2. \A c \in Chats : Quiet(c) => mem'[c] = Loaded(acked[c], hardMin')
    BY <1>1, <2>1 DEF Restart, IInv, StoredInv
  <2>3. ("hard" \notin unsaved' => hardRead) /\ ("fees" \notin unsaved' => feesRead)
    BY <2>1 DEF Restart
  <2>4. Quiet("hard") /\ hardRead => hardMin' = hardMin
    BY <1>1, <2>1 DEF Restart, IInv, StoredInv, Stored
  <2>5. Quiet("fees") /\ feesRead => fees' = fees
    BY <1>1, <2>1 DEF Restart, IInv, StoredInv, Stored
  <2> QED
    BY <2>2, <2>3, <2>4, <2>5
<1>2. IInv /\ [Next]_vars =>
        [restarts' # restarts =>
            /\ \A c \in Chats : Quiet(c) => mem'[c] = Loaded(acked[c], hardMin')
            /\ Quiet("hard") /\ "hard" \notin unsaved' => hardMin' = hardMin
            /\ Quiet("fees") /\ "fees" \notin unsaved' => fees' = fees]_vars
  BY <1>1
<1> QED
  BY <1>2, Inductive, PTL DEF Spec, RestartKeepsSettings
=============================================================================
