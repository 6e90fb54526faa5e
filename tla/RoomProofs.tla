----------------------------- MODULE RoomProofs -----------------------------
(***************************************************************************)
(* What holds of the room for any number of users, requests, words and     *)
(* turns.                                                                  *)
(***************************************************************************)
EXTENDS Room, SequenceTheorems, FiniteSetTheorems, TLAPS

-----------------------------------------------------------------------------
(* The room drives the loop as GameLoop.tla allows *)

\* The steps of run() outside the handler and those of EndGameTurn are the loop's only;
\* every other step is a request's, a kick's or the handler's.
LEMMA RoomMoves ==
  ASSUME [Next]_vars
  PROVE  \/ \E j \in Joiner : JoinStep(j)
         \/ \E l \in Loop : HandlerStep(l)
         \/ \E p \in Picker : PickStep(p)
         \/ \E u \in Leaver : LeaverStep(u)
         \/ UNCHANGED roomVars
  BY DEF Next, LoopStep, ReceiveEnd, EnderStep, EndGameTurnLookup, EndGameTurnSend, vars

\* Each operation of the room is an operation of the loop or leaves it alone.
LEMMA LoopStepOrStutter == [Next]_vars => [GL!Next]_(GL!vars)
<1> SUFFICES ASSUME [Next]_vars PROVE GL!Next \/ UNCHANGED loopVars
  BY DEF GL!vars, GL!mapVars, GL!sigVars, GL!loopVars, GL!pickerVars, GL!enderVars,
     loopVars
<1>1. ASSUME NEW j \in Joiner, JoinStep(j) PROVE GL!Next \/ UNCHANGED loopVars
  <2>1. CASE JoinStart(j)
    BY <2>1 DEF JoinStart, GL!Next
  <2>2. CASE ~JoinStart(j)
    BY <1>1, <2>2 DEF JoinStep, JoinRead, JoinWrite, JoinCheckRunning, JoinCount,
       JoinReadWords, JoinReadTeller, JoinAddTurn, JoinFails
  <2> QED
    BY <2>1, <2>2
<1>2. ASSUME NEW l \in Loop, LoopStep(l) \/ ReceiveEnd(l)
      PROVE  GL!Next \/ UNCHANGED loopVars
  BY <1>2 DEF LoopStep, ReceiveEnd, GL!Next, GL!LoopStep
<1>3. ASSUME NEW l \in Loop, HandlerStep(l) PROVE GL!Next \/ UNCHANGED loopVars
  <2>1. CASE TurnEndStop(l)
    BY <2>1 DEF TurnEndStop, GL!Next
  <2>2. CASE TurnEndReturn(l)
    BY <2>2 DEF TurnEndReturn, GL!Next, GL!LoopStep
  <2>3. CASE \/ TurnEndCount(l) \/ TurnEndReadWords(l) \/ TurnEndReadTeller(l)
             \/ TurnEndAddTurn(l) \/ TurnEndFails(l)
    BY <2>3 DEF TurnEndCount, TurnEndReadWords, TurnEndReadTeller, TurnEndAddTurn, TurnEndFails
  <2> QED
    BY <1>3, <2>1, <2>2, <2>3 DEF HandlerStep
<1>4. ASSUME NEW p \in Picker, PickStep(p) PROVE GL!Next \/ UNCHANGED loopVars
  <2>1. CASE PickBegin(p)
    BY <2>1 DEF PickBegin, GL!Next, GL!PickerStep
  <2>2. CASE ~PickBegin(p)
    BY <1>4, <2>2 DEF PickStep, PickRead, PickWrite, PickFails
  <2> QED
    BY <2>1, <2>2
<1>5. ASSUME NEW u \in Leaver, LeaverStep(u) PROVE UNCHANGED loopVars
  BY <1>5 DEF LeaverStep, Connect, Disconnect, KickCheck, KickWrite, KickFails
<1>6. ASSUME NEW e \in Ender, EnderStep(e) PROVE GL!Next \/ UNCHANGED loopVars
  BY <1>6 DEF EnderStep, EndGameTurnLookup, EndGameTurnSend, GL!Next, GL!EnderStep
<1>7. CASE UNCHANGED vars
  BY <1>7 DEF vars, GL!vars, GL!mapVars, GL!sigVars, GL!loopVars, GL!pickerVars,
     GL!enderVars, loopVars
<1> QED
  BY <1>1, <1>2, <1>3, <1>4, <1>5, <1>6, <1>7 DEF Next

\* Every behaviour of the room is one of the loop, so what GameLoopProofs.tla
\* proves of the loop holds inside the room.
LEMMA LoopUsedAsSpecifiedAlways == Spec => LoopUsedAsSpecified
<1>1. Init => GL!Init
  BY DEF Init
<1> QED
  BY <1>1, LoopStepOrStutter, PTL DEF Spec, LoopUsedAsSpecified, GL!Spec

-----------------------------------------------------------------------------
(* What GameLoopProofs.tla proves, inside the room *)

LoopFacts == INSTANCE GameLoopProofs

\* The loop of those theorems is the room's.
LEMMA SameLoop ==
  /\ GL!Init => LoopFacts!Init
  /\ [GL!Next]_(GL!vars) => [LoopFacts!Next]_(LoopFacts!vars)
<1>1. ASSUME NEW l \in Loop, GL!LoopStep(l) PROVE LoopFacts!LoopStep(l)
  <2>1. GL!ReceiveBegin(l) => LoopFacts!ReceiveBegin(l)
    BY DEF GL!ReceiveBegin, GL!Goto, GL!mapVars, GL!pickerVars, GL!enderVars,
       LoopFacts!ReceiveBegin, LoopFacts!Goto, LoopFacts!mapVars, LoopFacts!pickerVars,
       LoopFacts!enderVars
  <2>2. GL!PickTimeout(l) => LoopFacts!PickTimeout(l)
    BY DEF GL!PickTimeout, GL!Goto, GL!mapVars, GL!sigVars, GL!pickerVars, GL!enderVars,
       LoopFacts!PickTimeout, LoopFacts!Goto, LoopFacts!mapVars, LoopFacts!sigVars,
       LoopFacts!pickerVars, LoopFacts!enderVars
  <2>3. GL!ResetBegin(l) => LoopFacts!ResetBegin(l)
    BY DEF GL!ResetBegin, GL!Goto, GL!RefreshBegin, GL!Retire, GL!RetireAll,
       GL!CloseRegistered, GL!enderVars, LoopFacts!ResetBegin, LoopFacts!Goto,
       LoopFacts!RefreshBegin, LoopFacts!Retire, LoopFacts!RetireAll,
       LoopFacts!CloseRegistered, LoopFacts!enderVars
  <2>4. GL!ArmTurn(l) => LoopFacts!ArmTurn(l)
    BY DEF GL!ArmTurn, GL!Goto, GL!OpenEnd, GL!RefreshBegin, GL!Retire, GL!RetireAll,
       LoopFacts!ArmTurn, LoopFacts!Goto, LoopFacts!OpenEnd, LoopFacts!RefreshBegin,
       LoopFacts!Retire, LoopFacts!RetireAll
  <2>5. GL!CloseArmed(l) => LoopFacts!CloseArmed(l)
    BY DEF GL!CloseArmed, GL!Goto, GL!mapVars, GL!sigVars, GL!pickerVars, GL!enderVars,
       LoopFacts!CloseArmed, LoopFacts!Goto, LoopFacts!mapVars, LoopFacts!sigVars,
       LoopFacts!pickerVars, LoopFacts!enderVars
  <2>6. GL!ReceiveEnd(l) => LoopFacts!ReceiveEnd(l)
    BY DEF GL!ReceiveEnd, GL!Goto, GL!mapVars, GL!pickerVars, GL!enderVars,
       LoopFacts!ReceiveEnd, LoopFacts!Goto, LoopFacts!mapVars, LoopFacts!pickerVars,
       LoopFacts!enderVars
  <2>7. GL!TurnTimeout(l) => LoopFacts!TurnTimeout(l)
    BY DEF GL!TurnTimeout, GL!Goto, GL!mapVars, GL!sigVars, GL!pickerVars, GL!enderVars,
       LoopFacts!TurnTimeout, LoopFacts!Goto, LoopFacts!mapVars, LoopFacts!sigVars,
       LoopFacts!pickerVars, LoopFacts!enderVars
  <2>8. GL!ClearEnd(l) => LoopFacts!ClearEnd(l)
    BY DEF GL!ClearEnd, GL!Goto, GL!sigVars, GL!pickerVars, GL!enderVars,
       LoopFacts!ClearEnd, LoopFacts!Goto, LoopFacts!sigVars, LoopFacts!pickerVars,
       LoopFacts!enderVars
  <2>9. GL!HandlerReturn(l) => LoopFacts!HandlerReturn(l)
    BY DEF GL!HandlerReturn, GL!Goto, GL!mapVars, GL!sigVars, GL!pickerVars, GL!enderVars,
       LoopFacts!HandlerReturn, LoopFacts!Goto, LoopFacts!mapVars, LoopFacts!sigVars,
       LoopFacts!pickerVars, LoopFacts!enderVars
  <2>10. GL!Exit(l) => LoopFacts!Exit(l)
    BY DEF GL!Exit, GL!Done, GL!Retire, GL!RetireAll, LoopFacts!Exit, LoopFacts!Done,
       LoopFacts!Retire, LoopFacts!RetireAll
  <2> QED
    BY <1>1, <2>1, <2>2, <2>3, <2>4, <2>5, <2>6, <2>7, <2>8, <2>9, <2>10 DEF GL!LoopStep,
       LoopFacts!LoopStep
<1>2. ASSUME NEW p \in Picker, GL!PickerStep(p) PROVE LoopFacts!PickerStep(p)
  <2>1. GL!BeginTurnLock(p) => LoopFacts!BeginTurnLock(p)
    BY DEF GL!BeginTurnLock, GL!sigVars, GL!loopVars, GL!enderVars, LoopFacts!BeginTurnLock,
       LoopFacts!sigVars, LoopFacts!loopVars, LoopFacts!enderVars
  <2>2. GL!BeginTurnSend(p) => LoopFacts!BeginTurnSend(p)
    BY DEF GL!BeginTurnSend, GL!mapVars, GL!loopVars, GL!enderVars, LoopFacts!BeginTurnSend,
       LoopFacts!mapVars, LoopFacts!loopVars, LoopFacts!enderVars
  <2>3. GL!BeginTurnReturn(p) => LoopFacts!BeginTurnReturn(p)
    BY DEF GL!BeginTurnReturn, GL!mapVars, GL!sigVars, GL!loopVars, GL!enderVars,
       LoopFacts!BeginTurnReturn, LoopFacts!mapVars, LoopFacts!sigVars, LoopFacts!loopVars,
       LoopFacts!enderVars
  <2> QED
    BY <1>2, <2>1, <2>2, <2>3 DEF GL!PickerStep, LoopFacts!PickerStep
<1>3. ASSUME NEW e \in Ender, GL!EnderStep(e) PROVE LoopFacts!EnderStep(e)
  <2>1. GL!EndGameTurnLookup(e) => LoopFacts!EndGameTurnLookup(e)
    BY DEF GL!EndGameTurnLookup, GL!mapVars, GL!sigVars, GL!loopVars, GL!pickerVars,
       LoopFacts!EndGameTurnLookup, LoopFacts!mapVars, LoopFacts!sigVars,
       LoopFacts!loopVars, LoopFacts!pickerVars
  <2>2. GL!EndGameTurnSend(e) => LoopFacts!EndGameTurnSend(e)
    BY DEF GL!EndGameTurnSend, GL!mapVars, GL!loopVars, GL!pickerVars,
       LoopFacts!EndGameTurnSend, LoopFacts!mapVars, LoopFacts!loopVars,
       LoopFacts!pickerVars
  <2> QED
    BY <1>3, <2>1, <2>2 DEF GL!EnderStep, LoopFacts!EnderStep
<1>4. GL!StopGame => LoopFacts!StopGame
  BY DEF GL!StopGame, GL!CloseRegistered, GL!sigVars, GL!loopVars, GL!pickerVars,
     GL!enderVars, LoopFacts!StopGame, LoopFacts!CloseRegistered, LoopFacts!sigVars,
     LoopFacts!loopVars, LoopFacts!pickerVars, LoopFacts!enderVars
<1>5. ASSUME NEW l \in Loop, GL!Start(l) PROVE LoopFacts!Start(l)
  BY <1>5 DEF GL!Start, GL!Running, GL!sigVars, GL!pickerVars, GL!enderVars,
     LoopFacts!Start, LoopFacts!Running, LoopFacts!sigVars, LoopFacts!pickerVars,
     LoopFacts!enderVars
<1>6. GL!Init => LoopFacts!Init
  BY DEF GL!Init, LoopFacts!Init
<1>7. GL!Next => LoopFacts!Next
  BY <1>1, <1>2, <1>3, <1>4, <1>5 DEF GL!Next, LoopFacts!Next
<1>8. ASSUME [GL!Next]_(GL!vars) PROVE [LoopFacts!Next]_(LoopFacts!vars)
  <2>1. CASE GL!Next
    BY <1>7, <2>1
  <2>2. CASE GL!vars' = GL!vars
    <3>1. LoopFacts!vars' = LoopFacts!vars
      BY <2>2 DEF GL!vars, GL!mapVars, GL!sigVars, GL!loopVars, GL!pickerVars, GL!enderVars,
         LoopFacts!vars, LoopFacts!mapVars, LoopFacts!sigVars, LoopFacts!loopVars,
         LoopFacts!pickerVars, LoopFacts!enderVars
    <3> QED
      BY <3>1
  <2> QED
    BY <1>8, <2>1, <2>2
<1> QED
  BY <1>6, <1>8

\* The loop's safety properties.
LoopInside == GL!OneLiveLoop /\ GL!NoDoubleClose /\ GL!RegisteredWaiterBlocked

\* Inside the room, with its joins, picks and turn-end handlers as callers: one live loop,
\* no second close of an armed channel, and whoever is registered is waiting
\* (gameloop.go:96-113, :122-124, :228-230; emojix.go:427-450, :475-502, :688-723).
THEOREM LoopSafeInRoom == Spec => []LoopInside
<1>1. LoopFacts!Spec => []LoopFacts!OneLiveLoop
  BY LoopFacts!OneLiveLoopAlways, NameAssumption
<1>2. LoopFacts!Spec => []LoopFacts!NoDoubleClose
  BY LoopFacts!NoDoubleCloseAlways, NameAssumption
<1>3. LoopFacts!Spec => []LoopFacts!RegisteredWaiterBlocked
  BY LoopFacts!RegisteredWaiterAlways, NameAssumption
<1>4. /\ LoopFacts!OneLiveLoop /\ LoopFacts!NoDoubleClose
      /\ LoopFacts!RegisteredWaiterBlocked
      => LoopInside
  BY DEF LoopInside, GL!OneLiveLoop, GL!NoDoubleClose, GL!RegisteredWaiterBlocked,
     LoopFacts!OneLiveLoop, LoopFacts!NoDoubleClose, LoopFacts!RegisteredWaiterBlocked
<1> QED
  BY <1>1, <1>2, <1>3, <1>4, SameLoop, LoopUsedAsSpecifiedAlways, PTL
  DEF LoopUsedAsSpecified, GL!Spec, LoopFacts!Spec

\* A step that changes nothing of the one loop changes nothing of the other.
LEMMA SameLoopVars ==
  ASSUME NEW ACTION A
  PROVE  [A]_(LoopFacts!vars) => [A]_(GL!vars)
<1>1. CASE LoopFacts!vars' = LoopFacts!vars
  <2>1. GL!vars' = GL!vars
    BY <1>1 DEF GL!vars, GL!mapVars, GL!sigVars, GL!loopVars, GL!pickerVars, GL!enderVars,
       LoopFacts!vars, LoopFacts!mapVars, LoopFacts!sigVars, LoopFacts!loopVars,
       LoopFacts!pickerVars, LoopFacts!enderVars
  <2> QED
    BY <2>1
<1>2. CASE A
  BY <1>2
<1> QED
  BY <1>1, <1>2

\* Inside the room a blocked PickWord request is forgotten for one reason only, another
\* request that registers over it (gameloop.go:122-124).
THEOREM LoopStepsInRoom == Spec => WaiterLostOnlyToOverwrite
<1> DEFINE Handed ==
             \A p \in Picker : armedMap = p /\ armedMap' # p =>
               \/ armedMap' \in Picker
               \/ p \in closed'
               \/ \E l \in Loop : loopPc'[l] = "close" /\ loopArmed'[l] = p
<1>1. LoopFacts!Spec => [][Handed]_(LoopFacts!vars)
  BY LoopFacts!OnlyOverwriteLosesWaiter, NameAssumption
  DEF LoopFacts!WaiterLostOnlyToOverwrite
<1> HIDE DEF Handed
<1>2. [Handed]_(LoopFacts!vars) => [Handed]_(GL!vars)
  BY SameLoopVars
<1>3. Spec => [][Handed]_(GL!vars)
  BY <1>1, <1>2, SameLoop, LoopUsedAsSpecifiedAlways, PTL
  DEF LoopUsedAsSpecified, GL!Spec, LoopFacts!Spec
<1> QED
  BY <1>3 DEF Handed, WaiterLostOnlyToOverwrite, GL!WaiterLostOnlyToOverwrite

\* The room implements the turn cycle: whatever its players and requests do, turns are
\* picked for, played and handed over in that order (gameloop.go:193-247).
THEOREM RoomImplementsTurnCycle == Spec => GL!TurnCycleSafety
<1>1. LoopFacts!Spec => LoopFacts!TurnCycleSafety
  BY LoopFacts!LoopImplementsTurnCycle, NameAssumption
<1>2. LoopFacts!GamePhase = GL!GamePhase
  BY DEF LoopFacts!GamePhase, GL!GamePhase, LoopFacts!Running, GL!Running
<1>3. LoopFacts!Cycle!Init => GL!Cycle!Init
  BY <1>2 DEF LoopFacts!Cycle!Init, GL!Cycle!Init
<1>4. [LoopFacts!Cycle!Next]_(LoopFacts!GamePhase) => [GL!Cycle!Next]_(GL!GamePhase)
  BY DEF LoopFacts!GamePhase, GL!GamePhase, LoopFacts!Running, GL!Running,
     LoopFacts!Cycle!Next, LoopFacts!Cycle!Start, LoopFacts!Cycle!Begin,
     LoopFacts!Cycle!Skip, LoopFacts!Cycle!End, LoopFacts!Cycle!Reseat,
     LoopFacts!Cycle!Stop, LoopFacts!Cycle!Move,
     GL!Cycle!Next, GL!Cycle!Start, GL!Cycle!Begin, GL!Cycle!Skip, GL!Cycle!End,
     GL!Cycle!Reseat, GL!Cycle!Stop, GL!Cycle!Move
<1> QED
  BY <1>1, <1>3, <1>4, SameLoop, LoopUsedAsSpecifiedAlways, PTL
  DEF LoopUsedAsSpecified, GL!Spec, LoopFacts!Spec, LoopFacts!TurnCycleSafety,
      GL!TurnCycleSafety

-----------------------------------------------------------------------------
(* What the statements of repository/sqlite.go do to the tables *)

\* A new row comes last and the others stay.
LEMMA AddPlayerFacts ==
  ASSUME NEW u \in User, players \in Seq(Row), AddPlayer(u)
  PROVE  /\ players' \in Seq(Row)
         /\ DOMAIN players = 1..Len(players) /\ Len(players) \in Nat
         /\ DOMAIN players' = 1..(Len(players) + 1)
         /\ \A i \in DOMAIN players : players'[i] = players[i]
         /\ players'[Len(players) + 1] = [user |-> u, active |-> TRUE]
<1> DEFINE row == [user |-> u, active |-> TRUE]
<1>1. row \in Row
  BY DEF Row
<1>2. /\ Append(players, row) \in Seq(Row)
      /\ Len(Append(players, row)) = Len(players) + 1
      /\ \A i \in 1..Len(players) : Append(players, row)[i] = players[i]
      /\ Append(players, row)[Len(players) + 1] = row
  BY <1>1, AppendProperties
<1>3. /\ DOMAIN players = 1..Len(players) /\ Len(players) \in Nat
      /\ DOMAIN Append(players, row) = 1..Len(Append(players, row))
  BY <1>2, LenProperties
<1> QED
  BY <1>2, <1>3 DEF AddPlayer

\* The update of a user's rows changes nothing but their state.
LEMMA SetPlayerStateFacts ==
  ASSUME NEW u \in User, NEW state \in BOOLEAN, players \in Seq(Row),
         SetPlayerState(u, state)
  PROVE  /\ players' \in Seq(Row)
         /\ DOMAIN players' = DOMAIN players
         /\ \A i \in DOMAIN players :
              /\ players'[i].user = players[i].user
              /\ players'[i].active = IF players[i].user = u THEN state ELSE players[i].active
<1>1. players \in [1..Len(players) -> Row] /\ Len(players) \in Nat
  BY LenProperties
<1>2. DOMAIN players' = 1..Len(players)
  BY <1>1 DEF SetPlayerState
<1>3. ASSUME NEW i \in 1..Len(players)
      PROVE  /\ players'[i] \in Row
             /\ players'[i].user = players[i].user
             /\ players'[i].active = IF players[i].user = u THEN state ELSE players[i].active
  <2>1. players[i] \in Row
    BY <1>1
  <2>2. players'[i] = IF players[i].user = u THEN [players[i] EXCEPT !.active = state]
                      ELSE players[i]
    BY <1>1 DEF SetPlayerState
  <2> QED
    BY <2>1, <2>2 DEF Row
<1>4. players' \in [1..Len(players) -> Row]
  BY <1>1, <1>2, <1>3 DEF SetPlayerState
<1>5. players' \in Seq(Row)
  BY <1>1, <1>4, SeqDef
<1> QED
  BY <1>1, <1>2, <1>3, <1>5

\* A new turn comes last and the others stay.
LEMMA AddTurnFacts ==
  ASSUME NEW x, turns \in Seq(Turn), draft[x] \in Turn, AddTurn(x)
  PROVE  /\ turns' \in Seq(Turn)
         /\ Len(turns) \in Nat /\ Len(turns') = Len(turns) + 1
         /\ DOMAIN turns = 1..Len(turns) /\ DOMAIN turns' = 1..(Len(turns) + 1)
         /\ \A i \in DOMAIN turns : turns'[i] = turns[i]
         /\ turns'[Len(turns) + 1] = draft[x]
<1>1. /\ Append(turns, draft[x]) \in Seq(Turn)
      /\ Len(Append(turns, draft[x])) = Len(turns) + 1
      /\ \A i \in 1..Len(turns) : Append(turns, draft[x])[i] = turns[i]
      /\ Append(turns, draft[x])[Len(turns) + 1] = draft[x]
  BY AppendProperties
<1>2. /\ DOMAIN turns = 1..Len(turns) /\ Len(turns) \in Nat
      /\ DOMAIN Append(turns, draft[x]) = 1..Len(Append(turns, draft[x]))
  BY <1>1, LenProperties
<1> QED
  BY <1>1, <1>2 DEF AddTurn

\* The update of a turn's word changes that turn only, and only when it had none.
LEMMA SetTurnWordFacts ==
  ASSUME NEW i \in DOMAIN turns, NEW w \in Word, turns \in Seq(Turn), SetTurnWord(i, w)
  PROVE  /\ turns' \in Seq(Turn)
         /\ Len(turns) \in Nat /\ Len(turns') = Len(turns)
         /\ DOMAIN turns' = DOMAIN turns
         /\ \A k \in DOMAIN turns :
              turns'[k] = IF k = i /\ turns[k].word = None
                          THEN [turns[k] EXCEPT !.word = w] ELSE turns[k]
         /\ \A k \in DOMAIN turns :
              turns'[k].teller = turns[k].teller /\ turns'[k].options = turns[k].options
<1>1. /\ turns \in [1..Len(turns) -> Turn] /\ Len(turns) \in Nat
      /\ DOMAIN turns = 1..Len(turns)
  BY LenProperties
<1>2. CASE turns[i].word # None
  BY <1>1, <1>2 DEF SetTurnWord
<1>3. CASE turns[i].word = None
  <2> DEFINE t == [turns[i] EXCEPT !.word = w]
  <2>1. \A k \in DOMAIN turns : turns[k] \in Turn
    BY <1>1
  <2>2. t \in Turn /\ t.teller = turns[i].teller /\ t.options = turns[i].options
    BY <2>1 DEF Turn
  <2>3. turns' = [turns EXCEPT ![i] = t]
    BY <1>3, <2>1 DEF SetTurnWord, Turn
  <2>4. /\ turns' \in Seq(Turn) /\ Len(turns') = Len(turns)
        /\ \A k \in 1..Len(turns) : turns'[k] = IF k = i THEN t ELSE turns[k]
    BY <1>1, <2>2, <2>3, ExceptSeq
  <2> HIDE DEF t
  <2>5. DOMAIN turns' = DOMAIN turns
    BY <1>1, <2>3
  <2>6. \A k \in DOMAIN turns :
          turns'[k].teller = turns[k].teller /\ turns'[k].options = turns[k].options
    BY <1>1, <2>2, <2>4
  <2> QED
    BY <1>1, <1>3, <2>4, <2>5, <2>6 DEF t
<1> QED
  BY <1>2, <1>3

-----------------------------------------------------------------------------
(* The invariant: the locals that an interrupted handler carries into its    *)
(* next repository call are still good when it makes the call.               *)

\* A turn about to be inserted is a well-formed turn without a word, from the
\* moment its options are drawn.
DraftGood(x) == draft[x] \in Turn /\ draft[x].word = None
DraftInv ==
  /\ \A j \in Joiner : joinPc[j] \in {"read", "add"} => DraftGood(j)
  /\ \A l \in Loop : handlerPc[l] \in {"read", "add", "reread", "readd"} => DraftGood(l)

\* A PickWord request about to write holds a turn that exists, though it may not
\* be the latest any more, and one of that turn's options.
PickInv ==
  \A p \in Picker : pickPc[p] = "write" =>
    /\ pickTurn[p] \in DOMAIN turns
    /\ pickWord[p] \in Word
    /\ pickWord[p] \in turns[pickTurn[p]].options

RoomInv == TypeOK /\ DraftInv /\ PickInv

\* What newGameTurn's reads make of a draft, and that they leave the others alone.
DraftTyped == draft \in [Joiner \cup Loop -> Turn \cup {None}]
OthersKept(x) == \A y \in Joiner \cup Loop : y # x => draft'[y] = draft[y]

LEMMA ReadWordsGood ==
  ASSUME NEW x \in Joiner \cup Loop, DraftTyped, ReadWords(x)
  PROVE  DraftTyped' /\ DraftGood(x)' /\ OthersKept(x)
<1>1. PICK opts \in Options :
        draft' = [draft EXCEPT ![x] = [teller |-> Host, options |-> opts, word |-> None]]
  BY DEF ReadWords
<1>2. [teller |-> Host, options |-> opts, word |-> None] \in Turn
  BY RoomAssumption DEF Turn, Options, UnusedWords
<1> QED
  BY <1>1, <1>2 DEF DraftTyped, DraftGood, OthersKept

LEMMA ReadTellerGood ==
  ASSUME NEW x \in Joiner \cup Loop, players \in Seq(Row), DraftTyped, DraftGood(x),
         ReadTeller(x)
  PROVE  DraftTyped' /\ DraftGood(x)' /\ OthersKept(x)
<1>1. PICK i \in Tellers : draft' = [draft EXCEPT ![x].teller = players[i].user]
  BY DEF ReadTeller
<1>2. players[i] \in Row
  <2>1. i \in 1..Len(players)
    BY LenProperties DEF Tellers, Active
  <2> QED
    BY <2>1, ElementOfSeq
<1>3. PICK d \in Turn : d = draft[x] /\ d.word = None
  BY DEF DraftGood
<1> DEFINE e == [d EXCEPT !.teller = players[i].user]
<1>4. e \in Turn /\ e.word = None
  BY <1>2, <1>3 DEF Turn, Row
<1>5. draft' = [draft EXCEPT ![x] = e]
  BY <1>1, <1>3
<1> HIDE DEF e
<1> QED
  BY <1>4, <1>5 DEF DraftTyped, DraftGood, OthersKept

LEMMA ErrorsKeepDrafts ==
  ASSUME NEW x \in Joiner \cup Loop, DraftTyped, ErrNoWords \/ ErrNoPlayers(x)
  PROVE  DraftTyped' /\ OthersKept(x)
  BY DEF DraftTyped, OthersKept, ErrNoWords, ErrNoPlayers

\* Creating a turn disturbs neither the other drafts nor a pending pick.
LEMMA AddTurnGood ==
  ASSUME NEW x \in Joiner \cup Loop, TypeOK, PickInv, DraftGood(x), AddTurn(x),
         UNCHANGED pickVars
  PROVE  /\ turns' \in Seq(Turn)
         /\ draft' \in [Joiner \cup Loop -> Turn \cup {None}]
         /\ \A y \in Joiner \cup Loop : y # x => draft'[y] = draft[y]
         /\ PickInv'
<1>1. turns \in Seq(Turn) /\ draft \in [Joiner \cup Loop -> Turn \cup {None}]
  BY DEF TypeOK
<1>2. /\ turns' \in Seq(Turn) /\ Len(turns) \in Nat
      /\ DOMAIN turns = 1..Len(turns) /\ DOMAIN turns' = 1..(Len(turns) + 1)
      /\ \A i \in DOMAIN turns : turns'[i] = turns[i]
  BY <1>1, AddTurnFacts DEF DraftGood
<1>3. DOMAIN turns \subseteq DOMAIN turns'
  BY <1>2
<1>4. draft' = [draft EXCEPT ![x] = None]
  BY DEF AddTurn
<1>5. PickInv'
  BY <1>2, <1>3 DEF PickInv, pickVars
<1> QED
  BY <1>1, <1>2, <1>4, <1>5

LEMMA RoomInit == Init => RoomInv
<1> SUFFICES ASSUME Init PROVE RoomInv
  OBVIOUS
<1>1. [user |-> Host, active |-> TRUE] \in Row
  BY RoomAssumption DEF Row
<1>2. players \in Seq(Row)
  BY <1>1 DEF Init
<1>3. turns \in Seq(Turn)
  BY DEF Init
<1>4. TypeOK
  BY <1>2, <1>3, RoomAssumption DEF Init, TypeOK
<1>5. DraftInv /\ PickInv
  BY DEF Init, DraftInv, PickInv
<1> QED
  BY <1>4, <1>5 DEF RoomInv

LEMMA JoinKeepsRoomInv ==
  ASSUME RoomInv, NEW j \in Joiner, JoinStep(j)
  PROVE  RoomInv'
<1> USE DEF RoomInv
<1>0. j \in Joiner \cup Loop /\ j \notin Loop
  BY RoomAssumption
<1>1. ASSUME NEW u \in User, JoinRead(j, u) PROVE RoomInv'
  <2>1. TypeOK'
    BY <1>1 DEF TypeOK, JoinRead, JoinGoto, SeatBy, tableVars, kickVars, pickVars
  <2>2. DraftInv' /\ PickInv'
    BY <1>1 DEF TypeOK, DraftInv, DraftGood, PickInv, JoinRead, JoinGoto, tableVars,
       pickVars
  <2> QED
    BY <2>1, <2>2
<1>2. CASE JoinWrite(j)
  <2>1. joinUser[j] \in User /\ players \in Seq(Row)
    BY DEF TypeOK
  <2>2. players' \in Seq(Row)
    BY <1>2, <2>1, AddPlayerFacts, SetPlayerStateFacts DEF JoinWrite
  <2>3. TypeOK'
    BY <1>2, <2>2, RoomAssumption DEF TypeOK, JoinWrite, JoinGoto, kickVars, pickVars
  <2>4. DraftInv' /\ PickInv'
    BY <1>2 DEF TypeOK, DraftInv, DraftGood, PickInv, JoinWrite, JoinGoto, pickVars
  <2> QED
    BY <2>3, <2>4
<1>3. CASE JoinCheckRunning(j) \/ JoinCount(j)
  <2>1. TypeOK'
    BY <1>3 DEF TypeOK, JoinCheckRunning, JoinCount, JoinGoto, tableVars, kickVars, pickVars
  <2>2. DraftInv' /\ PickInv'
    BY <1>3 DEF TypeOK, DraftInv, DraftGood, PickInv, JoinCheckRunning, JoinCount,
       JoinGoto, tableVars, pickVars
  <2> QED
    BY <2>1, <2>2
<1>4. CASE JoinReadWords(j) \/ JoinReadTeller(j)
  <2>0. players \in Seq(Row) /\ DraftTyped
    BY DEF TypeOK, DraftTyped
  <2>1. /\ DraftTyped' /\ OthersKept(j)
        /\ \/ joinPc' = [joinPc EXCEPT ![j] = "idle"]
           \/ joinPc' \in {[joinPc EXCEPT ![j] = "read"], [joinPc EXCEPT ![j] = "add"]}
              /\ DraftGood(j)'
    <3>1. CASE JoinReadWords(j)
      BY <1>0, <2>0, <3>1, ReadWordsGood, ErrorsKeepDrafts DEF JoinReadWords, JoinGoto
    <3>2. CASE JoinReadTeller(j)
      <4>1. DraftGood(j)
        BY <3>2 DEF DraftInv, JoinReadTeller, JoinGoto
      <4> QED
        BY <1>0, <2>0, <3>2, <4>1, ReadTellerGood, ErrorsKeepDrafts
        DEF JoinReadTeller, JoinGoto
    <3> QED
      BY <1>4, <3>1, <3>2
  <2>2. UNCHANGED <<tableVars, kickVars, joinUser, joinHow, handlerPc, pickVars>>
    BY <1>4 DEF JoinReadWords, JoinReadTeller
  <2>3. TypeOK'
    BY <2>1, <2>2 DEF TypeOK, DraftTyped, tableVars, kickVars, pickVars
  <2>4. DraftInv'
    BY <1>0, <2>1, <2>2 DEF TypeOK, DraftInv, DraftGood, OthersKept
  <2>5. PickInv'
    BY <2>2 DEF PickInv, tableVars, pickVars
  <2> QED
    BY <2>3, <2>4, <2>5
<1>5. CASE JoinAddTurn(j)
  <2>1. DraftGood(j) /\ AddTurn(j) /\ UNCHANGED pickVars
    BY <1>5 DEF DraftInv, JoinAddTurn, JoinGoto
  <2>2. TypeOK'
    BY <1>0, <1>5, <2>1, AddTurnGood DEF TypeOK, JoinAddTurn, JoinGoto, kickVars, pickVars
  <2>3. \A y \in Joiner \cup Loop : y # j => draft'[y] = draft[y]
    BY <1>0, <2>1, AddTurnGood
  <2>4. joinPc' = [joinPc EXCEPT ![j] = "start"] /\ UNCHANGED handlerPc
    BY <1>5 DEF JoinAddTurn, JoinGoto
  <2>5. DraftInv'
    BY <1>0, <2>3, <2>4 DEF TypeOK, DraftInv, DraftGood
  <2>6. PickInv'
    BY <1>0, <2>1, AddTurnGood
  <2> QED
    BY <2>2, <2>5, <2>6
<1>6. CASE JoinStart(j)
  <2>1. TypeOK'
    BY <1>6 DEF TypeOK, JoinStart, JoinGoto, tableVars, kickVars, pickVars
  <2>2. DraftInv' /\ PickInv'
    BY <1>6 DEF TypeOK, DraftInv, DraftGood, PickInv, JoinStart, JoinGoto, tableVars,
       pickVars
  <2> QED
    BY <2>1, <2>2
<1>7. CASE JoinFails(j)
  <2>1. /\ joinPc' = [joinPc EXCEPT ![j] = "idle"]
        /\ draft' = [draft EXCEPT ![j] = None]
        /\ UNCHANGED handlerPc
    BY <1>7 DEF JoinFails, JoinGoto
  <2>2. TypeOK'
    BY <1>7, <2>1, RoomAssumption DEF TypeOK, JoinFails, tableVars, kickVars, pickVars
  <2>3. DraftInv'
    BY <1>0, <2>1 DEF TypeOK, DraftInv, DraftGood
  <2>4. PickInv'
    BY <1>7 DEF PickInv, JoinFails, tableVars, pickVars
  <2> QED
    BY <2>2, <2>3, <2>4
<1> QED
  BY <1>1, <1>2, <1>3, <1>4, <1>5, <1>6, <1>7 DEF JoinStep

LEMMA HandlerKeepsRoomInv ==
  ASSUME RoomInv, NEW l \in Loop, HandlerStep(l)
  PROVE  RoomInv'
<1> USE DEF RoomInv
<1>0. l \in Joiner \cup Loop /\ l \notin Joiner
  BY RoomAssumption
<1>1. CASE TurnEndCount(l) \/ TurnEndStop(l) \/ TurnEndReturn(l)
  <2>1. TypeOK'
    BY <1>1 DEF TypeOK, TurnEndCount, TurnEndStop, TurnEndReturn, HandlerGoto, tableVars,
       kickVars, joinVars, pickVars
  <2>2. DraftInv' /\ PickInv'
    BY <1>1 DEF TypeOK, DraftInv, DraftGood, PickInv, TurnEndCount, TurnEndStop,
       TurnEndReturn, HandlerGoto, tableVars, joinVars, pickVars
  <2> QED
    BY <2>1, <2>2
<1>2. CASE TurnEndReadWords(l) \/ TurnEndReadTeller(l)
  <2>0. players \in Seq(Row) /\ DraftTyped
    BY DEF TypeOK, DraftTyped
  <2>1. /\ DraftTyped' /\ OthersKept(l)
        /\ \/ \E pc \in {"rewords", "stop"} : handlerPc' = [handlerPc EXCEPT ![l] = pc]
           \/ /\ \E pc \in {"read", "add", "reread", "readd"} :
                   handlerPc' = [handlerPc EXCEPT ![l] = pc]
              /\ DraftGood(l)'
    <3>1. CASE TurnEndReadWords(l)
      BY <1>0, <2>0, <3>1, ReadWordsGood, ErrorsKeepDrafts
      DEF TurnEndReadWords, HandlerGoto
    <3>2. CASE TurnEndReadTeller(l)
      <4>1. DraftGood(l)
        BY <3>2 DEF DraftInv, TurnEndReadTeller, HandlerGoto
      <4> QED
        BY <1>0, <2>0, <3>2, <4>1, ReadTellerGood, ErrorsKeepDrafts
        DEF TurnEndReadTeller, HandlerGoto
    <3> QED
      BY <1>2, <3>1, <3>2
  <2>2. UNCHANGED <<tableVars, kickVars, joinVars, pickVars>>
    BY <1>2 DEF TurnEndReadWords, TurnEndReadTeller
  <2>3. handlerPc' \in [Loop -> {"count", "words", "read", "add", "rewords", "reread",
                                  "readd", "stop", "done"}]
    BY <2>1 DEF TypeOK
  <2>4. TypeOK'
    BY <2>1, <2>2, <2>3 DEF TypeOK, DraftTyped, tableVars, kickVars, joinVars, pickVars
  <2>5. DraftInv'
    BY <1>0, <2>1, <2>2 DEF TypeOK, DraftInv, DraftGood, OthersKept, joinVars
  <2>6. PickInv'
    BY <2>2 DEF PickInv, tableVars, pickVars
  <2> QED
    BY <2>4, <2>5, <2>6
<1>3. CASE TurnEndAddTurn(l)
  <2>1. DraftGood(l) /\ AddTurn(l) /\ UNCHANGED pickVars
    BY <1>3 DEF DraftInv, TurnEndAddTurn, HandlerGoto
  <2>2. TypeOK'
    BY <1>0, <1>3, <2>1, AddTurnGood
    DEF TypeOK, TurnEndAddTurn, HandlerGoto, kickVars, joinVars, pickVars
  <2>3. \A y \in Joiner \cup Loop : y # l => draft'[y] = draft[y]
    BY <1>0, <2>1, AddTurnGood
  <2>4. handlerPc' = [handlerPc EXCEPT ![l] = "done"] /\ UNCHANGED joinPc
    BY <1>3 DEF TurnEndAddTurn, HandlerGoto, joinVars
  <2>5. DraftInv'
    BY <1>0, <2>3, <2>4 DEF TypeOK, DraftInv, DraftGood
  <2>6. PickInv'
    BY <1>0, <2>1, AddTurnGood
  <2> QED
    BY <2>2, <2>5, <2>6
<1>4. CASE TurnEndFails(l)
  <2>1. /\ \E pc \in {"stop", "rewords"} : handlerPc' = [handlerPc EXCEPT ![l] = pc]
        /\ draft' = [draft EXCEPT ![l] = None]
        /\ UNCHANGED joinPc
    BY <1>4 DEF TurnEndFails, HandlerGoto, joinVars
  <2>2. TypeOK'
    BY <1>4, <2>1 DEF TypeOK, TurnEndFails, tableVars, kickVars, joinVars, pickVars
  <2>3. DraftInv'
    BY <1>0, <2>1 DEF TypeOK, DraftInv, DraftGood
  <2>4. PickInv'
    BY <1>4 DEF PickInv, TurnEndFails, tableVars, pickVars
  <2> QED
    BY <2>2, <2>3, <2>4
<1> QED
  BY <1>1, <1>2, <1>3, <1>4 DEF HandlerStep

LEMMA PickKeepsRoomInv ==
  ASSUME RoomInv, NEW p \in Picker, PickStep(p)
  PROVE  RoomInv'
<1> USE DEF RoomInv
<1>0. turns \in Seq(Turn) /\ Len(turns) \in Nat /\ DOMAIN turns = 1..Len(turns)
  BY LenProperties DEF TypeOK
<1>1. ASSUME NEW u \in User, NEW w \in Word, PickRead(p, u, w) PROVE RoomInv'
  <2>1. Len(turns) \in DOMAIN turns
    BY <1>0, <1>1, EmptySeq DEF PickRead
  <2>2. TypeOK'
    BY <1>0, <1>1
    DEF TypeOK, PickRead, tableVars, kickVars, joinVars
  <2>3. DraftInv'
    BY <1>1 DEF DraftInv, DraftGood, PickRead, joinVars
  <2>4. PickInv'
    BY <1>0, <1>1, <2>1 DEF TypeOK, PickInv, PickRead, tableVars
  <2> QED
    BY <2>2, <2>3, <2>4
<1>2. CASE PickWrite(p)
  <2>1. pickTurn[p] \in DOMAIN turns /\ pickWord[p] \in Word
    BY <1>2 DEF PickInv, PickWrite
  <2>2. /\ turns' \in Seq(Turn) /\ DOMAIN turns' = DOMAIN turns
        /\ \A k \in DOMAIN turns : turns'[k].options = turns[k].options
    BY <1>0, <1>2, <2>1, SetTurnWordFacts DEF PickWrite
  <2>3. TypeOK'
    BY <1>2, <2>2 DEF TypeOK, PickWrite, kickVars, joinVars
  <2>4. DraftInv'
    BY <1>2 DEF DraftInv, DraftGood, PickWrite, joinVars
  <2>5. PickInv'
    BY <1>2, <2>2 DEF TypeOK, PickInv, PickWrite
  <2> QED
    BY <2>3, <2>4, <2>5
<1>3. CASE PickBegin(p)
  <2>0. pickPc' = pickPc \/ pickPc' = [pickPc EXCEPT ![p] = "idle"]
    BY <1>3 DEF PickBegin
  <2>1. TypeOK'
    BY <1>3, <2>0 DEF TypeOK, PickBegin, tableVars, kickVars, joinVars
  <2>2. DraftInv' /\ PickInv'
    BY <1>3, <2>0 DEF TypeOK, DraftInv, DraftGood, PickInv, PickBegin, tableVars, joinVars
  <2> QED
    BY <2>1, <2>2
<1>4. CASE PickFails(p)
  <2>1. TypeOK'
    BY <1>4 DEF TypeOK, PickFails, tableVars, kickVars, joinVars
  <2>2. DraftInv' /\ PickInv'
    BY <1>4 DEF TypeOK, DraftInv, DraftGood, PickInv, PickFails, tableVars, joinVars
  <2> QED
    BY <2>1, <2>2
<1> QED
  BY <1>1, <1>2, <1>3, <1>4 DEF PickStep

LEMMA LeaverKeepsRoomInv ==
  ASSUME RoomInv, NEW u \in Leaver, LeaverStep(u)
  PROVE  RoomInv'
<1> USE DEF RoomInv
<1>0. u \in User
  BY RoomAssumption
<1>1. players' \in Seq(Row)
  BY <1>0, SetPlayerStateFacts
  DEF TypeOK, LeaverStep, Connect, Disconnect, KickCheck, KickWrite, KickFails, tableVars
<1>2. TypeOK'
  BY <1>0, <1>1 DEF TypeOK, LeaverStep, Connect, Disconnect, KickCheck, KickWrite, KickFails,
     tableVars, joinVars, pickVars
<1>3. DraftInv' /\ PickInv'
  BY DEF DraftInv, DraftGood, PickInv, LeaverStep, Connect, Disconnect, KickCheck,
     KickWrite, KickFails, tableVars, joinVars, pickVars
<1> QED
  BY <1>2, <1>3

LEMMA RoomStep == RoomInv /\ [Next]_vars => RoomInv'
<1> SUFFICES ASSUME RoomInv, [Next]_vars PROVE RoomInv'
  OBVIOUS
<1>1. CASE UNCHANGED roomVars
  BY <1>1 DEF RoomInv, TypeOK, DraftInv, DraftGood, PickInv, roomVars, tableVars, kickVars,
     joinVars, pickVars
<1> QED
  BY <1>1, RoomMoves, JoinKeepsRoomInv, HandlerKeepsRoomInv, PickKeepsRoomInv,
     LeaverKeepsRoomInv

LEMMA RoomInvAlways == Spec => []RoomInv
  BY RoomInit, RoomStep, PTL DEF Spec

\* Every variable of the room keeps its type; no row is read that does not exist
\* and no error of newGameTurn reaches the insert (emojix.go:703-723).
THEOREM RoomTypeCorrect == Spec => []TypeOK
<1>1. RoomInv => TypeOK
  BY DEF RoomInv
<1> QED
  BY <1>1, RoomInvAlways, PTL

-----------------------------------------------------------------------------
(* The words of the turns *)

\* The table of turns changes by the insert of a good draft or by the update of
\* a turn with one of its own options.
LEMMA TurnsChange ==
  ASSUME RoomInv, [Next]_vars
  PROVE  \/ UNCHANGED turns
         \/ \E x \in Joiner \cup Loop : DraftGood(x) /\ AddTurn(x)
         \/ \E i \in DOMAIN turns, w \in Word :
              w \in turns[i].options /\ SetTurnWord(i, w)
<1> DEFINE Goal ==
      \/ UNCHANGED turns
      \/ \E x \in Joiner \cup Loop : DraftGood(x) /\ AddTurn(x)
      \/ \E i \in DOMAIN turns, w \in Word :
           w \in turns[i].options /\ SetTurnWord(i, w)
<1>1. ASSUME NEW j \in Joiner, JoinStep(j) PROVE Goal
  <2>1. CASE JoinAddTurn(j)
    <3>1. DraftGood(j) /\ AddTurn(j)
      BY <2>1 DEF RoomInv, DraftInv, JoinAddTurn, JoinGoto
    <3> QED
      BY <3>1
  <2>2. CASE ~JoinAddTurn(j)
    BY <1>1, <2>2 DEF JoinStep, JoinRead, JoinWrite, JoinCheckRunning, JoinCount,
       JoinReadWords, JoinReadTeller, JoinStart, JoinFails, tableVars
  <2> QED
    BY <2>1, <2>2
<1>2. ASSUME NEW l \in Loop, HandlerStep(l) PROVE Goal
  <2>1. CASE TurnEndAddTurn(l)
    <3>1. DraftGood(l) /\ AddTurn(l)
      BY <2>1 DEF RoomInv, DraftInv, TurnEndAddTurn, HandlerGoto
    <3> QED
      BY <3>1
  <2>2. CASE ~TurnEndAddTurn(l)
    BY <1>2, <2>2 DEF HandlerStep, TurnEndCount, TurnEndReadWords, TurnEndReadTeller,
       TurnEndStop, TurnEndReturn,
       TurnEndFails, tableVars
  <2> QED
    BY <2>1, <2>2
<1>3. ASSUME NEW p \in Picker, PickStep(p) PROVE Goal
  <2>1. CASE PickWrite(p)
    BY <2>1 DEF RoomInv, PickInv, PickWrite
  <2>2. CASE ~PickWrite(p)
    BY <1>3, <2>2 DEF PickStep, PickRead, PickFails, PickBegin, tableVars
  <2> QED
    BY <2>1, <2>2
<1>4. ASSUME NEW u \in Leaver, LeaverStep(u) PROVE Goal
  BY <1>4 DEF LeaverStep, Connect, Disconnect, KickCheck, KickWrite, KickFails, tableVars
<1>5. CASE UNCHANGED roomVars
  BY <1>5 DEF roomVars, tableVars
<1> QED
  BY <1>1, <1>2, <1>3, <1>4, <1>5, RoomMoves

\* However many PickWord requests race, a chosen word is never replaced and turns
\* are never rewritten (emojix.go:475-497, sqlite.go:381-388).
THEOREM WordKeptAlways == Spec => WordKept
<1> DEFINE Kept ==
      /\ Len(turns) <= Len(turns')
      /\ \A i \in DOMAIN turns :
           turns'[i] # turns[i] =>
             turns[i].word = None /\ turns'[i] = [turns[i] EXCEPT !.word = turns'[i].word]
<1>1. ASSUME RoomInv, [Next]_vars PROVE Kept
  <2>0. turns \in Seq(Turn) /\ Len(turns) \in Nat /\ DOMAIN turns = 1..Len(turns)
    BY <1>1, LenProperties DEF RoomInv, TypeOK
  <2>1. CASE UNCHANGED turns
    BY <2>0, <2>1
  <2>2. ASSUME NEW x \in Joiner \cup Loop, DraftGood(x), AddTurn(x) PROVE Kept
    BY <2>0, <2>2, AddTurnFacts DEF DraftGood
  <2>3. ASSUME NEW i \in DOMAIN turns, NEW w \in Word, SetTurnWord(i, w) PROVE Kept
    <3>1. /\ Len(turns') = Len(turns)
          /\ \A k \in DOMAIN turns :
               turns'[k] = IF k = i /\ turns[k].word = None
                           THEN [turns[k] EXCEPT !.word = w] ELSE turns[k]
      BY <2>0, <2>3, SetTurnWordFacts
    <3>2. \A k \in DOMAIN turns : turns[k] \in Turn
      BY <2>0, ElementOfSeq
    <3>3. ASSUME NEW k \in DOMAIN turns, turns'[k] # turns[k]
          PROVE  turns[k].word = None /\ turns'[k] = [turns[k] EXCEPT !.word = turns'[k].word]
      <4>1. turns[k].word = None /\ turns'[k] = [turns[k] EXCEPT !.word = w]
        BY <3>1, <3>3
      <4>2. turns'[k].word = w
        BY <3>2, <4>1 DEF Turn
      <4> QED
        BY <4>1, <4>2
    <3> QED
      BY <2>0, <3>1, <3>3
  <2> QED
    BY <1>1, <2>1, <2>2, <2>3, TurnsChange
<1>2. RoomInv /\ [Next]_vars => [Kept]_vars
  BY <1>1
<1> QED
  BY <1>2, RoomInvAlways, PTL DEF Spec, WordKept

\* A request that checked one turn and updates it after the next one was created
\* still gives its turn a word of its own (emojix.go:486-497).
THEOREM PickedWordWasOfferedAlways == Spec => []PickedWordWasOffered
<1>1. Init => PickedWordWasOffered
  BY DEF Init, PickedWordWasOffered
<1>2. ASSUME RoomInv, PickedWordWasOffered, [Next]_vars PROVE PickedWordWasOffered'
  <2>0. turns \in Seq(Turn) /\ Len(turns) \in Nat /\ DOMAIN turns = 1..Len(turns)
    BY <1>2, LenProperties DEF RoomInv, TypeOK
  <2>1. CASE UNCHANGED turns
    BY <1>2, <2>1 DEF PickedWordWasOffered
  <2>2. ASSUME NEW x \in Joiner \cup Loop, DraftGood(x), AddTurn(x)
        PROVE  PickedWordWasOffered'
    <3>1. /\ DOMAIN turns' = 1..(Len(turns) + 1)
          /\ \A i \in DOMAIN turns : turns'[i] = turns[i]
          /\ turns'[Len(turns) + 1] = draft[x]
      BY <2>0, <2>2, AddTurnFacts DEF DraftGood
    <3>2. turns'[Len(turns) + 1].word = None
      BY <2>2, <3>1 DEF DraftGood
    <3>3. \A i \in DOMAIN turns' : i \in DOMAIN turns \/ i = Len(turns) + 1
      BY <2>0, <3>1
    <3> QED
      BY <1>2, <3>1, <3>2, <3>3 DEF PickedWordWasOffered
  <2>3. ASSUME NEW i \in DOMAIN turns, NEW w \in Word, w \in turns[i].options,
               SetTurnWord(i, w)
        PROVE  PickedWordWasOffered'
    <3>1. /\ DOMAIN turns' = DOMAIN turns
          /\ \A k \in DOMAIN turns :
               turns'[k] = IF k = i /\ turns[k].word = None
                           THEN [turns[k] EXCEPT !.word = w] ELSE turns[k]
      BY <2>0, <2>3, SetTurnWordFacts
    <3>2. \A k \in DOMAIN turns : turns[k] \in Turn
      BY <2>0, ElementOfSeq
    <3> QED
      BY <1>2, <2>3, <3>1, <3>2 DEF PickedWordWasOffered, Turn
  <2> QED
    BY <1>2, <2>1, <2>2, <2>3, TurnsChange
<1> QED
  BY <1>1, <1>2, RoomInvAlways, PTL DEF Spec

-----------------------------------------------------------------------------
(* Seats, with one JoinGame request at a time *)

\* The table of players and the joins' locals change by a join's step, or by a
\* kick, which leaves the joins alone.
LEMMA PlayersChange ==
  ASSUME [Next]_vars
  PROVE  \/ \E j \in Joiner : JoinStep(j)
         \/ UNCHANGED <<players, joinVars>>
         \/ \E u \in User : SetPlayerState(u, FALSE) /\ UNCHANGED joinVars
<1>1. ASSUME NEW l \in Loop, HandlerStep(l) PROVE UNCHANGED <<players, joinVars>>
  BY <1>1 DEF HandlerStep, TurnEndCount, TurnEndReadWords, TurnEndReadTeller,
       TurnEndAddTurn, TurnEndStop,
     TurnEndReturn, TurnEndFails, tableVars
<1>2. ASSUME NEW p \in Picker, PickStep(p) PROVE UNCHANGED <<players, joinVars>>
  BY <1>2 DEF PickStep, PickRead, PickWrite, PickFails, PickBegin, tableVars
<1>3. ASSUME NEW u \in Leaver, LeaverStep(u)
      PROVE  \/ UNCHANGED <<players, joinVars>>
             \/ \E v \in User : SetPlayerState(v, FALSE) /\ UNCHANGED joinVars
  BY <1>3, RoomAssumption DEF LeaverStep, Connect, Disconnect, KickCheck, KickWrite, KickFails,
     tableVars
<1>4. CASE UNCHANGED roomVars
  BY <1>4 DEF roomVars, tableVars
<1> QED
  BY <1>1, <1>2, <1>3, <1>4, RoomMoves

\* A join that is about to add a row found none, and nobody can add one meanwhile.
SeatInv ==
  SerialJoins =>
    /\ \A i, k \in DOMAIN players : players[i].user = players[k].user => i = k
    /\ \A j \in Joiner : joinPc[j] = "write" /\ joinHow[j] = "add" =>
         \A i \in DOMAIN players : players[i].user # joinUser[j]

LEMMA SeatInit == Init => SeatInv
  BY DEF Init, SeatInv

LEMMA SeatStep ==
  ASSUME RoomInv, SeatInv, [Next]_vars
  PROVE  SeatInv'
<1> SUFFICES ASSUME SerialJoins PROVE SeatInv'
  BY DEF SeatInv, SerialJoins
<1>0. players \in Seq(Row)
  BY DEF RoomInv, TypeOK
<1>1. ASSUME NEW u \in User, NEW state \in BOOLEAN, SetPlayerState(u, state)
      PROVE  \A i, k \in DOMAIN players' : players'[i].user = players'[k].user => i = k
  BY <1>0, <1>1, SetPlayerStateFacts DEF SeatInv
<1>2. ASSUME NEW j \in Joiner, JoinStep(j) PROVE SeatInv'
  <2>0. /\ Joiner = {j}
        /\ joinPc \in [Joiner -> {"idle", "write", "check", "count", "words", "read", "add",
                                 "start"}]
        /\ joinUser \in [Joiner -> User] /\ joinHow \in [Joiner -> {"add", "reactivate"}]
    BY DEF SerialJoins, RoomInv, TypeOK
  <2>1. ASSUME NEW u \in User, JoinRead(j, u) PROVE SeatInv'
    BY <2>0, <2>1 DEF JoinRead, JoinGoto, SeatBy, RowsOf, SeatInv, tableVars
  <2>2. CASE JoinWrite(j)
    <3>1. joinPc[j] = "write" /\ joinPc' = [joinPc EXCEPT ![j] = "check"]
      BY <2>2 DEF JoinWrite, JoinGoto
    <3>2. CASE joinHow[j] = "add"
      <4>1. /\ DOMAIN players = 1..Len(players) /\ Len(players) \in Nat
            /\ DOMAIN players' = 1..(Len(players) + 1)
            /\ \A i \in DOMAIN players : players'[i] = players[i]
            /\ players'[Len(players) + 1] = [user |-> joinUser[j], active |-> TRUE]
        BY <1>0, <2>0, <2>2, <3>2, AddPlayerFacts DEF JoinWrite
      <4>2. \A i \in DOMAIN players : players[i].user # joinUser[j]
        BY <3>1, <3>2 DEF SeatInv
      <4>3. \A i, k \in DOMAIN players : players[i].user = players[k].user => i = k
        BY DEF SeatInv
      <4>4. \A i \in DOMAIN players' : i \in DOMAIN players \/ i = Len(players) + 1
        BY <4>1
      <4>5. \A i, k \in DOMAIN players' : players'[i].user = players'[k].user => i = k
        BY <4>1, <4>2, <4>3, <4>4
      <4> QED
        BY <2>0, <3>1, <4>5 DEF SeatInv
    <3>3. CASE joinHow[j] = "reactivate"
      <4>1. SetPlayerState(joinUser[j], TRUE)
        BY <2>2, <3>3 DEF JoinWrite
      <4>2. \A i, k \in DOMAIN players' : players'[i].user = players'[k].user => i = k
        BY <1>1, <2>0, <4>1
      <4> QED
        BY <2>0, <3>1, <4>2 DEF SeatInv
    <3> QED
      BY <2>0, <3>2, <3>3
  <2>3. CASE \/ JoinCheckRunning(j) \/ JoinCount(j) \/ JoinReadWords(j)
             \/ JoinReadTeller(j) \/ JoinAddTurn(j) \/ JoinStart(j) \/ JoinFails(j)
    BY <2>0, <2>3 DEF JoinCheckRunning, JoinCount, JoinReadWords, JoinReadTeller,
       JoinAddTurn, JoinStart,
       JoinFails, JoinGoto, SeatInv, tableVars
  <2> QED
    BY <1>2, <2>1, <2>2, <2>3 DEF JoinStep
<1>3. CASE UNCHANGED <<players, joinVars>>
  BY <1>3 DEF SeatInv, joinVars
<1>4. ASSUME NEW u \in User, SetPlayerState(u, FALSE), UNCHANGED joinVars PROVE SeatInv'
  <2>1. /\ DOMAIN players' = DOMAIN players
        /\ \A i \in DOMAIN players : players'[i].user = players[i].user
    BY <1>0, <1>4, SetPlayerStateFacts
  <2> QED
    BY <1>4, <2>1 DEF SeatInv, joinVars
<1> QED
  BY <1>2, <1>3, <1>4, PlayersChange

\* With one join at a time nobody has two seats, whatever kicks happen between the
\* read and the write of a join (joingame.go:44-65).
THEOREM OneSeatPerUserAlways == Spec => []OneSeatPerUser
<1>1. SeatInv => OneSeatPerUser
  BY DEF SeatInv, OneSeatPerUser
<1> QED
  BY <1>1, SeatInit, SeatStep, RoomInvAlways, PTL DEF Spec

\* Only a join starts a loop: every other step leaves the registered loop and the
\* joins alone or removes the loop.
LEMMA OnlyJoinsStart ==
  ASSUME [Next]_vars
  PROVE  \/ \E j \in Joiner : JoinStep(j)
         \/ cancelMap' \in {cancelMap, None} /\ UNCHANGED joinVars
<1>1. ASSUME NEW l \in Loop, HandlerStep(l)
      PROVE  cancelMap' \in {cancelMap, None} /\ UNCHANGED joinVars
  BY <1>1 DEF HandlerStep, TurnEndCount, TurnEndReadWords, TurnEndReadTeller,
       TurnEndAddTurn, TurnEndStop,
     TurnEndReturn, TurnEndFails, GL!StopGame, GL!HandlerReturn, GL!mapVars, loopVars
<1>2. ASSUME NEW l \in Loop, LoopStep(l) \/ ReceiveEnd(l)
      PROVE  UNCHANGED cancelMap /\ UNCHANGED joinVars
  BY <1>2 DEF LoopStep, ReceiveEnd, roomVars, GL!ReceiveEnd, GL!ReceiveBegin, GL!PickTimeout,
              GL!ResetBegin,
     GL!ArmTurn, GL!CloseArmed, GL!TurnTimeout, GL!ClearEnd, GL!Exit, GL!mapVars
<1>3. ASSUME NEW p \in Picker, PickStep(p) PROVE UNCHANGED cancelMap /\ UNCHANGED joinVars
  BY <1>3 DEF PickStep, PickRead, PickWrite, PickFails, PickBegin, GL!BeginTurnLock,
     GL!BeginTurnSend, GL!BeginTurnReturn, GL!mapVars, loopVars
<1>4. ASSUME NEW u \in Leaver, LeaverStep(u) PROVE UNCHANGED cancelMap /\ UNCHANGED joinVars
  BY <1>4 DEF LeaverStep, Connect, Disconnect, KickCheck, KickWrite, KickFails, loopVars
<1>5. ASSUME NEW e \in Ender, EnderStep(e) PROVE UNCHANGED cancelMap /\ UNCHANGED joinVars
  BY <1>5 DEF EnderStep, EndGameTurnLookup, EndGameTurnSend, roomVars, GL!EndGameTurnLookup,
     GL!EndGameTurnSend, GL!mapVars
<1>6. CASE UNCHANGED vars
  BY <1>6 DEF vars, roomVars, loopVars
<1> QED
  BY <1>1, <1>2, <1>3, <1>4, <1>5, <1>6 DEF Next

\* Between tryStartGame's check and its Start, no loop appears.
StartInv ==
  SerialJoins =>
    \A j \in Joiner :
      joinPc[j] \in {"count", "words", "read", "add", "start"} => cancelMap = None

LEMMA StartStep ==
  ASSUME RoomInv, StartInv, [Next]_vars
  PROVE  StartInv'
<1> SUFFICES ASSUME SerialJoins PROVE StartInv'
  BY DEF StartInv, SerialJoins
<1>1. ASSUME NEW j \in Joiner, JoinStep(j) PROVE StartInv'
  <2>0. /\ Joiner = {j}
        /\ joinPc \in [Joiner -> {"idle", "write", "check", "count", "words", "read", "add",
                                "start"}]
    BY DEF SerialJoins, RoomInv, TypeOK
  <2>1. ASSUME NEW u \in User, JoinRead(j, u) PROVE StartInv'
    BY <2>0, <2>1 DEF JoinRead, JoinGoto, StartInv
  <2>2. CASE JoinWrite(j) \/ JoinStart(j) \/ JoinFails(j)
    BY <2>0, <2>2 DEF JoinWrite, JoinStart, JoinFails, JoinGoto, StartInv
  <2>3. CASE JoinCheckRunning(j)
    BY <2>0, <2>3 DEF JoinCheckRunning, JoinGoto, GL!Running, StartInv, loopVars
  <2>4. CASE JoinCount(j) \/ JoinReadWords(j) \/ JoinReadTeller(j) \/ JoinAddTurn(j)
    <3>1. cancelMap = None
      BY <2>4 DEF JoinCount, JoinReadWords, JoinReadTeller, JoinAddTurn, JoinGoto, StartInv
    <3>2. UNCHANGED cancelMap
      BY <2>4 DEF JoinCount, JoinReadWords, JoinReadTeller, JoinAddTurn, loopVars
    <3> QED
      BY <3>1, <3>2 DEF StartInv
  <2> QED
    BY <1>1, <2>1, <2>2, <2>3, <2>4 DEF JoinStep
<1>2. CASE cancelMap' \in {cancelMap, None} /\ UNCHANGED joinVars
  BY <1>2 DEF StartInv, joinVars
<1> QED
  BY <1>1, <1>2, OnlyJoinsStart

\* With one join at a time, a join adds a turn only to a game without a loop, so it
\* never replaces the turn somebody is playing (emojix.go:425-448).
THEOREM StartAddsTurnOnlyWhenStoppedAlways == Spec => StartAddsTurnOnlyWhenStopped
<1> DEFINE StartsStopped ==
      SerialJoins =>
        \A j \in Joiner : joinPc[j] = "add" /\ joinPc'[j] = "start" => ~GL!Running
<1>1. Init => StartInv
  BY DEF Init, StartInv
<1>2. StartInv => StartsStopped
  BY DEF StartInv, GL!Running
<1> HIDE DEF StartsStopped
<1>3. Spec => [][StartsStopped]_vars
  BY <1>1, <1>2, StartStep, RoomInvAlways, PTL DEF Spec
<1> QED
  BY <1>3 DEF StartsStopped, StartAddsTurnOnlyWhenStopped

\* A start that adds a turn meets no live loop, whatever goroutines of stopped loops are
\* still inside their last turn-end handler (emojix.go:425-450, gameloop.go:96-113).
THEOREM StartMeetsOnlyCancelled ==
  Spec => [][SerialJoins =>
               \A j \in Joiner : joinPc[j] = "add" /\ joinPc'[j] = "start" =>
                 \A l \in Loop : loopPc[l] # "none" => l \in cancelled]_vars
<1> DEFINE StartsStopped ==
             SerialJoins =>
               \A j \in Joiner : joinPc[j] = "add" /\ joinPc'[j] = "start" => ~GL!Running
           OnlyCancelled ==
             SerialJoins =>
               \A j \in Joiner : joinPc[j] = "add" /\ joinPc'[j] = "start" =>
                 \A l \in Loop : loopPc[l] # "none" => l \in cancelled
<1>1. LoopInside /\ StartsStopped => OnlyCancelled
  BY NameAssumption DEF LoopInside, GL!OneLiveLoop, GL!Running
<1>2. Spec => [][StartsStopped]_vars
  BY StartAddsTurnOnlyWhenStoppedAlways DEF StartAddsTurnOnlyWhenStopped
<1> HIDE DEF StartsStopped, OnlyCancelled
<1>3. Spec => [][OnlyCancelled]_vars
  BY <1>1, <1>2, LoopSafeInRoom, PTL
<1> QED
  BY <1>3 DEF OnlyCancelled

-----------------------------------------------------------------------------
(* Capacity, with one JoinGame request at a time *)

LEMMA ActiveFinite ==
  ASSUME players \in Seq(Row)
  PROVE  IsFiniteSet(Active) /\ Cardinality(Active) \in Nat
<1>1. DOMAIN players = 1..Len(players) /\ Len(players) \in Nat
  BY LenProperties
<1>2. IsFiniteSet(1..Len(players))
  BY <1>1, FS_Interval
<1>3. Active \in SUBSET (1..Len(players))
  BY <1>1 DEF Active
<1> QED
  BY <1>2, <1>3, FS_Subset, FS_CardinalityType

\* A join makes at most one more row active: the one it adds, or the user's row.
LEMMA JoinSeatsOne ==
  ASSUME NEW j \in Joiner, RoomInv, SeatInv, SerialJoins, JoinWrite(j)
  PROVE  \E x : Active' \subseteq Active \cup {x}
<1>0. joinUser[j] \in User /\ players \in Seq(Row)
  BY DEF RoomInv, TypeOK
<1>1. CASE joinHow[j] = "add"
  <2>1. /\ DOMAIN players = 1..Len(players)
        /\ DOMAIN players' = 1..(Len(players) + 1) /\ Len(players) \in Nat
        /\ \A i \in DOMAIN players : players'[i] = players[i]
    BY <1>0, <1>1, AddPlayerFacts DEF JoinWrite
  <2>2. Active' \subseteq Active \cup {Len(players) + 1}
    BY <2>1 DEF Active
  <2> QED
    BY <2>2
<1>2. CASE joinHow[j] # "add"
  <2>1. /\ DOMAIN players' = DOMAIN players
        /\ \A i \in DOMAIN players :
             players'[i].active = IF players[i].user = joinUser[j] THEN TRUE
                                  ELSE players[i].active
    BY <1>0, <1>2, SetPlayerStateFacts DEF JoinWrite
  <2>2. \A i, k \in DOMAIN players : players[i].user = players[k].user => i = k
    BY DEF SeatInv
  <2>3. \A i \in Active' :
          i \in Active \/ (i \in DOMAIN players /\ players[i].user = joinUser[j])
    BY <2>1 DEF Active
  <2>4. CASE \E i \in DOMAIN players : players[i].user = joinUser[j]
    <3>1. PICK i \in DOMAIN players : players[i].user = joinUser[j]
      BY <2>4
    <3>2. Active' \subseteq Active \cup {i}
      BY <2>2, <2>3, <3>1
    <3> QED
      BY <3>2
  <2>5. CASE ~\E i \in DOMAIN players : players[i].user = joinUser[j]
    BY <2>3, <2>5
  <2> QED
    BY <2>4, <2>5
<1> QED
  BY <1>1, <1>2

\* A join that is about to write found a free seat, and only kicks can follow.
CapacityInv ==
  SerialJoins =>
    /\ Cardinality(Active) <= Capacity
    /\ \A j \in Joiner : joinPc[j] = "write" => Cardinality(Active) < Capacity

LEMMA CapacityInit == Init => CapacityInv
<1> SUFFICES ASSUME Init PROVE CapacityInv
  OBVIOUS
<1>1. Active \subseteq {1}
  BY DEF Init, Active
<1>2. Active = {} \cup {1}
  BY <1>1 DEF Init, Active
<1>3. Cardinality(Active) = 1
  BY <1>2, FS_EmptySet, FS_AddElement
<1>4. Capacity \in Nat \ {0}
  BY RoomAssumption
<1> QED
  BY <1>3, <1>4 DEF Init, CapacityInv

LEMMA CapacityStep ==
  ASSUME RoomInv, SeatInv, CapacityInv, [Next]_vars
  PROVE  CapacityInv'
<1> SUFFICES ASSUME SerialJoins PROVE CapacityInv'
  BY DEF CapacityInv, SerialJoins
<1>0. /\ players \in Seq(Row) /\ Capacity \in Nat
      /\ IsFiniteSet(Active) /\ Cardinality(Active) \in Nat
      /\ Cardinality(Active) <= Capacity
  BY RoomAssumption, ActiveFinite DEF RoomInv, TypeOK, CapacityInv
<1>1. ASSUME NEW j \in Joiner, JoinStep(j) PROVE CapacityInv'
  <2>0. /\ Joiner = {j}
        /\ joinPc \in [Joiner -> {"idle", "write", "check", "count", "words", "read", "add",
                                "start"}]
    BY DEF SerialJoins, RoomInv, TypeOK
  <2>1. ASSUME NEW u \in User, JoinRead(j, u) PROVE CapacityInv'
    <3>1. Cardinality(Active) < Capacity /\ UNCHANGED players
      BY <2>1 DEF JoinRead, HasRoom, tableVars
    <3>2. Active' = Active
      BY <3>1 DEF Active
    <3> QED
      BY <1>0, <3>1, <3>2 DEF CapacityInv
  <2>2. CASE JoinWrite(j)
    <3>1. Cardinality(Active) < Capacity /\ joinPc'[j] # "write"
      BY <2>0, <2>2 DEF JoinWrite, JoinGoto, CapacityInv
    <3>2. PICK x : Active' \subseteq Active \cup {x}
      BY <2>2, JoinSeatsOne
    <3>3. /\ IsFiniteSet(Active \cup {x})
          /\ Cardinality(Active \cup {x}) <= Cardinality(Active) + 1
          /\ Cardinality(Active \cup {x}) \in Nat
      <4>1. /\ IsFiniteSet(Active \cup {x})
            /\ Cardinality(Active \cup {x}) =
                 IF x \in Active THEN Cardinality(Active) ELSE Cardinality(Active) + 1
        BY <1>0, FS_AddElement
      <4> QED
        BY <1>0, <4>1
    <3>4. Cardinality(Active') <= Cardinality(Active \cup {x})
      BY <3>2, <3>3, FS_Subset
    <3>5. Cardinality(Active') \in Nat
      BY <3>2, <3>3, FS_Subset, FS_CardinalityType
    <3>6. Cardinality(Active') <= Capacity
      BY <1>0, <3>1, <3>3, <3>4, <3>5
    <3> QED
      BY <2>0, <3>1, <3>6 DEF CapacityInv
  <2>3. CASE \/ JoinCheckRunning(j) \/ JoinCount(j) \/ JoinReadWords(j)
             \/ JoinReadTeller(j) \/ JoinAddTurn(j) \/ JoinStart(j) \/ JoinFails(j)
    <3>1. UNCHANGED players /\ joinPc'[j] # "write"
      BY <2>0, <2>3 DEF JoinCheckRunning, JoinCount, JoinReadWords, JoinReadTeller,
       JoinAddTurn, JoinStart,
         JoinFails, JoinGoto, tableVars
    <3>2. Active' = Active
      BY <3>1 DEF Active
    <3> QED
      BY <1>0, <2>0, <3>1, <3>2 DEF CapacityInv
  <2> QED
    BY <1>1, <2>1, <2>2, <2>3 DEF JoinStep
<1>2. CASE UNCHANGED <<players, joinVars>>
  <2>1. Active' = Active
    BY <1>2 DEF Active
  <2> QED
    BY <1>2, <2>1 DEF CapacityInv, joinVars
<1>3. ASSUME NEW u \in User, SetPlayerState(u, FALSE), UNCHANGED joinVars
      PROVE  CapacityInv'
  <2>1. /\ DOMAIN players' = DOMAIN players
        /\ \A i \in DOMAIN players : players'[i].active => players[i].active
    BY <1>0, <1>3, SetPlayerStateFacts
  <2>2. Active' \subseteq Active
    BY <2>1 DEF Active
  <2>3. Cardinality(Active') <= Cardinality(Active) /\ Cardinality(Active') \in Nat
    BY <1>0, <2>2, FS_Subset, FS_CardinalityType
  <2> QED
    BY <1>0, <1>3, <2>3 DEF CapacityInv, joinVars
<1> QED
  BY <1>1, <1>2, <1>3, PlayersChange

\* With one join at a time there are never more active players than seats, whatever
\* kicks and reactivations happen in between (joingame.go:57-65).
THEOREM CapacityKeptAlways == Spec => []CapacityKept
<1>1. CapacityInv => CapacityKept
  BY DEF CapacityInv, CapacityKept
<1> QED
  BY <1>1, CapacityInit, CapacityStep, SeatInit, SeatStep, RoomInvAlways, PTL DEF Spec
-----------------------------------------------------------------------------
(* Picks and the loop that waits for them *)

\* A goroutine outside onTurnEnd has no handler under way, and a request that is not in its
\* last call is not inside BeginTurn.
ReachInv ==
  /\ \A l \in Loop : loopPc[l] # "handler" => handlerPc[l] = "count"
  /\ \A p \in Picker : pickPc[p] # "begin" => pickerPc[p] = "idle"

\* The loop's variables keep their types inside the room.
LEMMA LoopTyped == Spec => []GL!TypeOK
<1>1. LoopFacts!Spec => []LoopFacts!TypeOK
  BY LoopFacts!TypeCorrect, NameAssumption
<1>2. LoopFacts!TypeOK => GL!TypeOK
  BY DEF LoopFacts!TypeOK, LoopFacts!ChanRef, LoopFacts!LoopPc, GL!TypeOK, GL!ChanRef,
     GL!LoopPc
<1> QED
  BY <1>1, <1>2, SameLoop, LoopUsedAsSpecifiedAlways, PTL
  DEF LoopUsedAsSpecified, GL!Spec, LoopFacts!Spec

\* What the loop's own steps leave alone.
LEMMA LoopStepKeeps ==
  ASSUME NEW k \in Loop, LoopStep(k) \/ ReceiveEnd(k)
  PROVE  /\ UNCHANGED <<cancelMap, pickerPc, roomVars>>
         /\ \E to \in {"none", "pick", "skip", "arming", "close", "play", "ended", "handler"} :
              to # "pick" /\ loopPc' = [loopPc EXCEPT ![k] = to]
         /\ loopPc[k] # "handler"
<1>1. UNCHANGED <<cancelMap, pickerPc, roomVars>>
  BY DEF LoopStep, ReceiveEnd, GL!ReceiveBegin, GL!PickTimeout, GL!ResetBegin, GL!ArmTurn,
     GL!CloseArmed, GL!ReceiveEnd, GL!TurnTimeout, GL!ClearEnd, GL!Exit, GL!mapVars,
     GL!pickerVars
<1>2. \E from, to \in {"none", "pick", "skip", "arming", "close", "play", "ended", "handler"} :
        /\ loopPc' = [loopPc EXCEPT ![k] = to]
        /\ loopPc[k] = from /\ from # "handler" /\ to # "pick"
  BY DEF LoopStep, ReceiveEnd, GL!ReceiveBegin, GL!PickTimeout, GL!ResetBegin, GL!ArmTurn,
     GL!CloseArmed, GL!ReceiveEnd, GL!TurnTimeout, GL!ClearEnd, GL!Exit, GL!Done, GL!Goto
<1> QED
  BY <1>1, <1>2

LEMMA ReachStep ==
  ASSUME RoomInv, GL!TypeOK, ReachInv, [Next]_vars
  PROVE  ReachInv'
<1>0. /\ handlerPc \in [Loop -> {"count", "words", "read", "add", "rewords", "reread",
                               "readd", "stop", "done"}]
      /\ pickPc \in [Picker -> {"idle", "write", "begin"}]
      /\ loopPc \in [Loop -> GL!LoopPc]
      /\ pickerPc \in [Picker -> {"idle", "send", "wait"}]
  BY DEF RoomInv, TypeOK, GL!TypeOK
<1>1. ASSUME NEW j \in Joiner, JoinStep(j) PROVE ReachInv'
  <2>1. UNCHANGED <<handlerPc, pickPc, pickerPc>>
    BY <1>1 DEF JoinStep, JoinRead, JoinWrite, JoinCheckRunning, JoinCount, JoinReadWords,
       JoinReadTeller, JoinAddTurn, JoinStart, JoinFails, GL!Start, GL!pickerVars, loopVars,
       pickVars
  <2>2. CASE UNCHANGED loopPc
    BY <2>1, <2>2 DEF ReachInv
  <2>3. ASSUME NEW k \in Loop, GL!Start(k) PROVE ReachInv'
    <3>1. loopPc[k] = "none" /\ loopPc' = [loopPc EXCEPT ![k] = "pick"]
      BY <2>3 DEF GL!Start
    <3> QED
      BY <1>0, <2>1, <3>1 DEF ReachInv
  <2>4. UNCHANGED loopPc \/ \E k \in Loop : GL!Start(k)
    BY <1>1 DEF JoinStep, JoinRead, JoinWrite, JoinCheckRunning, JoinCount, JoinReadWords,
       JoinReadTeller, JoinAddTurn, JoinStart, JoinFails, loopVars
  <2> QED
    BY <2>2, <2>3, <2>4
<1>2. ASSUME NEW k \in Loop, LoopStep(k) \/ ReceiveEnd(k) PROVE ReachInv'
  <2>1. /\ UNCHANGED <<handlerPc, pickPc, pickerPc>>
        /\ loopPc[k] # "handler"
        /\ \E to : loopPc' = [loopPc EXCEPT ![k] = to]
    BY <1>2, LoopStepKeeps DEF roomVars, pickVars
  <2>2. \A l \in Loop : loopPc[l] = "handler" => loopPc'[l] = "handler"
    BY <1>0, <2>1
  <2> QED
    BY <2>1, <2>2 DEF ReachInv
<1>3. ASSUME NEW k \in Loop, HandlerStep(k) PROVE ReachInv'
  <2>1. UNCHANGED <<pickPc, pickerPc>>
    BY <1>3 DEF HandlerStep, TurnEndCount, TurnEndReadWords, TurnEndReadTeller, TurnEndAddTurn,
       TurnEndStop, TurnEndReturn, TurnEndFails, GL!StopGame, GL!HandlerReturn, GL!pickerVars,
       loopVars, pickVars
  <2>2. loopPc[k] = "handler" /\ \A l \in Loop : l # k => handlerPc'[l] = handlerPc[l]
    BY <1>0, <1>3 DEF HandlerStep, TurnEndCount, TurnEndReadWords, TurnEndReadTeller,
       TurnEndAddTurn, TurnEndStop, TurnEndReturn, TurnEndFails, HandlerGoto
  <2>3. CASE TurnEndReturn(k)
    <3>1. handlerPc'[k] = "count" /\ \A l \in Loop : l # k => loopPc'[l] = loopPc[l]
      BY <1>0, <2>3 DEF TurnEndReturn, HandlerGoto, GL!HandlerReturn, GL!Goto
    <3> QED
      BY <2>1, <2>2, <3>1 DEF ReachInv
  <2>4. CASE ~TurnEndReturn(k)
    <3>1. UNCHANGED loopPc
      BY <1>3, <2>4 DEF HandlerStep, TurnEndCount, TurnEndReadWords, TurnEndReadTeller,
         TurnEndAddTurn, TurnEndStop, TurnEndFails, GL!StopGame, GL!loopVars, loopVars
    <3> QED
      BY <2>1, <2>2, <3>1 DEF ReachInv
  <2> QED
    BY <2>3, <2>4
<1>4. ASSUME NEW p \in Picker, PickStep(p) PROVE ReachInv'
  <2>1. UNCHANGED <<loopPc, handlerPc>>
    BY <1>4 DEF PickStep, PickRead, PickWrite, PickFails, PickBegin, GL!BeginTurnLock,
       GL!BeginTurnSend, GL!BeginTurnReturn, GL!loopVars, loopVars
  <2>2. CASE PickBegin(p)
    <3>1. pickPc[p] = "begin"
      BY <2>2 DEF PickBegin
    <3>2. \A q \in Picker : q # p => pickPc'[q] = pickPc[q] /\ pickerPc'[q] = pickerPc[q]
      <4>1. \/ UNCHANGED pickPc \/ pickPc' = [pickPc EXCEPT ![p] = "idle"]
        BY <2>2 DEF PickBegin
      <4>2. UNCHANGED pickerPc \/ \E to : pickerPc' = [pickerPc EXCEPT ![p] = to]
        BY <2>2 DEF PickBegin, GL!BeginTurnLock, GL!BeginTurnSend, GL!BeginTurnReturn, loopVars
      <4> QED
        BY <1>0, <4>1, <4>2
    <3>3. pickPc'[p] # "begin" => pickerPc'[p] = "idle"
      <4>1. CASE UNCHANGED pickPc
        BY <3>1, <4>1
      <4>2. CASE GL!BeginTurnReturn(p)
        BY <1>0, <4>2 DEF GL!BeginTurnReturn
      <4>3. CASE pickerPc[p] = "idle" /\ UNCHANGED loopVars
        BY <4>3 DEF loopVars
      <4> QED
        BY <2>2, <4>1, <4>2, <4>3 DEF PickBegin
    <3> QED
      BY <2>1, <3>2, <3>3 DEF ReachInv
  <2>3. CASE ~PickBegin(p)
    <3>1. /\ UNCHANGED pickerPc
          /\ pickPc[p] # "begin"
          /\ \A q \in Picker : q # p => pickPc'[q] = pickPc[q]
      BY <1>0, <1>4, <2>3 DEF PickStep, PickRead, PickWrite, PickFails, loopVars
    <3> QED
      BY <2>1, <3>1 DEF ReachInv
  <2> QED
    BY <2>2, <2>3
<1>5. ASSUME NEW u \in Leaver, LeaverStep(u) PROVE ReachInv'
  BY <1>5 DEF LeaverStep, Connect, Disconnect, KickCheck, KickWrite, KickFails, pickVars,
     loopVars, ReachInv
<1>6. ASSUME NEW e \in Ender, EnderStep(e) PROVE ReachInv'
  BY <1>6 DEF EnderStep, EndGameTurnLookup, EndGameTurnSend, GL!EndGameTurnLookup,
     GL!EndGameTurnSend, GL!loopVars, GL!pickerVars, roomVars, pickVars, ReachInv
<1>7. CASE UNCHANGED vars
  BY <1>7 DEF vars, roomVars, pickVars, loopVars, ReachInv
<1> QED
  BY <1>1, <1>2, <1>3, <1>4, <1>5, <1>6, <1>7 DEF Next

LEMMA ReachInvAlways == Spec => [](RoomInv /\ GL!TypeOK /\ ReachInv)
<1>1. Init => ReachInv
  BY DEF Init, GL!Init, ReachInv
<1> QED
  BY <1>1, RoomInvAlways, LoopTyped, ReachStep, PTL DEF Spec

\* A step that leaves the latest turn, goroutine l and whoever is on the way to it alone
\* does not make the loop wait for a pick made before.
LEMMA OutrunBefore ==
  ASSUME NEW l \in Loop, UNCHANGED <<turns, cancelMap>>, loopPc'[l] = loopPc[l],
         handlerPc'[l] = handlerPc[l], PickComing(l) => PickComing(l)', Outrun(l)'
  PROVE  Outrun(l)
  BY DEF Outrun

\* A turn that has just been inserted waits for nobody's pick.
LEMMA NewTurnNotOutrun ==
  ASSUME RoomInv, NEW x \in Joiner \cup Loop, DraftGood(x), AddTurn(x), NEW l \in Loop
  PROVE  ~Outrun(l)'
<1>1. turns \in Seq(Turn) /\ draft[x] \in Turn /\ draft[x].word = None
  BY DEF RoomInv, TypeOK, DraftGood
<1>2. /\ Len(turns') = Len(turns) + 1
      /\ turns'[Len(turns) + 1] = draft[x]
  BY <1>1, AppendProperties DEF AddTurn
<1> QED
  BY <1>1, <1>2 DEF Outrun

LEMMA LoopStepNotOutrun ==
  ASSUME GL!TypeOK, ReachInv, NEW k \in Loop, LoopStep(k) \/ ReceiveEnd(k), NEW l \in Loop,
         Outrun(l)'
  PROVE  Outrun(l)
<1>1. /\ UNCHANGED <<turns, cancelMap, pickPc, pickerPc, handlerPc>> /\ loopPc[k] # "handler"
      /\ \E to : to # "pick" /\ loopPc' = [loopPc EXCEPT ![k] = to]
  BY LoopStepKeeps DEF roomVars, tableVars, pickVars
<1>2. k # l
  <2>1. k = l => handlerPc'[l] = "count" /\ loopPc'[l] # "pick"
    BY <1>1 DEF ReachInv, GL!TypeOK
  <2> QED
    BY <2>1 DEF Outrun
<1>3. loopPc'[l] = loopPc[l]
  BY <1>1, <1>2 DEF GL!TypeOK
<1>4. /\ l \in beginSig => l \in beginSig'
      /\ \A p \in Picker : pickerCh[p] = l => pickerCh'[p] = l
  <2>1. CASE ReceiveEnd(k) \/ GL!ReceiveBegin(k) \/ GL!PickTimeout(k) \/ GL!CloseArmed(k)
             \/ GL!TurnTimeout(k) \/ GL!ClearEnd(k)
    BY <1>2, <2>1 DEF ReceiveEnd, GL!ReceiveEnd, GL!ReceiveBegin, GL!PickTimeout,
       GL!CloseArmed, GL!TurnTimeout, GL!ClearEnd, GL!sigVars, GL!pickerVars
  <2>2. CASE GL!ResetBegin(k) \/ GL!ArmTurn(k) \/ GL!Exit(k)
    <3>1. beginSig' = beginSig \ {k} /\ pickerCh' = GL!RetireAll(pickerCh, k)
      BY <2>2 DEF GL!ResetBegin, GL!ArmTurn, GL!Exit, GL!RefreshBegin
    <3> QED
      BY <1>2, <3>1 DEF GL!RetireAll, GL!Retire, GL!TypeOK
  <2> QED
    BY <2>1, <2>2 DEF LoopStep
<1>5. PickComing(l) => PickComing(l)'
  BY <1>1, <1>4 DEF PickComing
<1> QED
  BY <1>1, <1>3, <1>5, OutrunBefore

LEMMA HandlerStepNotOutrun ==
  ASSUME RoomInv, GL!TypeOK, NEW k \in Loop, HandlerStep(k), NEW l \in Loop, Outrun(l)'
  PROVE  Outrun(l)
<1>0. /\ handlerPc \in [Loop -> {"count", "words", "read", "add", "rewords", "reread",
                               "readd", "stop", "done"}]
      /\ loopPc \in [Loop -> GL!LoopPc]
  BY DEF RoomInv, TypeOK, GL!TypeOK
<1>1. CASE TurnEndAddTurn(k)
  <2>1. DraftGood(k) /\ AddTurn(k)
    BY <1>1 DEF TurnEndAddTurn, HandlerGoto, RoomInv, DraftInv
  <2> QED
    BY <2>1, NewTurnNotOutrun
<1>2. CASE TurnEndStop(k)
  <2>1. cancelMap' = None
    BY <1>2 DEF TurnEndStop, GL!StopGame
  <2> QED
    BY <2>1, NameAssumption DEF Outrun
<1>3. CASE TurnEndReturn(k)
  <2>1. /\ UNCHANGED <<turns, cancelMap, pickPc, pickerPc, pickerCh, beginSig>>
        /\ loopPc' = [loopPc EXCEPT ![k] = "pick"] /\ loopPc[k] = "handler"
        /\ handlerPc' = [handlerPc EXCEPT ![k] = "count"] /\ handlerPc[k] = "done"
    BY <1>3 DEF TurnEndReturn, HandlerGoto, GL!HandlerReturn, GL!Goto, GL!mapVars,
       GL!sigVars, GL!pickerVars, tableVars, pickVars
  <2>2. PickComing(l)' = PickComing(l)
    BY <2>1 DEF PickComing
  <2>3. CASE k = l
    BY <2>1, <2>2, <2>3 DEF Outrun
  <2>4. CASE k # l
    <3>1. loopPc'[l] = loopPc[l] /\ handlerPc'[l] = handlerPc[l]
      BY <1>0, <2>1, <2>4
    <3> QED
      BY <2>1, <2>2, <3>1, OutrunBefore
  <2> QED
    BY <2>3, <2>4
<1>4. CASE TurnEndCount(k) \/ TurnEndReadWords(k) \/ TurnEndReadTeller(k) \/ TurnEndFails(k)
  <2>1. /\ UNCHANGED <<turns, cancelMap, loopPc, pickPc, pickerPc, pickerCh, beginSig>>
        /\ loopPc[k] = "handler"
        /\ \E to : to # "done" /\ handlerPc' = [handlerPc EXCEPT ![k] = to]
    BY <1>4 DEF TurnEndCount, TurnEndReadWords, TurnEndReadTeller, TurnEndFails, HandlerGoto,
       tableVars, pickVars, loopVars
  <2>2. PickComing(l)' = PickComing(l)
    BY <2>1 DEF PickComing
  <2>3. k # l
    <3>1. k = l => handlerPc'[l] # "done" /\ loopPc'[l] = "handler"
      BY <1>0, <2>1
    <3> QED
      BY <3>1 DEF Outrun
  <2>4. handlerPc'[l] = handlerPc[l]
    BY <1>0, <2>1, <2>3
  <2> QED
    BY <2>1, <2>2, <2>4, OutrunBefore
<1> QED
  BY <1>1, <1>2, <1>3, <1>4 DEF HandlerStep

LEMMA PickStepNotOutrun ==
  ASSUME RoomInv, GL!TypeOK, ReachInv, NEW p \in Picker, PickStep(p), NEW l \in Loop,
         beginMap = l, Outrun(l)'
  PROVE  Outrun(l)
<1>0. /\ pickPc \in [Picker -> {"idle", "write", "begin"}]
      /\ pickerPc \in [Picker -> {"idle", "send", "wait"}]
      /\ DOMAIN pickerCh = Picker
  BY DEF RoomInv, TypeOK, GL!TypeOK
<1>1. UNCHANGED <<cancelMap, loopPc, handlerPc>>
  BY DEF PickStep, PickRead, PickWrite, PickFails, PickBegin, GL!BeginTurnLock,
     GL!BeginTurnSend, GL!BeginTurnReturn, GL!mapVars, GL!loopVars, loopVars
<1>2. CASE PickWrite(p)
  <2>1. pickPc'[p] = "begin" /\ pickerPc'[p] = "idle"
    BY <1>0, <1>2 DEF PickWrite, ReachInv, loopVars
  <2> QED
    BY <2>1 DEF Outrun, PickComing
<1>3. ASSUME UNCHANGED <<turns, beginSig>>,
             \A q \in Picker : q # p =>
               /\ pickPc'[q] = pickPc[q] /\ pickerPc'[q] = pickerPc[q]
               /\ pickerCh'[q] = pickerCh[q],
             \/ pickPc[p] # "begin" \/ pickerPc[p] = "wait"
      PROVE  Outrun(l)
  <2>1. PickComing(l) => PickComing(l)'
    BY <1>3 DEF PickComing
  <2> QED
    BY <1>1, <1>3, <2>1, OutrunBefore
<1>4. CASE (\E u \in User, w \in Word : PickRead(p, u, w)) \/ PickFails(p)
  <2>1. /\ UNCHANGED <<turns, beginSig, pickerPc, pickerCh>> /\ pickPc[p] # "begin"
        /\ \E to : pickPc' = [pickPc EXCEPT ![p] = to]
    BY <1>4 DEF PickRead, PickFails, loopVars, tableVars
  <2>2. \A q \in Picker : q # p => pickPc'[q] = pickPc[q]
    BY <1>0, <2>1
  <2> QED
    BY <1>3, <2>1, <2>2
<1>5. CASE PickBegin(p)
  <2>1. pickPc[p] = "begin" /\ UNCHANGED turns
    BY <1>5 DEF PickBegin, tableVars
  <2>2. CASE GL!BeginTurnLock(p) /\ UNCHANGED pickPc
    <3>1. pickPc'[p] = "begin" /\ pickerPc'[p] = "send" /\ pickerCh'[p] = l
      BY <1>0, <2>1, <2>2 DEF GL!BeginTurnLock
    <3> QED
      BY <3>1 DEF Outrun, PickComing
  <2>3. CASE GL!BeginTurnSend(p) /\ UNCHANGED pickPc
    <3>1. /\ pickerPc[p] = "send" /\ beginSig' = beginSig \cup ({pickerCh[p]} \ {Old})
          /\ pickerPc' = [pickerPc EXCEPT ![p] = "wait"]
          /\ pickerCh' = [pickerCh EXCEPT ![p] = None]
      BY <2>3 DEF GL!BeginTurnSend
    <3>2. CASE pickerCh[p] = l
      <4>1. l \in beginSig'
        BY <3>1, <3>2, NameAssumption
      <4> QED
        BY <4>1 DEF Outrun, PickComing
    <3>3. CASE pickerCh[p] # l
      <4>1. \A q \in Picker : q # p => pickerPc'[q] = pickerPc[q] /\ pickerCh'[q] = pickerCh[q]
        BY <1>0, <3>1
      <4>2. PickComing(l) => PickComing(l)'
        BY <2>3, <3>1, <3>3, <4>1 DEF PickComing
      <4> QED
        BY <1>1, <2>1, <4>2, OutrunBefore
    <3> QED
      BY <3>2, <3>3
  <2>4. CASE GL!BeginTurnReturn(p) /\ pickPc' = [pickPc EXCEPT ![p] = "idle"]
    <3>1. /\ pickerPc[p] = "wait" /\ UNCHANGED <<beginSig, pickerCh>>
          /\ pickerPc' = [pickerPc EXCEPT ![p] = "idle"]
      BY <2>4 DEF GL!BeginTurnReturn, GL!sigVars
    <3>2. \A q \in Picker : q # p => pickPc'[q] = pickPc[q] /\ pickerPc'[q] = pickerPc[q]
      BY <1>0, <2>4, <3>1
    <3> QED
      BY <1>3, <2>1, <3>1, <3>2
  <2>5. beginMap # None
    BY NameAssumption
  <2> QED
    BY <1>5, <2>2, <2>3, <2>4, <2>5 DEF PickBegin
<1> QED
  BY <1>2, <1>4, <1>5 DEF PickStep

\* The pick of the latest turn reaches the live loop that waits for it, however many picks
\* race and whatever calls of the turn-end handler fail, unless the loop is started after the
\* pick or a cancelled goroutine has registered over the live one (emojix.go:444-448,
\* :495-501, :704-722, gameloop.go:208, :220-223).
THEOREM PicksReachLoopAlways == Spec => PicksReachLoop
<1> DEFINE Reached ==
             \A l \in Loop : ~Outrun(l) /\ Outrun(l)' => loopPc[l] = "none" \/ beginMap # l
<1>1. ASSUME RoomInv, GL!TypeOK, ReachInv, [Next]_vars, NEW l \in Loop, Outrun(l)',
             loopPc[l] # "none", beginMap = l
      PROVE  Outrun(l)
  <2>1. ASSUME NEW j \in Joiner, JoinStep(j) PROVE Outrun(l)
    <3>1. CASE JoinAddTurn(j)
      <4>1. DraftGood(j) /\ AddTurn(j)
        BY <1>1, <3>1 DEF JoinAddTurn, JoinGoto, RoomInv, DraftInv
      <4>2. j \in Joiner \cup Loop
        OBVIOUS
      <4>3. ~Outrun(l)'
        BY <1>1, <4>1, <4>2, NewTurnNotOutrun
      <4> QED
        BY <1>1, <4>3
    <3>2. CASE JoinStart(j)
      <4>1. ASSUME NEW k \in Loop, GL!Start(k) PROVE FALSE
        <5>1. cancelMap' = k /\ loopPc[k] = "none"
          BY <4>1 DEF GL!Start
        <5>2. cancelMap' = l
          BY <1>1 DEF Outrun
        <5> QED
          BY <1>1, <5>1, <5>2
      <4>2. UNCHANGED <<loopVars, turns, handlerPc, pickPc>>
        <5>1. UNCHANGED <<tableVars, pickVars, handlerPc>>
          BY <3>2 DEF JoinStart
        <5>2. UNCHANGED loopVars
          BY <3>2, <4>1 DEF JoinStart
        <5> QED
          BY <5>1, <5>2 DEF tableVars, pickVars
      <4>3. PickComing(l)' = PickComing(l)
        BY <4>2 DEF PickComing, loopVars
      <4> QED
        BY <1>1, <4>2, <4>3, OutrunBefore DEF loopVars
    <3>3. CASE ~JoinAddTurn(j) /\ ~JoinStart(j)
      <4>1. UNCHANGED <<loopVars, turns, handlerPc, pickPc>>
        BY <2>1, <3>3 DEF JoinStep, JoinRead, JoinWrite, JoinCheckRunning, JoinCount,
           JoinReadWords, JoinReadTeller, JoinFails, tableVars, pickVars
      <4>2. PickComing(l)' = PickComing(l)
        BY <4>1 DEF PickComing, loopVars
      <4> QED
        BY <1>1, <4>1, <4>2, OutrunBefore DEF loopVars
    <3> QED
      BY <3>1, <3>2, <3>3
  <2>2. ASSUME NEW u \in Leaver, LeaverStep(u) PROVE Outrun(l)
    <3>1. UNCHANGED <<loopVars, turns, handlerPc, pickPc>>
      BY <2>2 DEF LeaverStep, Connect, Disconnect, KickCheck, KickWrite, KickFails, tableVars,
         pickVars
    <3>2. PickComing(l)' = PickComing(l)
      BY <3>1 DEF PickComing, loopVars
    <3> QED
      BY <1>1, <3>1, <3>2, OutrunBefore DEF loopVars
  <2>3. ASSUME NEW e \in Ender, EnderStep(e) PROVE Outrun(l)
    <3>1. UNCHANGED <<cancelMap, loopPc, beginSig, pickerPc, pickerCh, turns, handlerPc,
                      pickPc>>
      BY <2>3 DEF EnderStep, EndGameTurnLookup, EndGameTurnSend, GL!EndGameTurnLookup,
         GL!EndGameTurnSend, GL!mapVars, GL!sigVars, GL!loopVars, GL!pickerVars, roomVars,
         tableVars, pickVars
    <3>2. PickComing(l)' = PickComing(l)
      BY <3>1 DEF PickComing
    <3> QED
      BY <1>1, <3>1, <3>2, OutrunBefore
  <2>4. CASE UNCHANGED vars
    <3>1. UNCHANGED <<loopVars, turns, handlerPc, pickPc>>
      BY <2>4 DEF vars, roomVars, tableVars, pickVars
    <3>2. PickComing(l)' = PickComing(l)
      BY <3>1 DEF PickComing, loopVars
    <3> QED
      BY <1>1, <3>1, <3>2, OutrunBefore DEF loopVars
  <2> QED
    BY <1>1, <2>1, <2>2, <2>3, <2>4, LoopStepNotOutrun, HandlerStepNotOutrun,
       PickStepNotOutrun DEF Next
<1>2. RoomInv /\ GL!TypeOK /\ ReachInv /\ [Next]_vars => Reached
  BY <1>1
<1> HIDE DEF Reached
<1>3. Spec => [][Reached]_vars
  BY <1>2, ReachInvAlways, PTL DEF Spec
<1> QED
  BY <1>3 DEF Reached, PicksReachLoop
=============================================================================
