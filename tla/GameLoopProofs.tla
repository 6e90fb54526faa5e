-------------------------- MODULE GameLoopProofs --------------------------
(***************************************************************************)
(* What holds of the turn loop for every number of goroutines and callers. *)
(*                                                                         *)
(* None of the loop's safety properties is inductive alone: that close()   *)
(* meets an open channel depends on who can still reach an armed channel,  *)
(* and that depends on where its caller is.  LoopInv adds the missing      *)
(* parts; every theorem below follows from it.                             *)
(***************************************************************************)
EXTENDS GameLoop, TLAPS

\* A caller has a channel in hand exactly while it is about to send.
HandsInv ==
  /\ \A p \in Picker : pickerPc[p] = "send" => pickerCh[p] # None
  /\ \A e \in Ender : enderPc[e] = "send" => enderCh[e] # None

\* Only a goroutine that has not returned is cancelled, and it holds an armed
\* channel only between the critical section that took it and its close.
GoroutineInv ==
  \A l \in Loop :
    /\ l \in cancelled => loopPc[l] # "none"
    /\ loopArmed[l] # None => loopPc[l] = "close"

\* An armed channel is in one place: closed, registered, or in the hands of one
\* goroutine, and always belongs to a caller that is still inside BeginTurn.
ArmedInv ==
  \A p \in Picker :
    /\ p \in closed => pickerPc[p] # "idle"
    /\ armedMap = p =>
         /\ pickerPc[p] # "idle"
         /\ p \notin closed
         /\ \A l \in Loop : loopArmed[l] # p
    /\ \A l \in Loop : loopArmed[l] = p =>
         /\ pickerPc[p] # "idle"
         /\ p \notin closed
         /\ \A k \in Loop : loopArmed[k] = p => k = l

LoopInv == TypeOK /\ HandsInv /\ GoroutineInv /\ OneLiveLoop /\ ArmedInv

\* The invariant holds before anything is called.
LEMMA InitLoopInv == Init => LoopInv
  BY NameAssumption DEF Init, LoopInv, TypeOK, ChanRef, LoopPc, HandsInv, GoroutineInv,
     OneLiveLoop, ArmedInv

\* Every operation preserves the types and the callers' hands.
LEMMA TypeStep == TypeOK /\ HandsInv /\ [Next]_vars => TypeOK' /\ HandsInv'
<1> SUFFICES ASSUME TypeOK, HandsInv, [Next]_vars PROVE TypeOK' /\ HandsInv'
  OBVIOUS
<1> USE NameAssumption DEF TypeOK, HandsInv, ChanRef, LoopPc
<1>1. ASSUME NEW l \in Loop, Start(l) PROVE TypeOK' /\ HandsInv'
  BY <1>1 DEF Start, sigVars, pickerVars, enderVars
<1>2. ASSUME NEW l \in Loop, ReceiveBegin(l) PROVE TypeOK' /\ HandsInv'
  BY <1>2 DEF ReceiveBegin, Goto, mapVars, pickerVars, enderVars
<1>3. ASSUME NEW l \in Loop, PickTimeout(l) PROVE TypeOK' /\ HandsInv'
  BY <1>3 DEF PickTimeout, Goto, mapVars, sigVars, pickerVars, enderVars
<1>4. ASSUME NEW l \in Loop, ResetBegin(l) PROVE TypeOK' /\ HandsInv'
  BY <1>4 DEF ResetBegin, Goto, RefreshBegin, CloseRegistered, RetireAll, Retire,
     enderVars
<1>5. ASSUME NEW l \in Loop, ArmTurn(l) PROVE TypeOK' /\ HandsInv'
  BY <1>5 DEF ArmTurn, Goto, RefreshBegin, OpenEnd, RetireAll, Retire
<1>6. ASSUME NEW l \in Loop, CloseArmed(l) PROVE TypeOK' /\ HandsInv'
  BY <1>6 DEF CloseArmed, Goto, mapVars, sigVars, pickerVars, enderVars
<1>7. ASSUME NEW l \in Loop, ReceiveEnd(l) PROVE TypeOK' /\ HandsInv'
  BY <1>7 DEF ReceiveEnd, Goto, mapVars, pickerVars, enderVars
<1>8. ASSUME NEW l \in Loop, TurnTimeout(l) PROVE TypeOK' /\ HandsInv'
  BY <1>8 DEF TurnTimeout, Goto, mapVars, sigVars, pickerVars, enderVars
<1>9. ASSUME NEW l \in Loop, ClearEnd(l) PROVE TypeOK' /\ HandsInv'
  BY <1>9 DEF ClearEnd, Goto, sigVars, pickerVars, enderVars
<1>10. ASSUME NEW l \in Loop, HandlerReturn(l) PROVE TypeOK' /\ HandsInv'
  BY <1>10 DEF HandlerReturn, Goto, mapVars, sigVars, pickerVars, enderVars
<1>11. ASSUME NEW l \in Loop, Exit(l) PROVE TypeOK' /\ HandsInv'
  BY <1>11 DEF Exit, Done, RetireAll, Retire
<1>12. ASSUME NEW p \in Picker, BeginTurnLock(p) PROVE TypeOK' /\ HandsInv'
  BY <1>12 DEF BeginTurnLock, sigVars, loopVars, enderVars
<1>13. ASSUME NEW p \in Picker, BeginTurnSend(p) PROVE TypeOK' /\ HandsInv'
  BY <1>13 DEF BeginTurnSend, mapVars, loopVars, enderVars
<1>14. ASSUME NEW p \in Picker, BeginTurnReturn(p) PROVE TypeOK' /\ HandsInv'
  BY <1>14 DEF BeginTurnReturn, mapVars, sigVars, loopVars, enderVars
<1>15. ASSUME NEW e \in Ender, EndGameTurnLookup(e) PROVE TypeOK' /\ HandsInv'
  BY <1>15 DEF EndGameTurnLookup, mapVars, sigVars, loopVars, pickerVars
<1>16. ASSUME NEW e \in Ender, EndGameTurnSend(e) PROVE TypeOK' /\ HandsInv'
  BY <1>16 DEF EndGameTurnSend, mapVars, loopVars, pickerVars
<1>17. CASE StopGame
  BY <1>17 DEF StopGame, CloseRegistered, sigVars, loopVars, pickerVars, enderVars
<1>18. CASE UNCHANGED vars
  BY <1>18 DEF vars, mapVars, sigVars, loopVars, pickerVars, enderVars
<1> QED
  BY <1>1, <1>2, <1>3, <1>4, <1>5, <1>6, <1>7, <1>8, <1>9, <1>10, <1>11, <1>12,
     <1>13, <1>14, <1>15, <1>16, <1>17, <1>18
     DEF Next, LoopStep, PickerStep, EnderStep

\* Every operation keeps goroutines and the registered one in agreement.
LEMMA GoroutineStep ==
  LoopInv /\ [Next]_vars => GoroutineInv' /\ OneLiveLoop'
<1> SUFFICES ASSUME LoopInv, [Next]_vars PROVE GoroutineInv' /\ OneLiveLoop'
  OBVIOUS
<1> USE NameAssumption DEF LoopInv, GoroutineInv, OneLiveLoop, TypeOK
<1>1. ASSUME NEW l \in Loop, Start(l) PROVE GoroutineInv' /\ OneLiveLoop'
  BY <1>1 DEF Start, Running
<1>2. ASSUME NEW l \in Loop, ReceiveBegin(l) PROVE GoroutineInv' /\ OneLiveLoop'
  BY <1>2 DEF ReceiveBegin, Goto, mapVars
<1>3. ASSUME NEW l \in Loop, PickTimeout(l) PROVE GoroutineInv' /\ OneLiveLoop'
  BY <1>3 DEF PickTimeout, Goto, mapVars
<1>4. ASSUME NEW l \in Loop, ResetBegin(l) PROVE GoroutineInv' /\ OneLiveLoop'
  BY <1>4 DEF ResetBegin, Goto
<1>5. ASSUME NEW l \in Loop, ArmTurn(l) PROVE GoroutineInv' /\ OneLiveLoop'
  BY <1>5 DEF ArmTurn, Goto
<1>6. ASSUME NEW l \in Loop, CloseArmed(l) PROVE GoroutineInv' /\ OneLiveLoop'
  BY <1>6 DEF CloseArmed, Goto, mapVars
<1>7. ASSUME NEW l \in Loop, ReceiveEnd(l) PROVE GoroutineInv' /\ OneLiveLoop'
  BY <1>7 DEF ReceiveEnd, Goto, mapVars
<1>8. ASSUME NEW l \in Loop, TurnTimeout(l) PROVE GoroutineInv' /\ OneLiveLoop'
  BY <1>8 DEF TurnTimeout, Goto, mapVars
<1>9. ASSUME NEW l \in Loop, ClearEnd(l) PROVE GoroutineInv' /\ OneLiveLoop'
  BY <1>9 DEF ClearEnd, Goto
<1>10. ASSUME NEW l \in Loop, HandlerReturn(l) PROVE GoroutineInv' /\ OneLiveLoop'
  BY <1>10 DEF HandlerReturn, Goto, mapVars
<1>11. ASSUME NEW l \in Loop, Exit(l) PROVE GoroutineInv' /\ OneLiveLoop'
  BY <1>11 DEF Exit, Done
<1>12. CASE StopGame
  BY <1>12 DEF StopGame, loopVars
<1>13. ASSUME UNCHANGED <<cancelMap, cancelled, loopVars>>
       PROVE  GoroutineInv' /\ OneLiveLoop'
  BY <1>13 DEF loopVars
<1>14. ASSUME NEW p \in Picker, PickerStep(p)
       PROVE  UNCHANGED <<cancelMap, cancelled, loopVars>>
  BY <1>14 DEF PickerStep, BeginTurnLock, BeginTurnSend, BeginTurnReturn, mapVars
<1>15. ASSUME NEW e \in Ender, EnderStep(e)
       PROVE  UNCHANGED <<cancelMap, cancelled, loopVars>>
  BY <1>15 DEF EnderStep, EndGameTurnLookup, EndGameTurnSend, mapVars
<1>16. UNCHANGED vars => UNCHANGED <<cancelMap, cancelled, loopVars>>
  BY DEF vars, mapVars
<1> QED
  BY <1>1, <1>2, <1>3, <1>4, <1>5, <1>6, <1>7, <1>8, <1>9, <1>10, <1>11, <1>12,
     <1>13, <1>14, <1>15, <1>16 DEF Next, LoopStep

\* Every operation keeps an armed channel in one place.
LEMMA ArmedStep == LoopInv /\ [Next]_vars => ArmedInv'
<1> SUFFICES ASSUME LoopInv, [Next]_vars PROVE ArmedInv'
  OBVIOUS
<1> USE NameAssumption DEF LoopInv, ArmedInv, TypeOK
<1>1. ASSUME NEW l \in Loop, Start(l) PROVE ArmedInv'
  BY <1>1 DEF Start, pickerVars
<1>2. ASSUME NEW l \in Loop, ResetBegin(l) PROVE ArmedInv'
  BY <1>2 DEF ResetBegin, CloseRegistered
<1>3. ASSUME NEW l \in Loop, ArmTurn(l) PROVE ArmedInv'
  BY <1>3 DEF ArmTurn
<1>4. ASSUME NEW l \in Loop, CloseArmed(l) PROVE ArmedInv'
  BY <1>4 DEF CloseArmed, mapVars, pickerVars
<1>5. ASSUME NEW l \in Loop, Exit(l) PROVE ArmedInv'
  BY <1>5 DEF Exit, Done
<1>6. CASE StopGame
  BY <1>6 DEF StopGame, CloseRegistered, loopVars, pickerVars
<1>7. ASSUME NEW p \in Picker, BeginTurnLock(p) PROVE ArmedInv'
  BY <1>7 DEF BeginTurnLock, loopVars
<1>8. ASSUME NEW p \in Picker, BeginTurnSend(p) PROVE ArmedInv'
  BY <1>8 DEF BeginTurnSend, mapVars, loopVars
<1>9. ASSUME NEW p \in Picker, BeginTurnReturn(p) PROVE ArmedInv'
  BY <1>9 DEF BeginTurnReturn, mapVars, loopVars
<1>10. ASSUME UNCHANGED <<armedMap, closed, loopArmed, pickerPc>> PROVE ArmedInv'
  BY <1>10
<1>11. ASSUME NEW l \in Loop,
              \/ ReceiveBegin(l) \/ PickTimeout(l) \/ ReceiveEnd(l)
              \/ TurnTimeout(l) \/ ClearEnd(l) \/ HandlerReturn(l)
       PROVE  UNCHANGED <<armedMap, closed, loopArmed, pickerPc>>
  BY <1>11 DEF ReceiveBegin, PickTimeout, ReceiveEnd, TurnTimeout, ClearEnd,
     HandlerReturn, mapVars, pickerVars
<1>12. ASSUME NEW e \in Ender, EnderStep(e)
       PROVE  UNCHANGED <<armedMap, closed, loopArmed, pickerPc>>
  BY <1>12 DEF EnderStep, EndGameTurnLookup, EndGameTurnSend, mapVars, loopVars,
     pickerVars
<1>13. UNCHANGED vars => UNCHANGED <<armedMap, closed, loopArmed, pickerPc>>
  BY DEF vars, mapVars, loopVars, pickerVars
<1> QED
  BY <1>1, <1>2, <1>3, <1>4, <1>5, <1>6, <1>7, <1>8, <1>9, <1>10, <1>11, <1>12,
     <1>13 DEF Next, LoopStep, PickerStep

LEMMA LoopInvStep == LoopInv /\ [Next]_vars => LoopInv'
  BY TypeStep, GoroutineStep, ArmedStep DEF LoopInv

LEMMA LoopInvariant == Spec => []LoopInv
  BY InitLoopInv, LoopInvStep, PTL DEF Spec

\* Every variable keeps its type.
THEOREM TypeCorrect == Spec => []TypeOK
<1>1. LoopInv => TypeOK
  BY DEF LoopInv
<1> QED
  BY <1>1, LoopInvariant, PTL

\* A game never has two live loops.
THEOREM OneLiveLoopAlways == Spec => []OneLiveLoop
<1>1. LoopInv => OneLiveLoop
  BY DEF LoopInv
<1> QED
  BY <1>1, LoopInvariant, PTL

\* close(armed) never panics.
THEOREM NoDoubleCloseAlways == Spec => []NoDoubleClose
<1>1. LoopInv => NoDoubleClose
  BY DEF LoopInv, ArmedInv, NoDoubleClose
<1> QED
  BY <1>1, LoopInvariant, PTL

\* What StopGame and resetBegin release is a blocked caller.
THEOREM RegisteredWaiterAlways == Spec => []RegisteredWaiterBlocked
<1>1. LoopInv => RegisteredWaiterBlocked
  BY DEF LoopInv, ArmedInv, RegisteredWaiterBlocked
<1> QED
  BY <1>1, LoopInvariant, PTL

\* A caller alone inside BeginTurn is never orphaned.
LEMMA OrphanStep ==
  LoopInv /\ AllReachable /\ OneInside' /\ [Next]_vars => AllReachable'
<1> SUFFICES ASSUME LoopInv, AllReachable, OneInside', [Next]_vars,
                    NEW q \in Picker, pickerPc'[q] # "idle"
             PROVE  \/ armedMap' = q
                    \/ q \in closed'
                    \/ \E l \in Loop : loopPc'[l] = "close" /\ loopArmed'[l] = q
  BY DEF AllReachable, Reachable
<1> USE NameAssumption DEF LoopInv, GoroutineInv, TypeOK, AllReachable, Reachable, OneInside
<1> DEFINE Accounted ==
             \/ armedMap' = q
             \/ q \in closed'
             \/ \E l \in Loop : loopPc'[l] = "close" /\ loopArmed'[l] = q
<1>1. ASSUME NEW l \in Loop, Start(l) PROVE Accounted
  BY <1>1 DEF Start, pickerVars
<1>2. ASSUME NEW l \in Loop, ResetBegin(l) PROVE Accounted
  BY <1>2 DEF ResetBegin, Goto, CloseRegistered
<1>3. ASSUME NEW l \in Loop, ArmTurn(l) PROVE Accounted
  BY <1>3 DEF ArmTurn, Goto
<1>4. ASSUME NEW l \in Loop, CloseArmed(l) PROVE Accounted
  BY <1>4 DEF CloseArmed, Goto, mapVars, pickerVars
<1>5. ASSUME NEW l \in Loop, Exit(l) PROVE Accounted
  BY <1>5 DEF Exit, Done
<1>6. CASE StopGame
  BY <1>6 DEF StopGame, CloseRegistered, loopVars, pickerVars
<1>7. ASSUME NEW p \in Picker, BeginTurnLock(p) PROVE Accounted
  BY <1>7 DEF BeginTurnLock
<1>8. ASSUME NEW p \in Picker, BeginTurnSend(p) PROVE Accounted
  BY <1>8 DEF BeginTurnSend, mapVars, loopVars
<1>9. ASSUME NEW p \in Picker, BeginTurnReturn(p) PROVE Accounted
  BY <1>9 DEF BeginTurnReturn, mapVars, loopVars
<1>10. ASSUME NEW l \in Loop,
              \/ ReceiveBegin(l) \/ PickTimeout(l) \/ ReceiveEnd(l)
              \/ TurnTimeout(l) \/ ClearEnd(l) \/ HandlerReturn(l)
       PROVE  Accounted
  BY <1>10 DEF ReceiveBegin, PickTimeout, ReceiveEnd, TurnTimeout, ClearEnd,
     HandlerReturn, Goto, mapVars, pickerVars
<1>11. ASSUME NEW e \in Ender, EnderStep(e) PROVE Accounted
  BY <1>11 DEF EnderStep, EndGameTurnLookup, EndGameTurnSend, mapVars, loopVars,
     pickerVars
<1>12. CASE UNCHANGED vars
  BY <1>12 DEF vars, mapVars, loopVars, pickerVars
<1> QED
  BY <1>1, <1>2, <1>3, <1>4, <1>5, <1>6, <1>7, <1>8, <1>9, <1>10, <1>11, <1>12
     DEF Next, LoopStep, PickerStep

\* While BeginTurn calls come one at a time nobody inside it is orphaned, whatever stops,
\* resets and restarts interleave (gameloop.go:115-134, :152-171, :250-262).
THEOREM NoOrphanWaiterAlways == Spec => NoOrphanWaiter
<1>1. Init => AllReachable
  BY DEF Init, AllReachable
<1> QED
  BY <1>1, OrphanStep, LoopInvariant, PTL DEF Spec, NoOrphanWaiter

\* However many callers there are, only an overwrite loses one.
THEOREM OnlyOverwriteLosesWaiter == Spec => WaiterLostOnlyToOverwrite
<1> DEFINE Kept(p) == \/ armedMap' \in Picker
                      \/ p \in closed'
                      \/ \E l \in Loop : loopPc'[l] = "close" /\ loopArmed'[l] = p
<1>1. ASSUME LoopInv, [Next]_vars, NEW p \in Picker, armedMap = p, armedMap' # p
      PROVE  Kept(p)
  <2> USE <1>1, NameAssumption DEF LoopInv, TypeOK
  <2>1. ASSUME NEW l \in Loop, ResetBegin(l) PROVE Kept(p)
    BY <2>1 DEF ResetBegin, CloseRegistered
  <2>2. ASSUME NEW l \in Loop, ArmTurn(l) PROVE Kept(p)
    BY <2>2 DEF ArmTurn, Goto
  <2>3. CASE StopGame
    BY <2>3 DEF StopGame, CloseRegistered
  <2>4. ASSUME NEW q \in Picker, BeginTurnLock(q) PROVE Kept(p)
    BY <2>4 DEF BeginTurnLock
  <2>5. ASSUME NEW l \in Loop,
               \/ Start(l) \/ ReceiveBegin(l) \/ PickTimeout(l) \/ CloseArmed(l)
               \/ ReceiveEnd(l) \/ TurnTimeout(l) \/ ClearEnd(l) \/ HandlerReturn(l)
               \/ Exit(l)
        PROVE  FALSE
    BY <2>5 DEF Start, ReceiveBegin, PickTimeout, CloseArmed, ReceiveEnd,
       TurnTimeout, ClearEnd, HandlerReturn, Exit, Done, mapVars
  <2>6. ASSUME NEW q \in Picker, BeginTurnSend(q) \/ BeginTurnReturn(q) PROVE FALSE
    BY <2>6 DEF BeginTurnSend, BeginTurnReturn, mapVars
  <2>7. ASSUME NEW e \in Ender, EnderStep(e) PROVE FALSE
    BY <2>7 DEF EnderStep, EndGameTurnLookup, EndGameTurnSend, mapVars
  <2>8. ~UNCHANGED vars
    BY DEF vars, mapVars
  <2> QED
    BY <2>1, <2>2, <2>3, <2>4, <2>5, <2>6, <2>7, <2>8
       DEF Next, LoopStep, PickerStep
<1>2. LoopInv /\ [Next]_vars =>
        [\A p \in Picker : armedMap = p /\ armedMap' # p => Kept(p)]_vars
  BY <1>1
<1> QED
  BY <1>2, LoopInvariant, PTL DEF Spec, WaiterLostOnlyToOverwrite

-----------------------------------------------------------------------------
(* The loop implements the turn cycle.  A step of the registered goroutine is  *)
(* a step of the cycle or a stutter; a step of any other goroutine and of any  *)
(* caller is a stutter.                                                        *)

\* A step that leaves the registered goroutine where it is does not show.
LEMMA PhaseUnchanged ==
  ASSUME LoopInv, cancelMap' = cancelMap,
         cancelMap # None => loopPc'[cancelMap] = loopPc[cancelMap]
  PROVE  UNCHANGED GamePhase
<1>1. CASE cancelMap = None
  BY <1>1 DEF GamePhase, Running
<1>2. CASE cancelMap # None
  BY <1>2 DEF GamePhase, Running
<1> QED
  BY <1>1, <1>2

\* A goroutine that moves is seen to move only if it is the registered one.
LEMMA PhaseMove ==
  ASSUME LoopInv, NEW l \in Loop, NEW from, NEW to \in LoopPc, Goto(l, from, to),
         cancelMap' = cancelMap
  PROVE  \/ UNCHANGED GamePhase
         \/ cancelMap = l /\ loopPc[l] = from /\ loopPc'[l] = to
<1>1. CASE cancelMap = l
  BY <1>1 DEF Goto, LoopInv, TypeOK
<1>2. CASE cancelMap # l
  BY <1>2, PhaseUnchanged DEF Goto, LoopInv, TypeOK
<1> QED
  BY <1>1, <1>2

LEMMA CycleStep == LoopInv /\ [Next]_vars => [Cycle!Next]_GamePhase
<1> SUFFICES ASSUME LoopInv, [Next]_vars PROVE [Cycle!Next]_GamePhase
  OBVIOUS
<1> USE NameAssumption
<1> DEFINE Moved(l, from, to) ==
             \/ UNCHANGED GamePhase
             \/ cancelMap = l /\ cancelMap' = l /\ loopPc[l] = from /\ loopPc'[l] = to
<1> USE DEF Cycle!Next, Cycle!Move
<1>1. ASSUME NEW l \in Loop, Start(l) PROVE [Cycle!Next]_GamePhase
  <2>1. cancelMap = None /\ cancelMap' = l /\ loopPc'[l] = "pick"
    BY <1>1 DEF Start, Running, LoopInv, TypeOK
  <2>2. GamePhase = "stopped" /\ GamePhase' = "pick"
    BY <2>1 DEF GamePhase, Running
  <2> QED
    BY <2>2 DEF Cycle!Start
<1>2. ASSUME NEW l \in Loop, NEW from, NEW to \in LoopPc, Goto(l, from, to),
             cancelMap' = cancelMap
      PROVE  Moved(l, from, to)
  BY <1>2, PhaseMove
<1>3. ASSUME NEW l \in Loop, ReceiveBegin(l) PROVE [Cycle!Next]_GamePhase
  <2>1. Moved(l, "pick", "arming")
    BY <1>2, <1>3 DEF ReceiveBegin, mapVars, LoopPc
  <2> QED
    BY <2>1 DEF GamePhase, Running
<1>4. ASSUME NEW l \in Loop, PickTimeout(l) PROVE [Cycle!Next]_GamePhase
  <2>1. Moved(l, "pick", "skip")
    BY <1>2, <1>4 DEF PickTimeout, mapVars, LoopPc
  <2> QED
    BY <2>1 DEF GamePhase, Running
<1>5. ASSUME NEW l \in Loop, ResetBegin(l) PROVE [Cycle!Next]_GamePhase
  <2>1. Moved(l, "skip", "handler")
    BY <1>2, <1>5 DEF ResetBegin, LoopPc
  <2> QED
    BY <2>1 DEF GamePhase, Running, Cycle!Skip
<1>6. ASSUME NEW l \in Loop, ArmTurn(l) PROVE [Cycle!Next]_GamePhase
  <2>1. Moved(l, "arming", "close")
    BY <1>2, <1>6 DEF ArmTurn, LoopPc
  <2> QED
    BY <2>1 DEF GamePhase, Running, Cycle!Begin
<1>7. ASSUME NEW l \in Loop, CloseArmed(l) PROVE [Cycle!Next]_GamePhase
  <2>1. Moved(l, "close", "play")
    BY <1>2, <1>7 DEF CloseArmed, mapVars, LoopPc
  <2> QED
    BY <2>1 DEF GamePhase, Running
<1>8. ASSUME NEW l \in Loop, ReceiveEnd(l) \/ TurnTimeout(l)
      PROVE  [Cycle!Next]_GamePhase
  <2>1. Moved(l, "play", "ended")
    BY <1>2, <1>8 DEF ReceiveEnd, TurnTimeout, mapVars, LoopPc
  <2> QED
    BY <2>1 DEF GamePhase, Running
<1>9. ASSUME NEW l \in Loop, ClearEnd(l) PROVE [Cycle!Next]_GamePhase
  <2>1. Moved(l, "ended", "handler")
    BY <1>2, <1>9 DEF ClearEnd, LoopPc
  <2> QED
    BY <2>1 DEF GamePhase, Running, Cycle!End
<1>10. ASSUME NEW l \in Loop, HandlerReturn(l) PROVE [Cycle!Next]_GamePhase
  <2>1. Moved(l, "handler", "pick")
    BY <1>2, <1>10 DEF HandlerReturn, mapVars, LoopPc
  <2> QED
    BY <2>1 DEF GamePhase, Running, Cycle!Reseat
<1>11. ASSUME NEW l \in Loop, Exit(l) PROVE [Cycle!Next]_GamePhase
  <2>1. cancelMap # l
    BY <1>11 DEF Exit, Done, LoopInv, OneLiveLoop
  <2>2. UNCHANGED GamePhase
    BY <1>11, <2>1, PhaseUnchanged DEF Exit, Done, LoopInv, TypeOK
  <2> QED
    BY <2>2
<1>12. CASE StopGame
  <2>1. GamePhase' = "stopped"
    BY <1>12 DEF StopGame, GamePhase, Running
  <2> QED
    BY <2>1 DEF Cycle!Stop
<1>13. ASSUME NEW p \in Picker, PickerStep(p) PROVE [Cycle!Next]_GamePhase
  BY <1>13, PhaseUnchanged DEF PickerStep, BeginTurnLock, BeginTurnSend,
     BeginTurnReturn, mapVars, loopVars
<1>14. ASSUME NEW e \in Ender, EnderStep(e) PROVE [Cycle!Next]_GamePhase
  BY <1>14, PhaseUnchanged DEF EnderStep, EndGameTurnLookup, EndGameTurnSend,
     mapVars, loopVars
<1>15. CASE UNCHANGED vars
  BY <1>15, PhaseUnchanged DEF vars, mapVars, loopVars
<1> QED
  BY <1>1, <1>3, <1>4, <1>5, <1>6, <1>7, <1>8, <1>9, <1>10, <1>11, <1>12, <1>13,
     <1>14, <1>15 DEF Next, LoopStep

\* The safety half of the refinement; that phases end is checked by TLC.
THEOREM LoopImplementsTurnCycle == Spec => TurnCycleSafety
<1>1. Init => Cycle!Init
  BY DEF Init, Cycle!Init, GamePhase, Running
<1> QED
  BY <1>1, CycleStep, LoopInvariant, PTL DEF Spec, TurnCycleSafety
===========================================================================
