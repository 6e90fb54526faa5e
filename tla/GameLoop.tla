------------------------------ MODULE GameLoop ------------------------------
(***************************************************************************)
(* The turn loop of one game: service/gameloop.go.                         *)
(*                                                                         *)
(* The Go type keeps four maps keyed by game under one mutex, and every    *)
(* operation touches the entries of one game only, so the module models    *)
(* one game: cancelMap, beginMap, endMap and armedMap are that game's      *)
(* entries (None when the key is absent).  A critical section of mu is one *)
(* action; every channel operation outside mu is an action of its own, so  *)
(* that callers, the running goroutine and goroutines that outlive their   *)
(* cancellation interleave as they do in the program.                      *)
(***************************************************************************)
CONSTANTS
  Loop,    \* goroutines executing run(); an identity is reused once its goroutine returned
  Picker,  \* callers of BeginTurn (requests inside PickWord)
  Ender,   \* callers of EndGameTurn (requests inside Guess)
  Old,     \* a channel that no goroutine receives from any more
  None     \* an absent map entry, a nil channel, no channel in hand

ASSUME NameAssumption == {Old, None} \cap (Loop \cup Picker) = {} /\ Old # None

\* A begin or an end channel has one receiver for its whole life, the goroutine
\* of run() it is a local variable of.  A reference to the channel that is the
\* goroutine's current beginCh (endCh) is the goroutine's name; when the
\* goroutine makes a new one or returns, the references left behind are Old.

VARIABLES
  cancelMap,  \* cancels[game]: the goroutine whose CancelFunc is registered
  cancelled,  \* the goroutines whose context is cancelled
  beginMap,   \* beginChs[game]
  endMap,     \* endChs[game]
  armedMap,   \* armedChs[game]; an armed channel is named by the caller that made it
  beginSig,   \* the goroutines whose current beginCh has a signal in its one-place buffer
  endSig,     \* the same for endCh
  closed,     \* the armed channels that are closed and whose caller has not noticed
  loopPc,     \* where each goroutine of run() is
  loopArmed,  \* its local armed
  pickerPc,   \* where each BeginTurn caller is
  pickerCh,   \* its local beginCh
  enderPc,    \* where each EndGameTurn caller is
  enderCh     \* its local ch

mapVars    == <<cancelMap, cancelled, beginMap, endMap, armedMap>>
sigVars    == <<beginSig, endSig>>
loopVars   == <<loopPc, loopArmed>>
pickerVars == <<pickerPc, pickerCh>>
enderVars  == <<enderPc, enderCh>>
vars == <<mapVars, sigVars, closed, loopVars, pickerVars, enderVars>>

\* "pick" and "play" are the two selects of run(), "skip" the call of
\* resetBegin, "arming" the critical section that opens the turn, "close" the
\* close(armed) after it, "ended" the critical section that closes the turn and
\* "handler" the synchronous call of onTurnEnd.
LoopPc == {"none", "pick", "skip", "arming", "close", "play", "ended", "handler"}

ChanRef == Loop \cup {Old, None}

TypeOK ==
  /\ cancelMap \in Loop \cup {None}
  /\ cancelled \subseteq Loop
  /\ beginMap \in ChanRef
  /\ endMap \in ChanRef
  /\ armedMap \in Picker \cup {None}
  /\ beginSig \subseteq Loop
  /\ endSig \subseteq Loop
  /\ closed \subseteq Picker
  /\ loopPc \in [Loop -> LoopPc]
  /\ loopArmed \in [Loop -> Picker \cup {None}]
  /\ pickerPc \in [Picker -> {"idle", "send", "wait"}]
  /\ pickerCh \in [Picker -> ChanRef]
  /\ enderPc \in [Ender -> {"idle", "send"}]
  /\ enderCh \in [Ender -> ChanRef]

Init ==
  /\ cancelMap = None /\ cancelled = {}
  /\ beginMap = None /\ endMap = None /\ armedMap = None
  /\ beginSig = {} /\ endSig = {} /\ closed = {}
  /\ loopPc = [l \in Loop |-> "none"]
  /\ loopArmed = [l \in Loop |-> None]
  /\ pickerPc = [p \in Picker |-> "idle"]
  /\ pickerCh = [p \in Picker |-> None]
  /\ enderPc = [e \in Ender |-> "idle"]
  /\ enderCh = [e \in Ender |-> None]

-----------------------------------------------------------------------------
(* The callers' operations *)

\* The references that held goroutine l's channel after l dropped it.
Retire(ref, l) == IF ref = l THEN Old ELSE ref
RetireAll(f, l) == [x \in DOMAIN f |-> Retire(f[x], l)]

\* Seeded fault: Start without its check for an active loop.
NeverRunning == FALSE

Running == cancelMap # None

\* Start: nothing happens when the game has a loop.  run() starts in its first
\* select, so launching the goroutine is part of the action.
Start(l) ==
  /\ ~Running
  /\ loopPc[l] = "none"
  /\ cancelMap' = l
  /\ beginMap' = l
  /\ loopPc' = [loopPc EXCEPT ![l] = "pick"]
  /\ UNCHANGED <<cancelled, endMap, armedMap, sigVars, closed, loopArmed,
                 pickerVars, enderVars>>

\* BeginTurn, the critical section: without a registered begin channel the
\* call returns; otherwise it registers its armed channel over any other one.
BeginTurnLock(p) ==
  /\ pickerPc[p] = "idle"
  /\ beginMap # None
  /\ armedMap' = p
  /\ pickerCh' = [pickerCh EXCEPT ![p] = beginMap]
  /\ pickerPc' = [pickerPc EXCEPT ![p] = "send"]
  /\ UNCHANGED <<cancelMap, cancelled, beginMap, endMap, sigVars, closed,
                 loopVars, enderVars>>

\* BeginTurn, the non-blocking send on the channel it looked up.
BeginTurnSend(p) ==
  /\ pickerPc[p] = "send"
  /\ beginSig' = beginSig \cup ({pickerCh[p]} \ {Old})
  /\ pickerPc' = [pickerPc EXCEPT ![p] = "wait"]
  /\ pickerCh' = [pickerCh EXCEPT ![p] = None]
  /\ UNCHANGED <<mapVars, endSig, closed, loopVars, enderVars>>

\* BeginTurn, the receive that blocks until the armed channel is closed.
BeginTurnReturn(p) ==
  /\ pickerPc[p] = "wait"
  /\ p \in closed
  /\ closed' = closed \ {p}
  /\ pickerPc' = [pickerPc EXCEPT ![p] = "idle"]
  /\ UNCHANGED <<mapVars, sigVars, loopVars, pickerCh, enderVars>>

\* EndGameTurn, the lookup under the mutex; without an entry the call returns.
EndGameTurnLookup(e) ==
  /\ enderPc[e] = "idle"
  /\ endMap # None
  /\ enderCh' = [enderCh EXCEPT ![e] = endMap]
  /\ enderPc' = [enderPc EXCEPT ![e] = "send"]
  /\ UNCHANGED <<mapVars, sigVars, closed, loopVars, pickerVars>>

\* EndGameTurn, the non-blocking send, after the mutex is released.
EndGameTurnSend(e) ==
  /\ enderPc[e] = "send"
  /\ endSig' = endSig \cup ({enderCh[e]} \ {Old})
  /\ enderCh' = [enderCh EXCEPT ![e] = None]
  /\ enderPc' = [enderPc EXCEPT ![e] = "idle"]
  /\ UNCHANGED <<mapVars, beginSig, closed, loopVars, pickerVars>>

\* Seeded faults: closing without the check that an entry exists; not deleting
\* the entry; deleting it without closing the channel.
CloseUnchecked ==
  /\ closed' = closed \cup {armedMap}
  /\ armedMap' = None
CloseKeepsEntry ==
  /\ closed' = closed \cup ({armedMap} \ {None})
  /\ UNCHANGED armedMap
DeleteWithoutClose ==
  /\ armedMap' = None
  /\ UNCHANGED closed

\* Closing the registered armed channel unless it is closed, and deleting it.
CloseRegistered ==
  /\ closed' = closed \cup ({armedMap} \ {None})
  /\ armedMap' = None

\* StopGame, and for each game what Stop does: cancel, release the registered
\* waiter, forget the channels.
StopGame ==
  /\ cancelled' = cancelled \cup ({cancelMap} \ {None})
  /\ cancelMap' = None
  /\ CloseRegistered
  /\ beginMap' = None
  /\ endMap' = None
  /\ UNCHANGED <<sigVars, loopVars, pickerVars, enderVars>>

-----------------------------------------------------------------------------
(* The goroutine run() *)

Goto(l, from, to) ==
  /\ loopPc[l] = from
  /\ loopPc' = [loopPc EXCEPT ![l] = to]

\* A fresh, empty begin channel of goroutine l is registered.
RefreshBegin(l) ==
  /\ beginMap' = l
  /\ pickerCh' = RetireAll(pickerCh, l)
  /\ beginSig' = beginSig \ {l}

\* A fresh, empty end channel of goroutine l is registered.
OpenEnd(l) ==
  /\ endMap' = l
  /\ enderCh' = RetireAll(enderCh, l)
  /\ endSig' = endSig \ {l}

\* The first select takes the begin signal.
ReceiveBegin(l) ==
  /\ Goto(l, "pick", "arming")
  /\ l \in beginSig
  /\ beginSig' = beginSig \ {l}
  /\ UNCHANGED <<mapVars, endSig, closed, loopArmed, pickerVars, enderVars>>

\* Seeded fault: a first select without the pick timer.
NoPickTimer(l) == FALSE

\* The first select takes the pick timer.
PickTimeout(l) ==
  /\ Goto(l, "pick", "skip")
  /\ UNCHANGED <<mapVars, sigVars, closed, loopArmed, pickerVars, enderVars>>

\* Seeded fault: resetBegin leaves the registered waiter alone.
ResetWithoutRelease(l) ==
  /\ Goto(l, "skip", "handler")
  /\ RefreshBegin(l)
  /\ UNCHANGED <<cancelMap, cancelled, endMap, armedMap, endSig, closed,
                 loopArmed, pickerPc, enderVars>>

\* resetBegin: a fresh begin channel, and the registered waiter is released.
ResetBegin(l) ==
  /\ Goto(l, "skip", "handler")
  /\ RefreshBegin(l)
  /\ CloseRegistered
  /\ UNCHANGED <<cancelMap, cancelled, endMap, endSig, loopArmed, pickerPc,
                 enderVars>>

\* Seeded fault: the armed channel is taken but its entry is not deleted.
ArmKeepsEntry(l) ==
  /\ Goto(l, "arming", "close")
  /\ OpenEnd(l)
  /\ RefreshBegin(l)
  /\ loopArmed' = [loopArmed EXCEPT ![l] = armedMap]
  /\ UNCHANGED <<cancelMap, cancelled, armedMap, closed, pickerPc, enderPc>>

\* The critical section that opens a turn: register the end channel, refresh
\* the begin channel, take the registered armed channel.
ArmTurn(l) ==
  /\ Goto(l, "arming", "close")
  /\ OpenEnd(l)
  /\ RefreshBegin(l)
  /\ loopArmed' = [loopArmed EXCEPT ![l] = armedMap]
  /\ armedMap' = None
  /\ UNCHANGED <<cancelMap, cancelled, closed, pickerPc, enderPc>>

\* close(armed) when there is one, outside the mutex.
CloseArmed(l) ==
  /\ Goto(l, "close", "play")
  /\ closed' = closed \cup ({loopArmed[l]} \ {None})
  /\ loopArmed' = [loopArmed EXCEPT ![l] = None]
  /\ UNCHANGED <<mapVars, sigVars, pickerVars, enderVars>>

\* The second select takes the end signal.
ReceiveEnd(l) ==
  /\ Goto(l, "play", "ended")
  /\ l \in endSig
  /\ endSig' = endSig \ {l}
  /\ UNCHANGED <<mapVars, beginSig, closed, loopArmed, pickerVars, enderVars>>

\* The second select takes the turn timer.
TurnTimeout(l) ==
  /\ Goto(l, "play", "ended")
  /\ UNCHANGED <<mapVars, sigVars, closed, loopArmed, pickerVars, enderVars>>

\* Seeded fault: the handler is not called when a turn was played.
ClearEndOnly(l) ==
  /\ Goto(l, "ended", "pick")
  /\ endMap' = None
  /\ UNCHANGED <<cancelMap, cancelled, beginMap, armedMap, sigVars, closed,
                 loopArmed, pickerVars, enderVars>>

\* The turn is over: whatever end channel is registered is deleted.
ClearEnd(l) ==
  /\ Goto(l, "ended", "handler")
  /\ endMap' = None
  /\ UNCHANGED <<cancelMap, cancelled, beginMap, armedMap, sigVars, closed,
                 loopArmed, pickerVars, enderVars>>

\* onTurnEnd returns (a nil handler returns at once) and the loop goes round.
HandlerReturn(l) ==
  /\ Goto(l, "handler", "pick")
  /\ UNCHANGED <<mapVars, sigVars, closed, loopArmed, pickerVars, enderVars>>

\* Seeded fault: only the second select watches the context.
DoneInPlayOnly(l) == loopPc[l] = "play" /\ l \in cancelled

\* Both selects watch the context.
Done(l) == loopPc[l] \in {"pick", "play"} /\ l \in cancelled

\* A select takes ctx.Done(): the goroutine returns and cleans up nothing,
\* so entries it registered after its cancellation stay, with no receiver.
Exit(l) ==
  /\ Done(l)
  /\ loopPc' = [loopPc EXCEPT ![l] = "none"]
  /\ cancelled' = cancelled \ {l}
  /\ beginMap' = Retire(beginMap, l)
  /\ endMap' = Retire(endMap, l)
  /\ pickerCh' = RetireAll(pickerCh, l)
  /\ enderCh' = RetireAll(enderCh, l)
  /\ beginSig' = beginSig \ {l}
  /\ endSig' = endSig \ {l}
  /\ UNCHANGED <<cancelMap, armedMap, closed, loopArmed, pickerPc, enderPc>>

-----------------------------------------------------------------------------
LoopStep(l) ==
  \/ ReceiveBegin(l) \/ PickTimeout(l) \/ ResetBegin(l)
  \/ ArmTurn(l) \/ CloseArmed(l)
  \/ ReceiveEnd(l) \/ TurnTimeout(l) \/ ClearEnd(l)
  \/ HandlerReturn(l) \/ Exit(l)

PickerStep(p) == BeginTurnLock(p) \/ BeginTurnSend(p) \/ BeginTurnReturn(p)

EnderStep(e) == EndGameTurnLookup(e) \/ EndGameTurnSend(e)

Next ==
  \/ \E l \in Loop : Start(l) \/ LoopStep(l)
  \/ \E p \in Picker : PickerStep(p)
  \/ \E e \in Ender : EnderStep(e)
  \/ StopGame

Spec == Init /\ [][Next]_vars

\* The scheduler runs every goroutine that can run; both selects hold a timer,
\* so a goroutine of run() can always move.  Go's select chooses uniformly among
\* the ready cases: a case that is ready at infinitely many selects is taken,
\* which is the strong fairness of Exit.  That onTurnEnd returns is assumed of
\* the handler.  Nobody is obliged to call anything, but a call that has begun
\* goes on.
Fairness ==
  /\ \A l \in Loop : WF_vars(LoopStep(l)) /\ SF_vars(Exit(l))
  /\ \A p \in Picker : WF_vars(BeginTurnSend(p)) /\ WF_vars(BeginTurnReturn(p))
  /\ \A e \in Ender : WF_vars(EndGameTurnSend(e))

FairSpec == Spec /\ Fairness
-----------------------------------------------------------------------------
(* What the loop promises *)

\* A game never has two live loops: the goroutines whose context is not
\* cancelled are exactly the registered one (Start and StopGame, :96-113 and
\* :152-171), however many cancelled ones have not returned yet.
OneLiveLoop ==
  \A l \in Loop : (loopPc[l] # "none" /\ l \notin cancelled) <=> cancelMap = l

\* close(armed) after the mutex is released (:228-230) never meets a channel
\* that resetBegin, StopGame or another goroutine has closed, which would panic
\* and take every game down: an armed channel held for closing is open, its
\* caller is still blocked on it, and nobody else can reach it.
NoDoubleClose ==
  \A l \in Loop : \A p \in Picker :
    loopPc[l] = "close" /\ loopArmed[l] = p =>
      /\ p \notin closed
      /\ pickerPc[p] # "idle"
      /\ armedMap # p
      /\ \A k \in Loop : loopArmed[k] = p => k = l

\* The registered armed channel belongs to a caller inside BeginTurn and is
\* open (:122-124, :161-168, :254-261): what StopGame and resetBegin release is
\* always a real waiter.
RegisteredWaiterBlocked ==
  \A p \in Picker : armedMap = p => pickerPc[p] # "idle" /\ p \notin closed

\* A caller inside BeginTurn that somebody will release: its armed channel is
\* registered, held by a loop about to close it, or closed.
Reachable(p) ==
  \/ armedMap = p
  \/ p \in closed
  \/ \E l \in Loop : loopPc[l] = "close" /\ loopArmed[l] = p

\* As long as BeginTurn calls come one at a time, nobody inside it is orphaned, through
\* stops, resets, restarts and cancelled goroutines that go on arming (:121-133).
OneInside == \A p, q \in Picker : pickerPc[p] # "idle" /\ pickerPc[q] # "idle" => p = q
AllReachable == \A p \in Picker : pickerPc[p] # "idle" => Reachable(p)
NoOrphanWaiter == []OneInside => []AllReachable

\* A blocked caller is forgotten for one reason only: another BeginTurn call
\* registers over it (:123).  Every other deletion of the entry closes the
\* channel or hands it to the goroutine that does.
WaiterLostOnlyToOverwrite ==
  [][\A p \in Picker : armedMap = p /\ armedMap' # p =>
       \/ armedMap' \in Picker
       \/ p \in closed'
       \/ \E l \in Loop : loopPc'[l] = "close" /\ loopArmed'[l] = p]_vars

\* A cancelled goroutine eventually returns, whatever signals zombies and new
\* loops exchange (:199, :233).
CancelledReturns ==
  \A l \in Loop : l \in cancelled ~> l \notin cancelled

\* A registered BeginTurn caller of a running game does not stay registered:
\* the loop arms a turn, the pick timer releases it or the game stops.
RegisteredWaiterServed ==
  \A p \in Picker : Running /\ armedMap = p ~> armedMap # p \/ ~Running

\* BeginTurn blocks until the timer is armed (:41-42, :132-133): in a game that
\* is never stopped and where such calls come one at a time, a caller that waits
\* eventually returns.  Without either it may not.
BeginTurnReturns ==
  [](cancelled = {} /\ OneInside) =>
    \A p \in Picker : pickerPc[p] = "wait" ~> pickerPc[p] = "idle"

\* A late BeginTurn is dropped (:207) and the teller who is seated next has a
\* pick phase: when the loop goes back to waiting for a pick, no signal from
\* before is in its begin channel.
PickStartsClean ==
  [][\A l \in Loop : loopPc[l] = "handler" /\ loopPc'[l] = "pick" =>
       l \notin beginSig]_vars

-----------------------------------------------------------------------------
(* The loop implements the turn cycle of TurnCycle.tla *)

\* The phase of the game is that of its registered goroutine; cancelled ones
\* are not seen.
GamePhase ==
  IF ~Running THEN "stopped"
  ELSE CASE loopPc[cancelMap] \in {"pick", "skip", "arming"} -> "pick"
         [] loopPc[cancelMap] \in {"close", "play", "ended"} -> "play"
         [] OTHER -> "handler"

Cycle == INSTANCE TurnCycle WITH phase <- GamePhase

\* Seen from outside, the loop is the turn cycle: no turn begins, ends or is
\* skipped except in that order, a stopped game moves only by Start, and with a
\* handler that returns every phase of a running game ends (:193-247).
TurnCycleSpec == Cycle!Spec
TurnCycleSafety == Cycle!Init /\ [][Cycle!Next]_GamePhase
=============================================================================
