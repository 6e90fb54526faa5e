----------------------------- MODULE TurnCycle -----------------------------
(***************************************************************************)
(* What one game of the loop promises, seen from outside                   *)
(* (service/gameloop.go:31-58): a stopped game can be started; a running   *)
(* game goes from waiting for the teller's pick to play or straight to the *)
(* turn-end handler, from play to the handler, and from the handler back   *)
(* to waiting; it can be stopped at any moment.  A running game never      *)
(* stays in a phase for ever unless the handler keeps it there.            *)
(***************************************************************************)
VARIABLE phase

Phase == {"stopped", "pick", "play", "handler"}

Init == phase = "stopped"

Move(from, to) == phase = from /\ phase' = to

Start  == Move("stopped", "pick")     \* a loop is started
Begin  == Move("pick", "play")        \* BeginTurn opens the turn
Skip   == Move("pick", "handler")     \* the teller did not pick in time
End    == Move("play", "handler")     \* everybody guessed, or time is up
Reseat == Move("handler", "pick")     \* the handler seated the next teller
Stop   == phase # "stopped" /\ phase' = "stopped"

Next == Start \/ Begin \/ Skip \/ End \/ Reseat \/ Stop

Spec == Init /\ [][Next]_phase
          /\ WF_phase(Begin \/ Skip) /\ WF_phase(End) /\ WF_phase(Reseat)
=============================================================================
