----------------------------- MODULE TurnTable -----------------------------
(***************************************************************************)
(* What the tables players and game_turns of one room promise to those who *)
(* read them.  A turn is opened by newGameTurn for somebody who has a row, *)
(* and never without two players; its teller is final; its word is written *)
(* at most once, when it may be the latest turn no longer.  The table      *)
(* players has no key: joins that race may add several rows of one user,   *)
(* and the rows of a user change their state together.                     *)
(*                                                                         *)
(* Scoring.tla and View.tla put their requests beside these steps, and     *)
(* Room.tla, where each of them is the last repository call of a request   *)
(* or of the turn-end handler, implements them.                            *)
(***************************************************************************)
EXTENDS Naturals

CONSTANTS User, Word, MaxTurns, None

VARIABLES
  latest,     \* the number of the latest turn, 0 before the first
  teller,     \* game_turns.teller_id of each turn
  word,       \* game_turns.word_id of each turn, None before the pick
  rows,       \* how many rows of players each user has
  activeRows  \* how many of them have the state active

vars == <<latest, teller, word, rows, activeRows>>

Turn == 1..MaxTurns

\* Users with a row, and those whom filterActivePlayers keeps.
Seated == {u \in User : rows[u] > 0}
Active == {u \in User : activeRows[u] > 0}

\* The rows that filterActivePlayers returns, the n-th of user u as <<u, n>>.
ActiveRows == UNION {{u} \X (1..activeRows[u]) : u \in User}

\* A room that has just been created, see InitGame.
Init ==
  /\ latest = 0
  /\ teller = [t \in Turn |-> None]
  /\ word = [t \in Turn |-> None]
  /\ \E host \in User : rows = [u \in User |-> IF u = host THEN 1 ELSE 0]
  /\ activeRows = rows

\* The insert of newGameTurn.  Its teller was active when the players were read, and
\* so was somebody else before; they may have been kicked since.
NewTurn ==
  /\ latest < MaxTurns
  /\ \E u, v \in Seated : u # v
  /\ \E u \in Seated : teller' = [teller EXCEPT ![latest + 1] = u]
  /\ latest' = latest + 1
  /\ UNCHANGED <<word, rows, activeRows>>

\* The update of PickWord, of the latest turn or of one that it read before.
PickWord ==
  /\ \E t \in 1..latest, w \in Word :
       word[t] = None /\ word' = [word EXCEPT ![t] = w]
  /\ UNCHANGED <<latest, teller, rows, activeRows>>

\* The write of JoinGame for a user without a row when it looked.
AddPlayer(u) ==
  /\ rows' = [rows EXCEPT ![u] = @ + 1]
  /\ activeRows' = [activeRows EXCEPT ![u] = @ + 1]
  /\ UNCHANGED <<latest, teller, word>>

\* The write of JoinGame for anybody else, and the one of the kick.
Reactivate(u) ==
  /\ activeRows' = [activeRows EXCEPT ![u] = rows[u]]
  /\ UNCHANGED <<latest, teller, word, rows>>

Kick(u) ==
  /\ activeRows' = [activeRows EXCEPT ![u] = 0]
  /\ UNCHANGED <<latest, teller, word, rows>>

Next ==
  NewTurn \/ PickWord \/ \E u \in User : AddPlayer(u) \/ Reactivate(u) \/ Kick(u)

Spec == Init /\ [][Next]_vars
=============================================================================
