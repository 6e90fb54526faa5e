------------------------------ MODULE Scoring ------------------------------
(***************************************************************************)
(* Guessing, chatting and points: Guess, Message, buildLeaderboard and the *)
(* end-of-turn decision of usecase/emojix.go, over the table game_scores.  *)
(*                                                                         *)
(* Guess reads the turn, then works in one transaction whose first         *)
(* statement is an insert: SQLite gives the write lock to one transaction  *)
(* at a time, so everything from that insert to the commit is one action.  *)
(* Message has no transaction: its query and its insert of score rows are  *)
(* actions of their own.                                                   *)
(*                                                                         *)
(* Score rows are summed, or looked for, per turn and player, and nothing  *)
(* else is asked of them: the table is the number of rows for a correct    *)
(* guess and the sum of points of each turn and player.  Turns begin and   *)
(* get their word, players join and are kicked at any time, as in Room.tla.*)
(***************************************************************************)
EXTENDS Integers, FiniteSets

CONSTANTS
  Player,      \* everybody who may ever guess, whether or not they joined the room
  Word,        \* the words of the game's list
  Leaver,      \* bound: those who may be kicked
  MaxTurns,    \* bound: turns of the game
  MaxRows,     \* bound: of each player, rows in players
  Guess,       \* Guess requests in flight at once
  Message,     \* Message requests of tellers in flight at once
  None

ASSUME ScoringAssumption ==
  /\ IsFiniteSet(Player) /\ Leaver \subseteq Player /\ None \notin Player \cup Word
  /\ MaxTurns \in Nat \ {0} /\ MaxRows \in [Player -> Nat \ {0}]

VARIABLES
  latest,     \* the number of the latest turn, 0 before the first
  teller,     \* game_turns.teller_id of each turn
  word,       \* game_turns.word_id of each turn, None before the pick
  rows,       \* how many rows of players each of them has
  activeRows, \* how many of these rows are active
  guessRows,  \* per turn and player: rows of game_scores for a correct guess
  points,     \* per turn and player: the sum of the score column
  guessPc, guessUser, guessTurn,  \* Guess requests
  msgPc, msgTurn, msgPenalty      \* Message requests

roomVars == <<latest, teller, word, rows, activeRows>>
scoreVars == <<guessRows, points>>
guessVars == <<guessPc, guessUser, guessTurn>>
msgVars == <<msgPc, msgTurn, msgPenalty>>
vars == <<roomVars, scoreVars, guessVars, msgVars>>

Table == INSTANCE TurnTable WITH User <- Player

Turn == 1..MaxTurns

\* The turns whose word is picked.
Picked == {t \in Turn : word[t] # None}

TypeOK ==
  /\ latest \in 0..MaxTurns
  /\ teller \in [Turn -> Player \cup {None}]
  /\ word \in [Turn -> Word \cup {None}]
  /\ rows \in [Player -> Nat]
  /\ activeRows \in [Player -> Nat]
  /\ \A u \in Player : activeRows[u] <= rows[u] /\ rows[u] <= MaxRows[u]
  /\ guessRows \in [Turn -> [Player -> Nat]]
  /\ points \in [Turn -> [Player -> Int]]
  /\ guessPc \in [Guess -> {"idle", "tx", "end"}]
  /\ guessUser \in [Guess -> Player \cup {None}]
  /\ guessTurn \in [Guess -> 0..MaxTurns]
  /\ \A g \in Guess : guessPc[g] = "tx" => guessUser[g] \in Player /\ guessTurn[g] \in Turn
  /\ msgPc \in [Message -> {"idle", "scores", "penalty"}]
  /\ msgTurn \in [Message -> 0..MaxTurns]
  /\ \A m \in Message : msgPc[m] # "idle" => msgTurn[m] \in Turn
  /\ msgPenalty \in [Message -> Nat]

\* A room before its first turn.
Init ==
  /\ Table!Init
  /\ guessRows = [t \in Turn |-> [u \in Player |-> 0]]
  /\ points = [t \in Turn |-> [u \in Player |-> 0]]
  /\ guessPc = [g \in Guess |-> "idle"]
  /\ guessUser = [g \in Guess |-> None]
  /\ guessTurn = [g \in Guess |-> 0]
  /\ msgPc = [m \in Message |-> "idle"]
  /\ msgTurn = [m \in Message |-> 0]
  /\ msgPenalty = [m \in Message |-> 0]

-----------------------------------------------------------------------------
(* The room around the requests: the steps of TurnTable.tla, which those of  *)
(* Room.tla implement                                                        *)

NewTurn == Table!NewTurn /\ UNCHANGED <<scoreVars, guessVars, msgVars>>
PickWord == Table!PickWord /\ UNCHANGED <<scoreVars, guessVars, msgVars>>
AddPlayer(u) ==
  rows[u] < MaxRows[u] /\ Table!AddPlayer(u) /\ UNCHANGED <<scoreVars, guessVars, msgVars>>
Reactivate(u) ==
  activeRows[u] < rows[u] /\ Table!Reactivate(u) /\ UNCHANGED <<scoreVars, guessVars, msgVars>>
Kick(u) ==
  /\ u \in Leaver /\ u \in Table!Active
  /\ Table!Kick(u)
  /\ UNCHANGED <<scoreVars, guessVars, msgVars>>

-----------------------------------------------------------------------------
(* Guess *)

\* The players other than the teller with score rows in turn t: guessedPlayers.
Solved(t) == {u \in Player \ {teller[t]} : guessRows[t][u] > 0}

\* Seeded fault: the teller is counted among those who must guess.
EverybodyActive(t) == Cardinality(Table!ActiveRows)

\* countGuessers of the active players: it counts their rows.
CountGuessers(t) == Cardinality({row \in Table!ActiveRows : row[1] # teller[t]})

\* Seeded fault: every correct guess counts.
NeverScored(u, t) == FALSE

\* The user already has a score row for this turn.
AlreadyScored(u, t) == guessRows[t][u] > 0

AtLeastOne(n) == IF n < 1 THEN 1 ELSE n

\* Ten points, times how many guessers there are for each who has solved.
GuessPoints(t, total) == 10 * AtLeastOne(AtLeastOne(CountGuessers(t)) \div total)

\* The transaction is over, and its player and turn no longer matter.
GuessLeavesTx(g, to) ==
  /\ guessPc' = [guessPc EXCEPT ![g] = to]
  /\ guessUser' = [guessUser EXCEPT ![g] = None]
  /\ guessTurn' = [guessTurn EXCEPT ![g] = 0]

\* Seeded fault: a guess is taken before the turn has a word.
GuessReadUnpicked(g, u) ==
  /\ guessPc[g] = "idle"
  /\ latest = 0 \/ teller[latest] # u
  /\ guessPc' = [guessPc EXCEPT ![g] = "tx"]
  /\ guessUser' = [guessUser EXCEPT ![g] = u]
  /\ guessTurn' = [guessTurn EXCEPT ![g] = latest]
  /\ UNCHANGED <<roomVars, scoreVars, msgVars>>

\* Seeded fault: the teller may guess.
GuessReadTeller(g, u) ==
  /\ guessPc[g] = "idle"
  /\ latest \in Picked
  /\ guessPc' = [guessPc EXCEPT ![g] = "tx"]
  /\ guessUser' = [guessUser EXCEPT ![g] = u]
  /\ guessTurn' = [guessTurn EXCEPT ![g] = latest]
  /\ UNCHANGED <<roomVars, scoreVars, msgVars>>

\* GetLatestTurn and the checks on it, which ask for no seat: whoever is logged in may
\* guess.
GuessRead(g, u) ==
  /\ guessPc[g] = "idle"
  /\ latest \in Picked
  /\ teller[latest] # u
  /\ guessPc' = [guessPc EXCEPT ![g] = "tx"]
  /\ guessUser' = [guessUser EXCEPT ![g] = u]
  /\ guessTurn' = [guessTurn EXCEPT ![g] = latest]
  /\ UNCHANGED <<roomVars, scoreVars, msgVars>>

\* The transaction of a correct first guess: a row for the guesser, one for the
\* teller, and EndGameTurn comes next when this was the last guesser.
GuessScore(g) ==
  /\ guessPc[g] = "tx"
  /\ LET u == guessUser[g]
         t == guessTurn[g]
         total == Cardinality(Solved(t)) + 1
     IN  /\ ~AlreadyScored(u, t)
         /\ guessRows' = [guessRows EXCEPT ![t][u] = @ + 1]
         /\ points' = [points EXCEPT ![t] =
                         [v \in Player |-> @[v] + (IF v = u THEN GuessPoints(t, total)
                                                   ELSE IF v = teller[t] THEN 5 ELSE 0)]]
         /\ GuessLeavesTx(g, IF total = CountGuessers(t) THEN "end" ELSE "idle")
  /\ UNCHANGED <<roomVars, msgVars>>

\* A wrong guess, a repeated correct one, or a transaction that is rolled back:
\* at most the message is stored.
GuessNoScore(g) ==
  /\ guessPc[g] = "tx"
  /\ GuessLeavesTx(g, "idle")
  /\ UNCHANGED <<roomVars, scoreVars, msgVars>>

\* EndGameTurn, after the commit, which takes no turn; what the loop does with it is in
\* GameLoop.tla and Room.tla.
GuessEnd(g) ==
  /\ guessPc[g] = "end"
  /\ guessPc' = [guessPc EXCEPT ![g] = "idle"]
  /\ UNCHANGED <<roomVars, scoreVars, guessUser, guessTurn, msgVars>>

-----------------------------------------------------------------------------
(* Message, by the teller; other players' messages score nothing *)

\* Seeded fault: the penalty is not clamped.
FullPenalty(pts) == IF pts > 0 THEN 2 ELSE 0

\* tellerMessagePenalty, clamped to the turn's points.
Penalty(pts) == IF pts <= 0 THEN 0 ELSE IF pts < 2 THEN pts ELSE 2

MsgGoto(m, from, to) ==
  /\ msgPc[m] = from
  /\ msgPc' = [msgPc EXCEPT ![m] = to]

\* GetLatestTurn and the checks on it: the sender is the teller and has picked.  The
\* SendMessage that follows reads and writes nothing that is modelled.
MsgRead(m) ==
  /\ MsgGoto(m, "idle", "scores")
  /\ latest \in Picked
  /\ msgTurn' = [msgTurn EXCEPT ![m] = latest]
  /\ UNCHANGED <<roomVars, scoreVars, guessVars, msgPenalty>>

\* GetScores, and the sum of the teller's rows in the turn that was read.
MsgScores(m) ==
  LET t == msgTurn[m]
      penalty == Penalty(points[t][teller[t]])
  IN  /\ MsgGoto(m, "scores", IF penalty > 0 THEN "penalty" ELSE "idle")
      /\ msgPenalty' = [msgPenalty EXCEPT ![m] = penalty]
      /\ msgTurn' = [msgTurn EXCEPT ![m] = IF penalty > 0 THEN t ELSE 0]
      /\ UNCHANGED <<roomVars, scoreVars, guessVars>>

\* AddScore of the penalty.
MsgPenalize(m) ==
  LET t == msgTurn[m]
  IN  /\ MsgGoto(m, "penalty", "idle")
      /\ points' = [points EXCEPT ![t][teller[t]] = @ - msgPenalty[m]]
      /\ msgPenalty' = [msgPenalty EXCEPT ![m] = 0]
      /\ msgTurn' = [msgTurn EXCEPT ![m] = 0]
      /\ UNCHANGED <<roomVars, guessRows, guessVars>>

\* A repository call fails: the request returns, and what it stored stays.
MsgFails(m) ==
  /\ \E pc \in {"scores", "penalty"} : MsgGoto(m, pc, "idle")
  /\ msgPenalty' = [msgPenalty EXCEPT ![m] = 0]
  /\ msgTurn' = [msgTurn EXCEPT ![m] = 0]
  /\ UNCHANGED <<roomVars, scoreVars, guessVars>>

-----------------------------------------------------------------------------
RoomStep == NewTurn \/ PickWord \/ \E u \in Player : AddPlayer(u) \/ Reactivate(u) \/ Kick(u)

GuessStep(g) ==
  \/ \E u \in Player : GuessRead(g, u)
  \/ GuessScore(g) \/ GuessNoScore(g) \/ GuessEnd(g)

MsgStep(m) ==
  MsgRead(m) \/ MsgScores(m) \/ MsgPenalize(m) \/ MsgFails(m)

Next ==
  \/ RoomStep
  \/ \E g \in Guess : GuessStep(g)
  \/ \E m \in Message : MsgStep(m)

Spec == Init /\ [][Next]_vars
-----------------------------------------------------------------------------
(* What the players are promised *)

\* However many Guess requests of one player race, and also when the turn they
\* read is over by the time they commit, a player is paid for a turn at most
\* once, and a player who did not solve it has no points of it
\* (emojix.go:620-627).
OneGuessScorePerTurn ==
  \A t \in Turn, u \in Player : u # teller[t] =>
    \/ guessRows[t][u] = 0 /\ points[t][u] = 0
    \/ guessRows[t][u] = 1 /\ points[t][u] > 0

\* The teller of a turn, who never guesses in it, has earned at most five points
\* for each player who solved it, whoever was the latest teller when the guess
\* was committed (emojix.go:661-668).
TellerPaidPerSolver ==
  \A t \in Turn : teller[t] # None =>
    /\ guessRows[t][teller[t]] = 0
    /\ points[t][teller[t]] <= 5 * Cardinality(Solved(t))

\* "Floor is 0": a teller who sends one message at a time never ends up with
\* less than nothing of a turn, although guesses are paid between the sum and
\* the penalty that was computed from it (emojix.go:461-463, 819-838).
SerialMessages == \A m, n \in Message : m = n
TellerFloorSerial ==
  SerialMessages => \A t \in Turn : teller[t] # None => points[t][teller[t]] >= 0

\* GameState shows the turn as ended when every active player but the teller has
\* a score row of it.
AllGuessed(t) ==
  /\ Table!Active \ {teller[t]} # {}
  /\ Table!Active \ {teller[t]} \subseteq Solved(t)

\* Whoever solved the turn is active, and has one row.
SolversCounted(t) == Solved(t) \subseteq Table!Active /\ \A u \in Player : activeRows[u] <= 1

\* The guess that pays a player ends the turn exactly when it makes everybody's page show
\* the turn as ended, although players may join, and be kicked and return, between
\* guesses.  That takes solvers who are all active, with one row each: the guess counts
\* solvers who were kicked or never joined, and every row of a user whose joins raced,
\* the page does neither (emojix.go:631-645, 681-683 against 229-247).
LastGuessEndsTurn ==
  [][\A g \in Guess, t \in Turn :
       /\ guessTurn[g] = t /\ guessPc[g] = "tx"
       /\ guessPc'[g] # "tx" /\ guessRows' # guessRows
       /\ SolversCounted(t)'
       => (guessPc'[g] = "end" <=> AllGuessed(t)')]_vars
=============================================================================
