-------------------------------- MODULE Room --------------------------------
(***************************************************************************)
(* The life of one room: usecase/joingame.go and the parts of              *)
(* usecase/emojix.go that seat players, create turns and drive the loop    *)
(* (tryStartGame, onTurnEnd, newGameTurn, PickWord, KickInactiveUser),     *)
(* over the tables players and game_turns of repository/sqlite.go.         *)
(*                                                                         *)
(* Every repository call is an action of its own: the code reads, decides  *)
(* and writes without a transaction, so requests, the turn-end handler and *)
(* the kick timers interleave between any two of them.  Only GetPlayers    *)
(* and the CountTurns that follows it in newGameTurn are read together,    *)
(* and reads of rows that never change (users, games, words) are left out. *)
(*                                                                         *)
(* The turn loop is GameLoop.tla, its variables and its actions: Start is  *)
(* the last step of tryStartGame, BeginTurn of PickWord, EndGameTurn of    *)
(* Guess, StopGame of onTurnEnd, and the handler returns when onTurnEnd    *)
(* does.                                                                   *)
(***************************************************************************)
EXTENDS Naturals, FiniteSets, Sequences

CONSTANTS
  User,        \* registered users
  Host,        \* the user who created the game (InitGame)
  Joiner,      \* JoinGame requests in flight at once
  Word,        \* the words of the game's list
  Capacity,    \* maxRoomCapacity, 10 in the code
  MinPlayers,  \* minPlayersToStart, 2 in the code
  NumOptions,  \* words offered to the teller, 3 in the code
  MaxTurns,    \* bound: rows of game_turns
  Leaver,      \* bound: the users whose connection may end (and be kicked)
  Fallible,    \* whether repository calls may fail
  Loop, Picker, Ender, Old, None  \* see GameLoop.tla

ASSUME RoomAssumption ==
  /\ Host \in User /\ Leaver \subseteq User
  /\ None \notin User \cup Word
  /\ Joiner \cap Loop = {} /\ Fallible \in BOOLEAN
  /\ {Capacity, MinPlayers, NumOptions, MaxTurns} \subseteq Nat \ {0}
  /\ MinPlayers >= 2
ASSUME NameAssumption == {Old, None} \cap (Loop \cup Picker) = {} /\ Old # None

VARIABLES
  players,    \* rows of the players table, in join order
  turns,      \* rows of game_turns, in creation order: the last one is the latest
  connected,  \* users with an SSE subscription (GameNotifier.Subs)
  kickPc,     \* the kick goroutine of each user's last connection
  joinPc, joinUser, joinHow,  \* JoinGame requests
  draft,      \* the turn that newGameTurn is about to insert, per join and per loop
  handlerPc,  \* where the onTurnEnd call of each loop goroutine is
  pickPc, pickTurn, pickWord  \* PickWord requests

\* The turn loop's own variables, see GameLoop.tla.
VARIABLES
  cancelMap, cancelled, beginMap, endMap, armedMap, beginSig, endSig, closed,
  loopPc, loopArmed, pickerPc, pickerCh, enderPc, enderCh

GL == INSTANCE GameLoop

loopVars == <<cancelMap, cancelled, beginMap, endMap, armedMap, beginSig, endSig, closed,
              loopPc, loopArmed, pickerPc, pickerCh, enderPc, enderCh>>
tableVars == <<players, turns>>
kickVars == <<connected, kickPc>>
joinVars == <<joinPc, joinUser, joinHow>>
pickVars == <<pickPc, pickTurn, pickWord>>
roomVars == <<tableVars, kickVars, joinVars, draft, handlerPc, pickVars>>
vars == <<roomVars, loopVars>>

Row == [user : User, active : BOOLEAN]
Turn == [teller : User, options : SUBSET Word, word : Word \cup {None}]
ASSUME NoneIsNoTurn == None \notin Turn

TypeOK ==
  /\ players \in Seq(Row)
  /\ turns \in Seq(Turn)
  /\ connected \subseteq User
  /\ kickPc \in [User -> {"none", "sleep", "write"}]
  /\ joinPc \in [Joiner -> {"idle", "write", "check", "count", "words", "read", "add",
                           "start"}]
  /\ joinUser \in [Joiner -> User]
  /\ joinHow \in [Joiner -> {"add", "reactivate"}]
  /\ draft \in [Joiner \cup Loop -> Turn \cup {None}]
  /\ handlerPc \in [Loop -> {"count", "words", "read", "add", "rewords", "reread", "readd",
                            "stop", "done"}]
  /\ pickPc \in [Picker -> {"idle", "write", "begin"}]
  /\ pickTurn \in [Picker -> Nat]
  /\ pickWord \in [Picker -> Word \cup {None}]

Init ==
  /\ players = <<[user |-> Host, active |-> TRUE]>>
  /\ turns = <<>>
  /\ connected = {}
  /\ kickPc = [u \in User |-> "none"]
  /\ joinPc = [j \in Joiner |-> "idle"]
  /\ joinUser = [j \in Joiner |-> Host]
  /\ joinHow = [j \in Joiner |-> "add"]
  /\ draft = [x \in Joiner \cup Loop |-> None]
  /\ handlerPc = [l \in Loop |-> "count"]
  /\ pickPc = [p \in Picker |-> "idle"]
  /\ pickTurn = [p \in Picker |-> 0]
  /\ pickWord = [p \in Picker |-> None]
  /\ GL!Init

-----------------------------------------------------------------------------
(* The tables *)

\* filterActivePlayers over GetPlayers: the rows of the active players.
Active == {i \in DOMAIN players : players[i].active}

RowsOf(u) == {i \in DOMAIN players : players[i].user = u}
SeatedActive(u) == RowsOf(u) \cap Active # {}

AddPlayer(u) == players' = Append(players, [user |-> u, active |-> TRUE])

\* UPDATE players: every row of the user.
SetPlayerState(u, state) ==
  players' = [i \in DOMAIN players |->
                IF players[i].user = u THEN [players[i] EXCEPT !.active = state]
                ELSE players[i]]

\* GetUnusedByList: the list without the words of this game's turns.
UnusedWords == Word \ {turns[i].word : i \in DOMAIN turns}

Smaller(m, n) == IF m < n THEN m ELSE n

\* The row whose turn it is by join order among those active now.
Tellers ==
  {i \in Active : Cardinality({k \in Active : k < i}) = Len(turns) % Cardinality(Active)}

\* The options newGameTurn may draw: NumOptions unused words, or all there are
\* (a short list is padded with repetitions).
Options ==
  {opts \in SUBSET UnusedWords :
     Cardinality(opts) = Smaller(NumOptions, Cardinality(UnusedWords))}

\* newGameTurn reads the unused words and draws the options: ErrNoWords when there
\* is none.  The teller is not known yet.
ReadWords(x) ==
  /\ UnusedWords # {}
  /\ \E opts \in Options :
       draft' = [draft EXCEPT ![x] = [teller |-> Host, options |-> opts, word |-> None]]
ErrNoWords == UnusedWords = {} /\ UNCHANGED draft

\* newGameTurn reads the players and counts the turns, which makes the teller: an
\* error when nobody is active.
ReadTeller(x) ==
  \E i \in Tellers : draft' = [draft EXCEPT ![x].teller = players[i].user]
ErrNoPlayers(x) == Active = {} /\ draft' = [draft EXCEPT ![x] = None]

\* AddTurn, the insert.
AddTurn(x) ==
  /\ Len(turns) < MaxTurns
  /\ turns' = Append(turns, draft[x])
  /\ draft' = [draft EXCEPT ![x] = None]

\* Seeded faults: an update without the IS NULL condition; one on the latest turn.
OverwriteTurnWord(i, w) == turns' = [turns EXCEPT ![i].word = w]
SetLatestTurnWord(i, w) ==
  turns' = IF turns[Len(turns)].word = None
           THEN [turns EXCEPT ![Len(turns)].word = w] ELSE turns

\* UPDATE game_turns ... AND word_id IS NULL: a turn that has a word keeps it,
\* and the caller is not told.
SetTurnWord(i, w) ==
  turns' = IF turns[i].word = None THEN [turns EXCEPT ![i].word = w] ELSE turns

-----------------------------------------------------------------------------
(* JoinGame and tryStartGame *)

JoinGoto(j, from, to) ==
  /\ joinPc[j] = from
  /\ joinPc' = [joinPc EXCEPT ![j] = to]

\* Seeded fault: one active player too many.
HasRoomForOneMore == Cardinality(Active) <= Capacity

HasRoom == Cardinality(Active) < Capacity

\* Seeded fault: a returning player is not recognised.
AlwaysAdd(u) == "add"

\* A user with rows, all inactive by now, gets them back.
SeatBy(u) == IF RowsOf(u) = {} THEN "add" ELSE "reactivate"

\* GetPlayers and the checks on what it returned.  "already joined" and "room
\* is full" return at once.
JoinRead(j, u) ==
  /\ JoinGoto(j, "idle", "write")
  /\ ~SeatedActive(u)
  /\ HasRoom
  /\ joinUser' = [joinUser EXCEPT ![j] = u]
  /\ joinHow' = [joinHow EXCEPT ![j] = SeatBy(u)]
  /\ UNCHANGED <<tableVars, kickVars, draft, handlerPc, pickVars, loopVars>>

\* AddPlayer or SetPlayerState, as decided by the read (locals that are dead
\* from here on take their initial value again).
JoinWrite(j) ==
  /\ JoinGoto(j, "write", "check")
  /\ IF joinHow[j] = "add" THEN AddPlayer(joinUser[j])
     ELSE SetPlayerState(joinUser[j], TRUE)
  /\ joinUser' = [joinUser EXCEPT ![j] = Host]
  /\ joinHow' = [joinHow EXCEPT ![j] = "add"]
  /\ UNCHANGED <<turns, kickVars, draft, handlerPc, pickVars, loopVars>>

\* Seeded fault: tryStartGame without its check for a loop.
JoinSkipCheck(j) ==
  /\ JoinGoto(j, "check", "count")
  /\ UNCHANGED <<tableVars, kickVars, joinUser, joinHow, draft, handlerPc, pickVars,
                 loopVars>>

\* Running: with a loop there is nothing to start.
JoinCheckRunning(j) ==
  /\ JoinGoto(j, "check", IF GL!Running THEN "idle" ELSE "count")
  /\ UNCHANGED <<tableVars, kickVars, joinUser, joinHow, draft, handlerPc, pickVars,
                 loopVars>>

\* Seeded fault: one active player is enough.
JoinCountOne(j) ==
  /\ JoinGoto(j, "count", IF Active = {} THEN "idle" ELSE "words")
  /\ UNCHANGED <<tableVars, kickVars, joinUser, joinHow, draft, handlerPc, pickVars,
                 loopVars>>

\* GetPlayers again: too few active players keep waiting.
JoinCount(j) ==
  /\ JoinGoto(j, "count", IF Cardinality(Active) < MinPlayers THEN "idle" ELSE "words")
  /\ UNCHANGED <<tableVars, kickVars, joinUser, joinHow, draft, handlerPc, pickVars,
                 loopVars>>

\* newGameTurn, up to the insert; an error gives the start up.
JoinReadWords(j) ==
  /\ \/ JoinGoto(j, "words", "read") /\ ReadWords(j)
     \/ JoinGoto(j, "words", "idle") /\ ErrNoWords
  /\ UNCHANGED <<tableVars, kickVars, joinUser, joinHow, handlerPc, pickVars, loopVars>>

JoinReadTeller(j) ==
  /\ \/ JoinGoto(j, "read", "add") /\ ReadTeller(j)
     \/ JoinGoto(j, "read", "idle") /\ ErrNoPlayers(j)
  /\ UNCHANGED <<tableVars, kickVars, joinUser, joinHow, handlerPc, pickVars, loopVars>>

JoinAddTurn(j) ==
  /\ JoinGoto(j, "add", "start")
  /\ AddTurn(j)
  /\ UNCHANGED <<players, kickVars, joinUser, joinHow, handlerPc, pickVars, loopVars>>

\* GameLoop.Start, which only warns when the game has a loop by now.
JoinStart(j) ==
  /\ JoinGoto(j, "start", "idle")
  /\ \/ \E l \in Loop : GL!Start(l)
     \/ GL!Running /\ UNCHANGED loopVars
  /\ UNCHANGED <<tableVars, kickVars, joinUser, joinHow, draft, handlerPc, pickVars>>

\* The repository call fails: JoinGame returns the error, tryStartGame logs it.
JoinFails(j) ==
  /\ Fallible
  /\ \E pc \in {"write", "count", "words", "read", "add"} : JoinGoto(j, pc, "idle")
  /\ joinUser' = [joinUser EXCEPT ![j] = Host]
  /\ joinHow' = [joinHow EXCEPT ![j] = "add"]
  /\ draft' = [draft EXCEPT ![j] = None]
  /\ UNCHANGED <<tableVars, kickVars, handlerPc, pickVars, loopVars>>

-----------------------------------------------------------------------------
(* onTurnEnd, in the loop's goroutine, after its five seconds *)

HandlerGoto(l, from, to) ==
  /\ loopPc[l] = "handler"
  /\ handlerPc[l] = from
  /\ handlerPc' = [handlerPc EXCEPT ![l] = to]

\* GetPlayers: too few active players pause the game.
TurnEndCount(l) ==
  /\ HandlerGoto(l, "count", IF Cardinality(Active) < MinPlayers THEN "stop" ELSE "words")
  /\ UNCHANGED <<tableVars, kickVars, joinVars, draft, pickVars, loopVars>>

\* Seeded faults: the error of the retried newGameTurn is not checked; it is, and the
\* handler returns without stopping the loop.
TurnEndReadUnchecked(l) ==
  /\ \/ HandlerGoto(l, "words", "read") /\ ReadWords(l)
     \/ HandlerGoto(l, "words", "rewords") /\ ErrNoWords
     \/ HandlerGoto(l, "rewords", "reread") /\ ReadWords(l)
     \/ HandlerGoto(l, "rewords", "readd") /\ ErrNoWords
  /\ UNCHANGED <<tableVars, kickVars, joinVars, pickVars, loopVars>>
TurnEndGivesUp(l) ==
  /\ \/ HandlerGoto(l, "words", "read") /\ ReadWords(l)
     \/ HandlerGoto(l, "words", "rewords") /\ ErrNoWords
     \/ HandlerGoto(l, "rewords", "reread") /\ ReadWords(l)
     \/ HandlerGoto(l, "rewords", "done") /\ ErrNoWords
  /\ UNCHANGED <<tableVars, kickVars, joinVars, pickVars, loopVars>>

\* newGameTurn up to its insert; it is tried twice before the game is stopped.
TurnEndReadWords(l) ==
  /\ \/ HandlerGoto(l, "words", "read") /\ ReadWords(l)
     \/ HandlerGoto(l, "words", "rewords") /\ ErrNoWords
     \/ HandlerGoto(l, "rewords", "reread") /\ ReadWords(l)
     \/ HandlerGoto(l, "rewords", "stop") /\ ErrNoWords
  /\ UNCHANGED <<tableVars, kickVars, joinVars, pickVars, loopVars>>

TurnEndReadTeller(l) ==
  /\ \/ HandlerGoto(l, "read", "add") /\ ReadTeller(l)
     \/ HandlerGoto(l, "read", "rewords") /\ ErrNoPlayers(l)
     \/ HandlerGoto(l, "reread", "readd") /\ ReadTeller(l)
     \/ HandlerGoto(l, "reread", "stop") /\ ErrNoPlayers(l)
  /\ UNCHANGED <<tableVars, kickVars, joinVars, pickVars, loopVars>>

TurnEndAddTurn(l) ==
  /\ HandlerGoto(l, "add", "done") \/ HandlerGoto(l, "readd", "done")
  /\ AddTurn(l)
  /\ UNCHANGED <<players, kickVars, joinVars, pickVars, loopVars>>

\* The repository call fails: newGameTurn is tried once more, anything else stops
\* the game.
TurnEndFails(l) ==
  /\ Fallible
  /\ \/ HandlerGoto(l, "count", "stop")
     \/ \E pc \in {"words", "read", "add"} : HandlerGoto(l, pc, "rewords")
     \/ \E pc \in {"rewords", "reread", "readd"} : HandlerGoto(l, pc, "stop")
  /\ draft' = [draft EXCEPT ![l] = None]
  /\ UNCHANGED <<tableVars, kickVars, joinVars, pickVars, loopVars>>

TurnEndStop(l) ==
  /\ HandlerGoto(l, "stop", "done")
  /\ GL!StopGame
  /\ UNCHANGED <<tableVars, kickVars, joinVars, draft, pickVars>>

TurnEndReturn(l) ==
  /\ HandlerGoto(l, "done", "count")
  /\ GL!HandlerReturn(l)
  /\ UNCHANGED <<tableVars, kickVars, joinVars, draft, pickVars>>

-----------------------------------------------------------------------------
(* PickWord *)

\* GetLatestTurn and the checks on it.
PickRead(p, u, w) ==
  /\ pickPc[p] = "idle"
  /\ turns # <<>>
  /\ LET turn == turns[Len(turns)]
     IN  turn.word = None /\ turn.teller = u /\ w \in turn.options
  /\ pickPc' = [pickPc EXCEPT ![p] = "write"]
  /\ pickTurn' = [pickTurn EXCEPT ![p] = Len(turns)]
  /\ pickWord' = [pickWord EXCEPT ![p] = w]
  /\ UNCHANGED <<tableVars, kickVars, joinVars, draft, handlerPc, loopVars>>

\* The update, on the turn that was read, which may not be the latest any more.
PickWrite(p) ==
  /\ pickPc[p] = "write"
  /\ SetTurnWord(pickTurn[p], pickWord[p])
  /\ pickPc' = [pickPc EXCEPT ![p] = "begin"]
  /\ pickTurn' = [pickTurn EXCEPT ![p] = 0]
  /\ pickWord' = [pickWord EXCEPT ![p] = None]
  /\ UNCHANGED <<players, kickVars, joinVars, draft, handlerPc, loopVars>>

\* The update fails: the request returns its error.
PickFails(p) ==
  /\ Fallible
  /\ pickPc[p] = "write"
  /\ pickPc' = [pickPc EXCEPT ![p] = "idle"]
  /\ pickTurn' = [pickTurn EXCEPT ![p] = 0]
  /\ pickWord' = [pickWord EXCEPT ![p] = None]
  /\ UNCHANGED <<tableVars, kickVars, joinVars, draft, handlerPc, loopVars>>

\* The steps of BeginTurn; the request is over when it returns.
PickBegin(p) ==
  /\ pickPc[p] = "begin"
  /\ \/ GL!BeginTurnLock(p) /\ UNCHANGED pickPc
     \/ GL!BeginTurnSend(p) /\ UNCHANGED pickPc
     \/ GL!BeginTurnReturn(p) /\ pickPc' = [pickPc EXCEPT ![p] = "idle"]
     \/ /\ pickerPc[p] = "idle" /\ beginMap = None
        /\ pickPc' = [pickPc EXCEPT ![p] = "idle"]
        /\ UNCHANGED loopVars
  /\ UNCHANGED <<tableVars, kickVars, joinVars, draft, handlerPc, pickTurn, pickWord>>

-----------------------------------------------------------------------------
(* EndGameTurn, the last call of the Guess that solves a turn *)

\* The turn that Guess read has a word; by now it may be over and the next one on.
\* Whether everybody has guessed is Scoring.tla's matter.
EndGameTurnLookup(e) ==
  /\ \E i \in DOMAIN turns : turns[i].word # None
  /\ GL!EndGameTurnLookup(e)
  /\ UNCHANGED roomVars

EndGameTurnSend(e) == GL!EndGameTurnSend(e) /\ UNCHANGED roomVars

-----------------------------------------------------------------------------
(* Connections and KickInactiveUser *)

\* An SSE request subscribes; nothing asks whether the user is in the game.
Connect(u) ==
  /\ connected' = connected \cup {u}
  /\ UNCHANGED <<tableVars, kickPc, joinVars, draft, handlerPc, pickVars, loopVars>>

\* The request ends: the subscription is removed and the kick is scheduled.
\* Bound: one kick goroutine per user.
Disconnect(u) ==
  /\ u \in connected
  /\ kickPc[u] = "none"
  /\ connected' = connected \ {u}
  /\ kickPc' = [kickPc EXCEPT ![u] = "sleep"]
  /\ UNCHANGED <<tableVars, joinVars, draft, handlerPc, pickVars, loopVars>>

\* After the delay: a user who has subscribed again stays.
KickCheck(u) ==
  /\ kickPc[u] = "sleep"
  /\ kickPc' = [kickPc EXCEPT ![u] = IF u \in connected THEN "none" ELSE "write"]
  /\ UNCHANGED <<tableVars, connected, joinVars, draft, handlerPc, pickVars, loopVars>>

KickWrite(u) ==
  /\ kickPc[u] = "write"
  /\ SetPlayerState(u, FALSE)
  /\ kickPc' = [kickPc EXCEPT ![u] = "none"]
  /\ UNCHANGED <<turns, connected, joinVars, draft, handlerPc, pickVars, loopVars>>

\* The update fails, which is only logged.
KickFails(u) ==
  /\ Fallible
  /\ kickPc[u] = "write"
  /\ kickPc' = [kickPc EXCEPT ![u] = "none"]
  /\ UNCHANGED <<tableVars, connected, joinVars, draft, handlerPc, pickVars, loopVars>>

-----------------------------------------------------------------------------
JoinStep(j) ==
  \/ \E u \in User : JoinRead(j, u)
  \/ JoinWrite(j) \/ JoinCheckRunning(j) \/ JoinCount(j)
  \/ JoinReadWords(j) \/ JoinReadTeller(j) \/ JoinAddTurn(j) \/ JoinStart(j)
  \/ JoinFails(j)

HandlerStep(l) ==
  \/ TurnEndCount(l) \/ TurnEndReadWords(l) \/ TurnEndReadTeller(l)
  \/ TurnEndAddTurn(l) \/ TurnEndStop(l) \/ TurnEndReturn(l) \/ TurnEndFails(l)

\* The second select of run() takes the end signal.
ReceiveEnd(l) == GL!ReceiveEnd(l) /\ UNCHANGED roomVars

\* The other steps of run() outside the handler.
LoopStep(l) ==
  /\ \/ GL!ReceiveBegin(l) \/ GL!PickTimeout(l) \/ GL!ResetBegin(l)
     \/ GL!ArmTurn(l) \/ GL!CloseArmed(l) \/ GL!TurnTimeout(l) \/ GL!ClearEnd(l)
     \/ GL!Exit(l)
  /\ UNCHANGED roomVars

PickStep(p) ==
  \/ \E u \in User, w \in Word : PickRead(p, u, w)
  \/ PickWrite(p) \/ PickFails(p) \/ PickBegin(p)

EnderStep(e) == EndGameTurnLookup(e) \/ EndGameTurnSend(e)

LeaverStep(u) ==
  Connect(u) \/ Disconnect(u) \/ KickCheck(u) \/ KickWrite(u) \/ KickFails(u)

Next ==
  \/ \E j \in Joiner : JoinStep(j)
  \/ \E l \in Loop : LoopStep(l) \/ ReceiveEnd(l) \/ HandlerStep(l)
  \/ \E p \in Picker : PickStep(p)
  \/ \E e \in Ender : EnderStep(e)
  \/ \E u \in Leaver : LeaverStep(u)

Spec == Init /\ [][Next]_vars
-----------------------------------------------------------------------------
(* What the room promises *)

\* However many PickWord requests race, for the same turn or for one that is no
\* longer the latest, a turn's word never changes once it is set, and rows of
\* game_turns are never rewritten otherwise (emojix.go:475-497,
\* sqlite.go:381-388).
WordKept ==
  [][/\ Len(turns) <= Len(turns')
     /\ \A i \in DOMAIN turns :
          turns'[i] # turns[i] =>
            turns[i].word = None /\ turns'[i] = [turns[i] EXCEPT !.word = turns'[i].word]
    ]_vars

\* What other requests read of the tables: each user's rows, all and active, a teller
\* and a word per turn.
RowCount == [u \in User |-> Cardinality(RowsOf(u))]
ActiveRowCount == [u \in User |-> Cardinality(RowsOf(u) \cap Active)]
TellerOf == [t \in 1..MaxTurns |-> IF t \in DOMAIN turns THEN turns[t].teller ELSE None]
WordOf == [t \in 1..MaxTurns |-> IF t \in DOMAIN turns THEN turns[t].word ELSE None]

Table == INSTANCE TurnTable
           WITH latest <- Len(turns), teller <- TellerOf, word <- WordOf,
                rows <- RowCount, activeRows <- ActiveRowCount

\* Whatever requests, kicks and turn-end handlers race, also two joins of one user, the
\* tables change as TurnTable.tla says, which is what Scoring.tla and View.tla rely on:
\* turns come one at a time, for a teller who has a seat in a room that another player has
\* sat down in, tellers are final, a word is written once, and nobody's row is lost
\* (joingame.go:43-69, emojix.go:118, :475-502, :725-766, sqlite.go:212-234, :353-388).
TablesAsPromised == Table!Spec

\* A turn's word is one of the options offered for that turn, also when the
\* turn changed between the checks of PickWord and its update
\* (emojix.go:486-497).
PickedWordWasOffered ==
  \A i \in DOMAIN turns : turns[i].word # None => turns[i].word \in turns[i].options

\* Joins one at a time: nobody has two seats (joingame.go:44-65; the table has
\* no key that would refuse the second row).
SerialJoins == \A j, k \in Joiner : j = k
OneSeatPerUser ==
  SerialJoins => \A i, k \in DOMAIN players : players[i].user = players[k].user => i = k

\* Joins one at a time: never more active players than seats, whatever kicks
\* and reactivations happen in between (joingame.go:57-65).
CapacityKept == SerialJoins => Cardinality(Active) <= Capacity

\* Those who have a seat now, on however many rows.
ActiveUsers == {players[i].user : i \in Active}

\* Joins that race can overbook the room, by one player for each join beside the first
\* and no more: the check and the write of JoinGame are apart, and whoever passed the
\* check while there was a seat is seated (joingame.go:57-65).
OverbookedByRacesOnly ==
  IsFiniteSet(Joiner) /\ Joiner # {} =>
    Cardinality(ActiveUsers) <= Capacity + (Cardinality(Joiner) - 1)

\* Joins one at a time: a join creates a turn only in a game without a loop, so
\* it never replaces the turn somebody is playing (emojix.go:425-448).
StartAddsTurnOnlyWhenStopped ==
  [][SerialJoins =>
       \A j \in Joiner : joinPc[j] = "add" /\ joinPc'[j] = "start" => ~GL!Running]_vars

\* However PickWord requests race in BeginTurn with pick timeouts, with a loop that their
\* game stops and starts, and with a cancelled goroutine: a registered armed channel is
\* open and its request waits for it, and a request is forgotten only when another one
\* registers over it (gameloop.go:121-133, :254-259; emojix.go:499-501).
RegisteredWaiterBlocked == GL!RegisteredWaiterBlocked
WaiterLostOnlyToOverwrite == GL!WaiterLostOnlyToOverwrite

\* What the room does to the loop is what GameLoop.tla has its callers do.
LoopUsedAsSpecified == GL!Spec

\* Somebody is on the way to tell goroutine l of a pick, or has told it.
PickComing(l) ==
  \/ l \in beginSig
  \/ \E p \in Picker :
       /\ pickPc[p] = "begin"
       /\ pickerPc[p] = "idle" \/ (pickerPc[p] = "send" /\ pickerCh[p] = l)

\* The live loop waits, or goes back to wait, for a pick that has been made and that
\* nobody will tell it of: the turn would never be played.
Outrun(l) ==
  /\ cancelMap = l
  /\ loopPc[l] = "pick" \/ (loopPc[l] = "handler" /\ handlerPc[l] = "done")
  /\ turns # <<>> /\ turns[Len(turns)].word # None
  /\ ~PickComing(l)

\* The pick of the latest turn reaches the loop that waits for it, through pick timeouts,
\* racing requests, failed and retried calls of onTurnEnd and used-up words, except in two
\* ways: the loop is started when the turn has been picked already (emojix.go:444-448), or a
\* cancelled goroutine has registered its begin channel over the live one's
\* (gameloop.go:208, :220-223; emojix.go:495-501, :704-722).
PicksReachLoop ==
  [][\A l \in Loop : ~Outrun(l) /\ Outrun(l)' => loopPc[l] = "none" \/ beginMap # l]_vars

\* tryStartGame is "safe to call on every join" (emojix.go:425-426): a join
\* creates a turn only in a game without a loop, however many joins race.
JoinNeverReplacesTurn ==
  [][\A j \in Joiner : joinPc[j] = "add" /\ joinPc'[j] = "start" => ~GL!Running]_vars

\* A paused game resumes when another player joins (emojix.go:699): once every
\* request and handler is done, a room with enough active players and unused
\* words has a loop.
Quiet ==
  /\ \A j \in Joiner : joinPc[j] = "idle"
  /\ \A l \in Loop : loopPc[l] # "handler"
FullRoomRuns ==
  Quiet /\ Cardinality(Active) >= MinPlayers /\ UnusedWords # {} => GL!Running
=============================================================================
