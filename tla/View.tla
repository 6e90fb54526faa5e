-------------------------------- MODULE View --------------------------------
(***************************************************************************)
(* What a player is shown: GameState, Leaderboard, GameWord and            *)
(* MaskMessage of usecase/emojix.go, over the reads of                     *)
(* repository/sqlite.go.                                                   *)
(*                                                                         *)
(* A page is made from several queries without a transaction, each an      *)
(* action of its own, while players join and leave, turns begin and get    *)
(* their word, and guesses and chat lines are stored.  A mask hides every  *)
(* letter of a word, so a word is shown as it is or not at all.            *)
(***************************************************************************)
EXTENDS Naturals, FiniteSets

CONSTANTS
  Player,      \* everybody who may ever ask for a page, whether or not they joined
  Word,        \* the words of the game's list
  Leaver,      \* bound: those who may be kicked
  MaxTurns,    \* bound: turns of the game
  MaxRows,     \* bound: of each player, rows in players
  MaxLines,    \* bound: different lines said
  Reader,      \* page requests in flight at once
  Chatter,     \* any text that is not a word
  None

ASSUME ViewAssumption ==
  /\ None \notin Player \cup Word /\ Chatter \notin Word
  /\ Leaver \subseteq Player
  /\ MaxTurns \in Nat /\ MaxLines \in Nat
  /\ MaxRows \in [Player -> Nat]

VARIABLES
  latest,    \* the number of the latest turn, 0 before the first
  teller,    \* game_turns.teller_id of each turn
  word,      \* game_turns.word_id of each turn, None before the pick
  rows,      \* how many rows of players each of them has
  activeRows,  \* how many of these rows are active
  scored,    \* per turn, the players with a row in game_scores
  lines,     \* messages: what was said, guessed or not, and in which turn
  pc,        \* where each page request is
  kind,      \* which page it makes
  reader,    \* whose page it is
  seenActive, seenLines, seenScored, seenTurn,  \* what its queries returned
  page       \* what it showed last

tableVars == <<latest, teller, word, rows, activeRows, scored, lines>>
seenVars == <<seenActive, seenLines, seenScored, seenTurn>>
requestVars == <<pc, kind, reader, seenVars, page>>
vars == <<tableVars, requestVars>>

Table == INSTANCE TurnTable WITH User <- Player

Turn == 1..MaxTurns
Line == [turn : Turn, text : Word \cup {Chatter}]

\* A page: whose it is, the turn it shows (0 for none), whether it offers the words to
\* pick from, whether it spells the word out, the lines it shows as they were written,
\* the players it lists and those of them it marks as done, and whether it says that the
\* turn is over because all are.
Page ==
  [reader : Player, turn : 0..MaxTurns, options : BOOLEAN, open : BOOLEAN,
   raw : SUBSET Line, listed : SUBSET Player, solved : SUBSET Player, ended : BOOLEAN]

TypeOK ==
  /\ latest \in 0..MaxTurns
  /\ teller \in [Turn -> Player \cup {None}]
  /\ word \in [Turn -> Word \cup {None}]
  /\ rows \in [Player -> Nat] /\ activeRows \in [Player -> Nat]
  /\ scored \in [Turn -> SUBSET Player]
  /\ lines \subseteq Line
  /\ pc \in [Reader -> {"idle", "players", "lines", "scores", "turn"}]
  /\ kind \in [Reader -> {"game", "board", "word"}]
  /\ reader \in [Reader -> Player]
  /\ seenActive \in [Reader -> SUBSET Player]
  /\ seenLines \in [Reader -> SUBSET Line]
  /\ seenScored \in [Reader -> [Turn -> SUBSET Player]]
  /\ seenTurn \in [Reader -> 0..MaxTurns]
  /\ page \in [Reader -> Page \cup {None}]

NoScores == [t \in Turn |-> {}]

\* A room before its first turn, and no page requested.
Init ==
  /\ Table!Init
  /\ \E host \in Table!Seated : reader = [r \in Reader |-> host]
  /\ scored = NoScores
  /\ lines = {}
  /\ pc = [r \in Reader |-> "idle"]
  /\ kind = [r \in Reader |-> "game"]
  /\ seenActive = [r \in Reader |-> {}]
  /\ seenLines = [r \in Reader |-> {}]
  /\ seenScored = [r \in Reader |-> NoScores]
  /\ seenTurn = [r \in Reader |-> 0]
  /\ page = [r \in Reader |-> None]

-----------------------------------------------------------------------------
(* The game around the pages: the steps of TurnTable.tla, which those of      *)
(* Room.tla implement, and guesses and messages                              *)

NewTurn == Table!NewTurn /\ UNCHANGED <<scored, lines, requestVars>>
PickWord == Table!PickWord /\ UNCHANGED <<scored, lines, requestVars>>
AddPlayer(u) ==
  rows[u] < MaxRows[u] /\ Table!AddPlayer(u) /\ UNCHANGED <<scored, lines, requestVars>>
Reactivate(u) ==
  activeRows[u] < rows[u] /\ Table!Reactivate(u) /\ UNCHANGED <<scored, lines, requestVars>>
Kick(u) ==
  /\ u \in Leaver /\ u \in Table!Active
  /\ Table!Kick(u)
  /\ UNCHANGED <<scored, lines, requestVars>>

SendMessage(t, text) ==
  /\ lines' = lines \cup {[turn |-> t, text |-> text]}
  /\ Cardinality(lines') <= MaxLines

\* The commit of a Guess that read turn t: the line, and if it is the word the score
\* rows of the player and the teller.  Neither a guess nor a message asks for a seat.
Guess(u, t, text) ==
  /\ u # teller[t] /\ word[t] # None
  /\ SendMessage(t, text)
  /\ scored' = IF text = word[t] THEN [scored EXCEPT ![t] = @ \cup {u, teller[t]}]
               ELSE scored
  /\ UNCHANGED <<latest, teller, word, rows, activeRows, requestVars>>

\* Message: anybody may say anything, the teller only emoji.
Message(u, t, text) ==
  /\ u = teller[t] => text = Chatter /\ word[t] # None
  /\ SendMessage(t, text)
  /\ UNCHANGED <<latest, teller, word, rows, activeRows, scored, requestVars>>

-----------------------------------------------------------------------------
(* The queries of a page, in the order in which each use case makes them *)

Goto(r, from, to) ==
  /\ pc[r] = from
  /\ pc' = [pc EXCEPT ![r] = to]

\* GameWord begins with the turn, the others with the players.
First(k) == IF k = "word" THEN "turn" ELSE "players"

Request(r, u, k) ==
  /\ Goto(r, "idle", First(k))
  /\ kind' = [kind EXCEPT ![r] = k]
  /\ reader' = [reader EXCEPT ![r] = u]
  /\ page' = [page EXCEPT ![r] = None]
  /\ UNCHANGED <<tableVars, seenVars>>

\* The request is answered: locals are dead.
Forget(r) ==
  /\ seenActive' = [seenActive EXCEPT ![r] = {}]
  /\ seenLines' = [seenLines EXCEPT ![r] = {}]
  /\ seenScored' = [seenScored EXCEPT ![r] = NoScores]
  /\ seenTurn' = [seenTurn EXCEPT ![r] = 0]

\* GetPlayers and filterActivePlayers; isPlayerInGame refuses everybody else.  What is
\* shown depends on whose the rows are, not on how many.
ReadPlayers(r) ==
  /\ Goto(r, "players", IF reader[r] \notin Table!Active THEN "idle"
                        ELSE IF kind[r] = "game" THEN "lines" ELSE "scores")
  /\ seenActive' = [seenActive EXCEPT ![r] = IF reader[r] \in Table!Active
                                             THEN Table!Active ELSE {}]
  /\ UNCHANGED <<tableVars, kind, reader, seenLines, seenScored, seenTurn, page>>

\* GetMessages.
ReadLines(r) ==
  /\ Goto(r, "lines", "scores")
  /\ seenLines' = [seenLines EXCEPT ![r] = lines]
  /\ UNCHANGED <<tableVars, kind, reader, seenActive, seenScored, seenTurn, page>>

-----------------------------------------------------------------------------
(* What is shown *)

\* Seeded fault: a row of any turn counts.
SolvedInAny(scores, t, u) == \E s \in Turn : u \in scores[s]

\* isGuessedWord: a score row of the turn shown.
HasRow(scores, t, u) == t \in Turn /\ u \in scores[t]

TellerOf(t) == IF t \in Turn THEN teller[t] ELSE None

\* buildLeaderboard: the active players marked as done, the teller always.
Solved(r, scores, t) ==
  {u \in seenActive[r] : u = TellerOf(t) \/ HasRow(scores, t, u)}

\* Seeded fault: a teller alone counts as everybody.
EverySeenSolved(r, scores, t) == seenActive[r] \subseteq Solved(r, scores, t)

\* Everybody who must guess has; with nobody to guess, nobody has.
AllGuessed(r, scores, t) ==
  /\ seenActive[r] \ {TellerOf(t)} # {}
  /\ seenActive[r] \subseteq Solved(r, scores, t)

\* MaskMessage: a line that is the word of the turn shown becomes "... got it!".
Unmasked(r, w) == {m \in seenLines[r] : m.text # w}

\* loadWordOptions: before the pick the teller chooses among the turn's words.
OffersWords(r, t) == kind[r] = "game" /\ t \in Turn /\ reader[r] = teller[t]

\* Leaderboard, and GameState without a turn or before the pick: no word, no lines.
Board(r, scores, t) ==
  [reader |-> reader[r], turn |-> t, options |-> OffersWords(r, t), open |-> FALSE, raw |-> {},
   listed |-> seenActive[r], solved |-> Solved(r, scores, t), ended |-> FALSE]

\* GameState of a picked turn.
Game(r, scores, t, w) ==
  [reader |-> reader[r], turn |-> t, options |-> FALSE,
   open |-> reader[r] = teller[t] \/ reader[r] \in Solved(r, scores, t),
   raw |-> Unmasked(r, w), listed |-> seenActive[r], solved |-> Solved(r, scores, t),
   ended |-> AllGuessed(r, scores, t)]

\* GameWord: the word alone.
WordOnly(r, scores, t) ==
  [reader |-> reader[r], turn |-> t, options |-> FALSE,
   open |-> reader[r] = teller[t] \/ HasRow(scores, t, reader[r]),
   raw |-> {}, listed |-> {}, solved |-> {}, ended |-> FALSE]

Show(r, p) ==
  /\ page' = [page EXCEPT ![r] = p]
  /\ Forget(r)
  /\ UNCHANGED <<tableVars, kind, reader>>

\* Seeded fault: of two turns the older one is returned.
TurnBefore == IF latest > 1 THEN latest - 1 ELSE latest

\* GetLatestTurn.
LatestTurn == latest
LatestWord == IF LatestTurn = 0 THEN None ELSE word[LatestTurn]

\* GetScores; GameWord is done with it.
ReadScores(r) ==
  /\ kind[r] # "word"
  /\ Goto(r, "scores", "turn")
  /\ seenScored' = [seenScored EXCEPT ![r] = scored]
  /\ UNCHANGED <<tableVars, kind, reader, seenActive, seenLines, seenTurn, page>>

ShowWord(r) ==
  /\ kind[r] = "word"
  /\ Goto(r, "scores", "idle")
  /\ Show(r, WordOnly(r, scored, seenTurn[r]))

\* GetLatestTurn: without a picked word there is no word to show.
ReadTurn(r) ==
  /\ kind[r] = "word"
  /\ Goto(r, "turn", IF LatestWord = None THEN "idle" ELSE "scores")
  /\ seenTurn' = [seenTurn EXCEPT ![r] = IF LatestWord = None THEN 0 ELSE LatestTurn]
  /\ UNCHANGED <<tableVars, kind, reader, seenActive, seenLines, seenScored, page>>

\* GetLatestTurn is the last query of the other pages.
ShowBoard(r) ==
  /\ kind[r] = "board" \/ (kind[r] = "game" /\ LatestWord = None)
  /\ Goto(r, "turn", "idle")
  /\ Show(r, Board(r, seenScored[r], LatestTurn))

ShowGame(r) ==
  /\ kind[r] = "game" /\ LatestWord # None
  /\ Goto(r, "turn", "idle")
  /\ Show(r, Game(r, seenScored[r], LatestTurn, LatestWord))

-----------------------------------------------------------------------------
PageStep(r) ==
  \/ \E u \in Player, k \in {"game", "board", "word"} : Request(r, u, k)
  \/ ReadPlayers(r) \/ ReadLines(r) \/ ReadScores(r) \/ ReadTurn(r)
  \/ ShowWord(r) \/ ShowBoard(r) \/ ShowGame(r)

Next ==
  \/ NewTurn \/ PickWord
  \/ \E u \in Player : AddPlayer(u) \/ Reactivate(u) \/ Kick(u)
  \/ \E u \in Player, t \in 1..latest, text \in Word \cup {Chatter} :
       Guess(u, t, text) \/ Message(u, t, text)
  \/ \E r \in Reader : PageStep(r)

Spec == Init /\ [][Next]_vars
-----------------------------------------------------------------------------
(* What pages promise *)

\* Whoever is shown the word is the teller of the turn shown or has solved it,
\* although the scores and the turn are read at different times and a turn may begin
\* in between; the words to pick from are the teller's only (emojix.go:205-216,
\* :250-256, :976-999).
WordOnlyForSolvers ==
  \A r \in Reader : page[r] # None =>
    LET t == page[r].turn
    IN  /\ page[r].open => page[r].reader \in scored[t] \cup {teller[t]}
        /\ page[r].options => page[r].reader = teller[t]

\* A line that is the word of the turn it was said in is not shown as it was written
\* while that turn is the latest, whenever it was stored relative to the queries of the
\* page (emojix.go:183-193, :263-276).  Later it is, see RawWordNeverLeaks.
HistoryHidesCurrentWord ==
  \A r \in Reader : page[r] # None =>
    \A m \in page[r].raw : m.text = word[m.turn] => m.turn < latest

\* A page marks as done only those who have solved the turn it shows, and the teller;
\* it says that everybody has guessed only when all it lists are done and one of them
\* had to guess (emojix.go:229-247, :846-882).
EndedOnlyWhenSolved ==
  \A r \in Reader : page[r] # None =>
    LET t == page[r].turn
        done == IF t = 0 THEN {} ELSE scored[t] \cup {teller[t]}
    IN  /\ page[r].solved \subseteq done
        /\ page[r].ended => page[r].listed \subseteq done
        /\ page[r].ended => page[r].listed \ {teller[t]} # {}

\* "The raw word is never leaked to unsolved players (or anyone via chat history)"
\* (emojix.go:125-126): a line with which a turn was solved is not shown as written to
\* somebody who neither solved that turn nor was its teller.
RawWordNeverLeaks ==
  \A r \in Reader : page[r] # None =>
    \A m \in page[r].raw :
      m.text = word[m.turn] /\ scored[m.turn] # {} =>
        page[r].reader \in scored[m.turn] \cup {teller[m.turn]}
=============================================================================
