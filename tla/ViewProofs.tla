----------------------------- MODULE ViewProofs -----------------------------
(***************************************************************************)
(* Theorems about View.tla: what a page shows is right for any number of   *)
(* players, words, turns, lines and page requests in flight.               *)
(***************************************************************************)
EXTENDS View, TLAPS

\* What a request has read was so at some time: scores and lines only grow, and turns
\* stay.  GameWord goes on only with a turn.
SeenBefore ==
  \A r \in Reader :
    /\ seenLines[r] \subseteq lines
    /\ \A t \in Turn : seenScored[r][t] \subseteq scored[t]
    /\ seenTurn[r] <= latest
    /\ kind[r] = "word" => pc[r] \in {"idle", "turn", "scores"}
    /\ kind[r] = "word" /\ pc[r] = "scores" => seenTurn[r] # 0

\* What is said is said in a turn, and a turn has its teller.
InTurns ==
  /\ \A m \in lines : m.turn <= latest
  /\ \A t \in 1..latest : teller[t] \in Player

\* Those who may be shown everything of a turn.
Done(t) == IF t = 0 THEN {} ELSE scored[t] \cup {teller[t]}

\* A page stays what it was when it was made: whom it marks as done is done, and a line of
\* its own turn that it shows as written is not the word, which has been picked.
Right(p) ==
  /\ p.turn <= latest
  /\ p.open => p.reader \in Done(p.turn)
  /\ p.options => p.turn # 0 /\ p.reader = teller[p.turn]
  /\ p.solved \subseteq Done(p.turn)
  /\ p.ended => /\ p.turn # 0
                /\ p.listed \subseteq Done(p.turn)
                /\ p.listed \ {teller[p.turn]} # {}
  /\ \A m \in p.raw :
       /\ m.turn <= p.turn
       /\ word[p.turn] # None
       /\ m.turn = p.turn => m.text # word[p.turn]

PagesRight == \A r \in Reader : page[r] # None => Right(page[r])

IInv == TypeOK /\ SeenBefore /\ InTurns /\ PagesRight

\* Tables only grow.
Grow ==
  /\ latest <= latest'
  /\ \A t \in 1..latest : teller'[t] = teller[t]
  /\ \A t \in Turn : word[t] # None => word'[t] = word[t]
  /\ \A t \in Turn : scored[t] \subseteq scored'[t]
  /\ lines \subseteq lines'

-----------------------------------------------------------------------------
LEMMA Constants == MaxTurns \in Nat /\ MaxLines \in Nat /\ Leaver \subseteq Player
BY ViewAssumption

LEMMA InitIInv == Init => IInv
<1> SUFFICES ASSUME Init PROVE IInv
  OBVIOUS
<1>1. TypeOK
  <2>1. rows \in [Player -> Nat] /\ activeRows \in [Player -> Nat]
    BY DEF Init, Table!Init
  <2>2. reader \in [Reader -> Player]
    BY DEF Init, Table!Seated
  <2> QED
    BY <2>1, <2>2, Constants DEF Init, Table!Init, Table!Turn, TypeOK, Turn, NoScores
<1>2. SeenBefore /\ InTurns /\ PagesRight
  BY DEF Init, Table!Init, SeenBefore, InTurns, PagesRight, NoScores
<1> QED
  BY <1>1, <1>2 DEF IInv

\* A page that was right stays right.
LEMMA GrowKeepsRight ==
  ASSUME TypeOK, TypeOK', Grow, NEW p \in Page, Right(p)
  PROVE  Right(p)'
<1>1. p.turn \in 0..MaxTurns /\ p.raw \subseteq Line
  BY DEF Page
<1>2. p.turn # 0 => p.turn \in 1..latest /\ p.turn \in Turn
  BY <1>1, Constants DEF TypeOK, Right, Turn
<1>3. p.turn <= latest'
  BY <1>1, Constants DEF Right, TypeOK, Grow
<1>4. Done(p.turn) \subseteq Done(p.turn)'
  BY <1>2 DEF Done, Grow
<1>5. ASSUME NEW m \in p.raw
      PROVE  /\ m.turn <= p.turn
             /\ word'[p.turn] # None
             /\ m.turn = p.turn => m.text # word'[p.turn]
  <2>1. m.turn \in Turn /\ m.turn <= p.turn
    BY <1>1 DEF Line, Right
  <2>2. p.turn \in Turn
    BY <1>1, <1>2, <2>1, Constants DEF Turn
  <2> QED
    BY <2>1, <2>2 DEF Right, Grow
<1>6. /\ p.options => p.turn # 0 /\ p.reader = teller'[p.turn]
      /\ p.ended => p.turn # 0 /\ p.listed \ {teller'[p.turn]} # {}
  BY <1>2 DEF Right, Grow
<1> QED
  BY <1>3, <1>4, <1>5, <1>6 DEF Right

\* A step of the game leaves requests and pages alone.
LEMMA GrowKeeps ==
  ASSUME IInv, TypeOK', Grow, InTurns', UNCHANGED requestVars
  PROVE  IInv'
<1>1. SeenBefore'
  BY Constants DEF IInv, TypeOK, SeenBefore, Grow, requestVars, seenVars
<1>2. PagesRight'
  <2> SUFFICES ASSUME NEW r \in Reader, page[r] # None PROVE Right(page[r])'
    BY DEF PagesRight, requestVars
  <2>1. page[r] \in Page /\ Right(page[r])
    BY DEF IInv, TypeOK, PagesRight
  <2>2. page' = page
    BY DEF requestVars
  <2> QED
    BY <2>1, <2>2, GrowKeepsRight DEF IInv, Right, Done
<1> QED
  BY <1>1, <1>2 DEF IInv

LEMMA GameKeeps ==
  ASSUME IInv,
         \/ NewTurn \/ PickWord
         \/ \E u \in Player : AddPlayer(u) \/ Reactivate(u) \/ Kick(u)
         \/ \E u \in Player, t \in 1..latest, text \in Word \cup {Chatter} :
              Guess(u, t, text) \/ Message(u, t, text)
  PROVE  IInv'
<1> USE DEF IInv
<1>1. CASE NewTurn
  <2>1. TypeOK'
    BY <1>1, Constants DEF NewTurn, Table!NewTurn, Table!Seated, TypeOK, requestVars, seenVars,
       Turn
  <2>2. Grow /\ InTurns'
    BY <1>1, Constants
       DEF NewTurn, Table!NewTurn, Table!Seated, TypeOK, Grow, InTurns, Line, Turn
  <2> QED
    BY <1>1, <2>1, <2>2, GrowKeeps DEF NewTurn, Table!NewTurn
<1>2. CASE PickWord
  <2>1. TypeOK'
    BY <1>2, Constants DEF PickWord, Table!PickWord, TypeOK, requestVars, seenVars, Turn
  <2>2. Grow /\ InTurns'
    BY <1>2, Constants DEF PickWord, Table!PickWord, TypeOK, Grow, InTurns, Turn
  <2> QED
    BY <1>2, <2>1, <2>2, GrowKeeps DEF PickWord, Table!PickWord
<1>3. ASSUME NEW u \in Player, AddPlayer(u) \/ Reactivate(u) \/ Kick(u) PROVE IInv'
  <2>1. UNCHANGED <<latest, teller, word, scored, lines, requestVars>>
    BY <1>3 DEF AddPlayer, Reactivate, Kick, Table!AddPlayer, Table!Reactivate, Table!Kick
  <2>0. rows \in [Player -> Nat] /\ activeRows \in [Player -> Nat]
    BY DEF TypeOK
  <2>2. rows' \in [Player -> Nat] /\ activeRows' \in [Player -> Nat]
    <3>1. CASE AddPlayer(u)
      BY <2>0, <3>1 DEF AddPlayer, Table!AddPlayer
    <3>2. CASE Reactivate(u)
      BY <2>0, <3>2 DEF Reactivate, Table!Reactivate
    <3>3. CASE Kick(u)
      BY <2>0, <3>3 DEF Kick, Table!Kick
    <3> QED
      BY <1>3, <3>1, <3>2, <3>3
  <2>3. TypeOK'
    BY <2>1, <2>2 DEF TypeOK, requestVars, seenVars
  <2>4. Grow /\ InTurns'
    BY <2>1, Constants DEF TypeOK, Grow, InTurns
  <2> QED
    BY <2>1, <2>3, <2>4, GrowKeeps
<1>4. ASSUME NEW u \in Player, NEW t \in 1..latest, NEW text \in Word \cup {Chatter},
             Guess(u, t, text) \/ Message(u, t, text)
      PROVE  IInv'
  <2>1. t \in Turn /\ t <= latest /\ u \in Player
    BY Constants DEF TypeOK, Turn
  <2> teller[t] \in Player
    BY DEF InTurns
  <2>2. /\ lines' = lines \cup {[turn |-> t, text |-> text]}
        /\ [turn |-> t, text |-> text] \in Line
    BY <1>4, <2>1 DEF Guess, Message, SendMessage, Line
  <2>3. /\ scored' = scored \/ scored' = [scored EXCEPT ![t] = @ \cup {u, teller[t]}]
        /\ UNCHANGED <<latest, teller, word, rows, activeRows, requestVars>>
    BY <1>4 DEF Guess, Message
  <2>6. scored' \in [Turn -> SUBSET Player] /\ \A s \in Turn : scored[s] \subseteq scored'[s]
    <3>1. scored \in [Turn -> SUBSET Player] /\ {u, teller[t]} \subseteq Player
      BY DEF TypeOK
    <3>2. CASE scored' = scored
      BY <3>1, <3>2
    <3>3. CASE scored' = [scored EXCEPT ![t] = @ \cup {u, teller[t]}]
      BY <2>1, <3>1, <3>3
    <3> QED
      BY <2>3, <3>2, <3>3
  <2>4. TypeOK'
    BY <2>1, <2>2, <2>3, <2>6 DEF TypeOK, requestVars, seenVars
  <2>5. Grow /\ InTurns'
    BY <2>1, <2>2, <2>3, <2>6, Constants DEF TypeOK, Grow, InTurns
  <2> QED
    BY <2>3, <2>4, <2>5, GrowKeeps
<1> QED
  BY <1>1, <1>2, <1>3, <1>4

-----------------------------------------------------------------------------
(* The queries of a page *)

\* A query changes what its request has seen, nothing that is shown.
LEMMA ReadKeeps ==
  ASSUME IInv, NEW r \in Reader, TypeOK', SeenBefore',
         UNCHANGED tableVars, \A q \in Reader : page'[q] \in {page[q], None}
  PROVE  IInv'
<1>1. InTurns'
  BY DEF IInv, InTurns, tableVars
<1>2. PagesRight'
  <2> SUFFICES ASSUME NEW q \in Reader, NEW p, p = page'[q], p # None PROVE Right(p)'
    BY DEF PagesRight, Right, Done
  <2>1. Right(p)
    BY DEF IInv, PagesRight
  <2> QED
    BY <2>1 DEF Right, Done, tableVars
<1> QED
  BY <1>1, <1>2 DEF IInv

LEMMA QueriesKeep ==
  ASSUME IInv, NEW r \in Reader,
         \/ ReadPlayers(r) \/ ReadLines(r) \/ ReadScores(r) \/ ReadTurn(r)
         \/ \E u \in Player, k \in {"game", "board", "word"} : Request(r, u, k)
  PROVE  IInv'
<1> USE DEF IInv
<1>1. ASSUME NEW u \in Player, NEW k \in {"game", "board", "word"}, Request(r, u, k)
      PROVE  IInv'
  <2>1. TypeOK'
    BY <1>1 DEF TypeOK, Request, Goto, First, tableVars, seenVars
  <2>2. SeenBefore'
    BY <1>1 DEF TypeOK, SeenBefore, Request, Goto, First, tableVars, seenVars
  <2>3. \A q \in Reader : page'[q] \in {page[q], None}
    BY <1>1 DEF TypeOK, Request
  <2> QED
    BY <1>1, <2>1, <2>2, <2>3, ReadKeeps DEF Request
<1>2. CASE ReadPlayers(r)
  <2>1. TypeOK'
    <3>1. Table!Active \subseteq Player
      BY DEF Table!Active
    <3> HIDE DEF Table!Active
    <3> QED
      BY <1>2, <3>1 DEF TypeOK, ReadPlayers, Goto, tableVars
  <2>2. SeenBefore'
    BY <1>2 DEF TypeOK, SeenBefore, ReadPlayers, Goto, tableVars
  <2> QED
    BY <1>2, <2>1, <2>2, ReadKeeps DEF ReadPlayers
<1>3. CASE ReadLines(r)
  <2>1. TypeOK'
    BY <1>3 DEF TypeOK, ReadLines, Goto, tableVars
  <2>2. SeenBefore'
    BY <1>3 DEF TypeOK, SeenBefore, ReadLines, Goto, tableVars
  <2> QED
    BY <1>3, <2>1, <2>2, ReadKeeps DEF ReadLines
<1>4. CASE ReadScores(r)
  <2>1. TypeOK'
    BY <1>4 DEF TypeOK, ReadScores, Goto, tableVars
  <2>2. SeenBefore'
    BY <1>4 DEF TypeOK, SeenBefore, ReadScores, Goto, tableVars
  <2> QED
    BY <1>4, <2>1, <2>2, ReadKeeps DEF ReadScores
<1>5. CASE ReadTurn(r)
  <2>1. TypeOK'
    BY <1>5, Constants DEF TypeOK, ReadTurn, Goto, LatestTurn, tableVars
  <2>2. SeenBefore'
    BY <1>5, Constants DEF TypeOK, SeenBefore, ReadTurn, Goto, LatestTurn, LatestWord,
       tableVars
  <2> QED
    BY <1>5, <2>1, <2>2, ReadKeeps DEF ReadTurn
<1> QED
  BY <1>1, <1>2, <1>3, <1>4, <1>5

\* A page that is right when it is shown keeps all pages right.
LEMMA ShowKeeps ==
  ASSUME IInv, NEW r \in Reader, NEW p \in Page, Right(p), Show(r, p),
         pc' = [pc EXCEPT ![r] = "idle"]
  PROVE  IInv'
<1> USE DEF IInv
<1>1. TypeOK'
  BY Constants DEF TypeOK, Show, Forget, NoScores, tableVars
<1>2. SeenBefore'
  BY Constants DEF TypeOK, SeenBefore, Show, Forget, NoScores, tableVars
<1>3. InTurns'
  BY DEF InTurns, Show, tableVars
<1>4. PagesRight'
  <2> SUFFICES ASSUME NEW q \in Reader, NEW s, s = page'[q], s # None PROVE Right(s)'
    BY DEF PagesRight, Right, Done
  <2>1. s = p \/ s = page[q]
    BY DEF TypeOK, Show
  <2>2. Right(s)
    BY <2>1 DEF PagesRight
  <2> QED
    BY <2>2 DEF Right, Done, Show, tableVars
<1> QED
  BY <1>1, <1>2, <1>3, <1>4

\* Whom a page marks as done is done: the scores it has read are among those there are.
LEMMA SolvedDone ==
  ASSUME IInv, NEW r \in Reader, NEW t \in 0..latest,
         NEW scores \in [Turn -> SUBSET Player], \A s \in Turn : scores[s] \subseteq scored[s]
  PROVE  /\ Solved(r, scores, t) \subseteq Done(t)
         /\ Solved(r, scores, t) \subseteq Player
         /\ \A u : HasRow(scores, t, u) => u \in Done(t)
         /\ AllGuessed(r, scores, t) =>
              seenActive[r] \subseteq Done(t) /\ seenActive[r] \ {TellerOf(t)} # {}
<1> USE DEF IInv
<1>1. t \in Turn <=> t # 0
  BY Constants DEF TypeOK, Turn
<1>2. seenActive[r] \subseteq Player /\ None \notin Player
  BY ViewAssumption DEF TypeOK
<1>3. \A u : HasRow(scores, t, u) => u \in Done(t)
  BY <1>1 DEF HasRow, Done
<1>4. \A u \in Player : u = TellerOf(t) => u \in Done(t)
  BY <1>1, <1>2 DEF TellerOf, Done
<1>5. Solved(r, scores, t) \subseteq Done(t) \cap Player
  BY <1>2, <1>3, <1>4 DEF Solved
<1> QED
  BY <1>3, <1>5 DEF AllGuessed

LEMMA LatestInTurns == IInv => LatestTurn \in 0..latest
BY Constants DEF IInv, TypeOK, LatestTurn

LEMMA SeenScoresKnown ==
  ASSUME IInv, NEW r \in Reader
  PROVE  /\ seenScored[r] \in [Turn -> SUBSET Player]
         /\ \A s \in Turn : seenScored[r][s] \subseteq scored[s]
BY DEF IInv, TypeOK, SeenBefore

LEMMA ShowBoardKeeps ==
  ASSUME IInv, NEW r \in Reader, ShowBoard(r)
  PROVE  IInv'
<1> DEFINE p == Board(r, seenScored[r], LatestTurn)
<1>1. /\ Solved(r, seenScored[r], LatestTurn) \subseteq Done(LatestTurn)
      /\ Solved(r, seenScored[r], LatestTurn) \subseteq Player
  BY LatestInTurns, SeenScoresKnown, SolvedDone
<1>2. OffersWords(r, LatestTurn) \in BOOLEAN
  BY DEF OffersWords
<1>3. p \in Page
  BY <1>1, <1>2, Constants, LatestInTurns DEF IInv, TypeOK, Board, Page
<1>4. /\ p.turn = LatestTurn /\ p.open = FALSE /\ p.ended = FALSE /\ p.raw = {}
      /\ p.reader = reader[r] /\ p.options = OffersWords(r, LatestTurn)
      /\ p.solved = Solved(r, seenScored[r], LatestTurn)
  BY DEF Board
<1>5. OffersWords(r, LatestTurn) => LatestTurn # 0 /\ reader[r] = teller[LatestTurn]
  BY DEF OffersWords, Turn
<1> HIDE DEF p
<1>6. Right(p)
  BY <1>1, <1>4, <1>5, LatestInTurns, Constants DEF IInv, TypeOK, Right
<1> QED
  BY <1>3, <1>6, ShowKeeps DEF ShowBoard, Goto, p

LEMMA ShowGameKeeps ==
  ASSUME IInv, NEW r \in Reader, ShowGame(r)
  PROVE  IInv'
<1> DEFINE p == Game(r, seenScored[r], LatestTurn, LatestWord)
<1>1. LatestTurn = latest /\ latest \in Turn /\ LatestWord = word[latest] /\ LatestWord # None
  BY Constants DEF ShowGame, IInv, TypeOK, LatestTurn, LatestWord, Turn
<1>2. /\ Solved(r, seenScored[r], latest) \subseteq Done(latest)
      /\ Solved(r, seenScored[r], latest) \subseteq Player
      /\ AllGuessed(r, seenScored[r], latest) =>
           seenActive[r] \subseteq Done(latest) /\ seenActive[r] \ {TellerOf(latest)} # {}
  BY <1>1, LatestInTurns, SeenScoresKnown, SolvedDone
<1>3. AllGuessed(r, seenScored[r], latest) \in BOOLEAN
  BY DEF AllGuessed
<1>4. p \in Page
  BY <1>1, <1>2, <1>3, Constants DEF IInv, TypeOK, Game, Page, Unmasked, Turn
<1>5. \A m \in Unmasked(r, word[latest]) : m.turn <= latest /\ m.text # word[latest]
  BY DEF IInv, SeenBefore, InTurns, Unmasked
<1>6. /\ p.turn = latest /\ p.options = FALSE /\ p.reader = reader[r]
      /\ p.open = (\/ reader[r] = teller[latest]
                   \/ reader[r] \in Solved(r, seenScored[r], latest))
      /\ p.raw = Unmasked(r, word[latest]) /\ p.listed = seenActive[r]
      /\ p.solved = Solved(r, seenScored[r], latest)
      /\ p.ended = AllGuessed(r, seenScored[r], latest)
  BY <1>1 DEF Game
<1>7. latest # 0 /\ TellerOf(latest) = teller[latest] /\ teller[latest] \in Done(latest)
  BY <1>1 DEF TellerOf, Turn, Done
<1> HIDE DEF p
<1>8. Right(p)
  <2>1. p.turn <= latest
    BY <1>1, <1>6, Constants DEF Turn
  <2>2. (p.open => p.reader \in Done(p.turn)) /\ p.solved \subseteq Done(p.turn)
    BY <1>2, <1>6, <1>7
  <2>3. p.ended => /\ p.turn # 0
                   /\ p.listed \subseteq Done(p.turn)
                   /\ p.listed \ {teller[p.turn]} # {}
    BY <1>2, <1>6, <1>7
  <2>4. \A m \in p.raw :
          /\ m.turn <= p.turn
          /\ word[p.turn] # None
          /\ m.turn = p.turn => m.text # word[p.turn]
    BY <1>1, <1>5, <1>6
  <2> QED
    BY <1>6, <2>1, <2>2, <2>3, <2>4 DEF Right
<1> QED
  BY <1>1, <1>4, <1>8, ShowKeeps DEF ShowGame, Goto, p

LEMMA ShowWordKeeps ==
  ASSUME IInv, NEW r \in Reader, ShowWord(r)
  PROVE  IInv'
<1> DEFINE t == seenTurn[r]
           p == WordOnly(r, scored, t)
<1>1. t \in 1..latest /\ t \in Turn
  BY Constants DEF ShowWord, Goto, IInv, TypeOK, SeenBefore, Turn
<1>2. HasRow(scored, t, reader[r]) => reader[r] \in Done(t)
  BY <1>1 DEF HasRow, Done
<1>3. p \in Page
  BY <1>1, Constants DEF IInv, TypeOK, WordOnly, Page, HasRow, Turn
<1>4. /\ p.turn = t /\ p.options = FALSE /\ p.ended = FALSE /\ p.raw = {} /\ p.solved = {}
      /\ p.reader = reader[r]
      /\ p.open = (reader[r] = teller[t] \/ HasRow(scored, t, reader[r]))
  BY DEF WordOnly
<1>5. t <= latest /\ teller[t] \in Done(t)
  BY <1>1, Constants DEF IInv, TypeOK, Done
<1> HIDE DEF p
<1>6. Right(p)
  BY <1>2, <1>4, <1>5 DEF Right
<1> QED
  BY <1>3, <1>6, ShowKeeps DEF ShowWord, Goto, p

-----------------------------------------------------------------------------
LEMMA NextKeeps == IInv /\ [Next]_vars => IInv'
<1> SUFFICES ASSUME IInv, [Next]_vars PROVE IInv'
  OBVIOUS
<1>1. CASE \/ NewTurn \/ PickWord
           \/ \E u \in Player : AddPlayer(u) \/ Reactivate(u) \/ Kick(u)
           \/ \E u \in Player, t \in 1..latest, text \in Word \cup {Chatter} :
                Guess(u, t, text) \/ Message(u, t, text)
  BY <1>1, GameKeeps
<1>2. ASSUME NEW r \in Reader, PageStep(r) PROVE IInv'
  BY <1>2, QueriesKeep, ShowWordKeeps, ShowBoardKeeps, ShowGameKeeps DEF PageStep
<1>3. CASE UNCHANGED vars
  BY <1>3 DEF IInv, TypeOK, SeenBefore, InTurns, PagesRight, Right, Done, vars, tableVars,
              requestVars, seenVars
<1> QED
  BY <1>1, <1>2, <1>3 DEF Next

LEMMA IInvAlways == Spec => []IInv
<1>1. Init => IInv
  BY InitIInv
<1>2. IInv /\ [Next]_vars => IInv'
  BY NextKeeps
<1> QED
  BY <1>1, <1>2, PTL DEF Spec

\* For any number of readers and whatever happens between their queries: the word is shown
\* to those who have solved it and to the teller, the words to pick from to the teller
\* (emojix.go:205-216, :250-256, :976-999).
THEOREM WordIsForSolvers == Spec => []WordOnlyForSolvers
<1>1. IInv => WordOnlyForSolvers
  <2> SUFFICES ASSUME IInv, NEW r \in Reader, page[r] # None
               PROVE  /\ page[r].open =>
                           page[r].reader \in scored[page[r].turn] \cup {teller[page[r].turn]}
                      /\ page[r].options => page[r].reader = teller[page[r].turn]
    BY DEF WordOnlyForSolvers
  <2>1. Right(page[r])
    BY DEF IInv, PagesRight
  <2> QED
    BY <2>1 DEF Right, Done
<1> QED
  BY <1>1, IInvAlways, PTL

\* The history never shows the answer of the turn being played, as long as it is played
\* (emojix.go:183-193, :263-276).
THEOREM HistoryHides == Spec => []HistoryHidesCurrentWord
<1>1. IInv => HistoryHidesCurrentWord
  <2> SUFFICES ASSUME IInv, NEW r \in Reader, page[r] # None, NEW m \in page[r].raw,
                      m.text = word[m.turn]
               PROVE  m.turn < latest
    BY DEF HistoryHidesCurrentWord
  <2>1. Right(page[r]) /\ page[r] \in Page
    BY DEF IInv, PagesRight, TypeOK
  <2>2. m.turn \in 1..MaxTurns /\ page[r].turn \in 0..MaxTurns /\ latest \in 0..MaxTurns
    BY <2>1 DEF Page, Line, Turn, IInv, TypeOK
  <2>3. m.turn <= page[r].turn /\ page[r].turn <= latest /\ m.turn # page[r].turn
    BY <2>1 DEF Right
  <2> QED
    BY <2>2, <2>3, Constants
<1> QED
  BY <1>1, IInvAlways, PTL

\* Who is marked as done is done, and a turn that is said to be over is
\* (emojix.go:229-247, :846-882).
THEOREM EndedIsSolved == Spec => []EndedOnlyWhenSolved
<1>1. IInv => EndedOnlyWhenSolved
  BY DEF IInv, PagesRight, Right, Done, EndedOnlyWhenSolved
<1> QED
  BY <1>1, IInvAlways, PTL

\* Every variable keeps its type, for any number of players, words, turns and readers.
THEOREM TypeCorrect == Spec => []TypeOK
<1>1. IInv => TypeOK
  BY DEF IInv
<1> QED
  BY <1>1, IInvAlways, PTL
=============================================================================
