--------------------------- MODULE ScoringProofs ---------------------------
(***************************************************************************)
(* What holds of guesses, messages and points for any number of players,   *)
(* requests and turns.                                                     *)
(***************************************************************************)
EXTENDS Scoring, FiniteSetTheorems, TLAPS

\* A turn that does not exist yet has no teller and no score; a request that has
\* read a turn holds one whose word is picked, and a guesser is not its teller.
TurnInv ==
  /\ Picked \subseteq 1..latest
  /\ \A t \in Turn : t <= latest => teller[t] \in Player
  /\ \A t \in Turn : t > latest =>
       teller[t] = None /\ \A u \in Player : guessRows[t][u] = 0 /\ points[t][u] = 0
RequestInv ==
  /\ \A g \in Guess : guessPc[g] = "tx" =>
       /\ guessTurn[g] \in Picked
       /\ guessUser[g] # teller[guessTurn[g]]
  /\ \A m \in Message : msgPc[m] # "idle" => msgTurn[m] \in Picked
ScoreInv == TypeOK /\ TurnInv /\ RequestInv

\* There are finitely many active rows to count.
LEMMA GuessersCounted ==
  ASSUME TypeOK, NEW t \in Turn
  PROVE  /\ IsFiniteSet(Table!ActiveRows) /\ CountGuessers(t) \in Nat
<1> DEFINE rowsOf(u) == {u} \X (1..activeRows[u])
           all == {rowsOf(u) : u \in Player}
<1>1. ASSUME NEW u \in Player PROVE IsFiniteSet(rowsOf(u))
  <2>1. activeRows[u] \in Nat
    BY DEF TypeOK
  <2>2. IsFiniteSet(1..activeRows[u])
    BY <2>1, FS_Interval
  <2>3. IsFiniteSet({u})
    BY FS_Singleton
  <2> QED
    BY <2>2, <2>3, FS_Product
<1>2. IsFiniteSet(all)
  <2>1. IsFiniteSet(Player)
    BY ScoringAssumption
  <2> HIDE DEF rowsOf
  <2> DEFINE f == [u \in Player |-> rowsOf(u)]
  <2>2. f \in Surjection(Player, all)
    BY DEF Surjection
  <2> QED
    BY <2>1, <2>2, FS_Surjection
<1>3. Table!ActiveRows = UNION all
  BY DEF Table!ActiveRows
<1>4. \A T \in all : IsFiniteSet(T)
  BY <1>1
<1> HIDE DEF all
<1>5. IsFiniteSet(Table!ActiveRows)
  BY <1>2, <1>3, <1>4, FS_UNION
<1>6. {row \in Table!ActiveRows : row[1] # teller[t]} \subseteq Table!ActiveRows
  OBVIOUS
<1> QED
  BY <1>5, <1>6, FS_Subset, FS_CardinalityType DEF CountGuessers

\* What a paid guess does, cell by cell.
LEMMA GuessScoreFacts ==
  ASSUME ScoreInv, NEW g \in Guess, GuessScore(g)
  PROVE  \E u \in Player, t \in Turn :
           /\ u = guessUser[g] /\ t = guessTurn[g]
           /\ t \in Picked /\ t <= latest
           /\ teller[t] \in Player /\ u # teller[t]
           /\ guessRows[t][u] = 0
           /\ guessRows' \in [Turn -> [Player -> Nat]]
           /\ points' \in [Turn -> [Player -> Int]]
           /\ \A s \in Turn, v \in Player :
                guessRows'[s][v] = IF s = t /\ v = u THEN 1 ELSE guessRows[s][v]
           /\ \A s \in Turn, v \in Player : ~(s = t /\ v \in {u, teller[t]}) =>
                points'[s][v] = points[s][v]
           /\ points'[t][teller[t]] = points[t][teller[t]] + 5
           /\ points'[t][u] >= points[t][u] + 10
           /\ guessPc' = [guessPc EXCEPT ![g] =
                            IF Cardinality(Solved(t)) + 1 = CountGuessers(t) THEN "end"
                            ELSE "idle"]
<1> DEFINE u == guessUser[g]
           t == guessTurn[g]
           total == Cardinality(Solved(t)) + 1
           gain == GuessPoints(t, total)
<1>1. u \in Player /\ t \in Turn /\ t \in Picked /\ u # teller[t]
  BY DEF ScoreInv, TypeOK, RequestInv, GuessScore
<1>2. t <= latest /\ teller[t] \in Player
  BY <1>1 DEF ScoreInv, TypeOK, TurnInv, Turn
<1>3. total \in Nat \ {0}
  <2>1. Solved(t) \subseteq Player
    BY DEF Solved
  <2>2. IsFiniteSet(Solved(t))
    BY <2>1, ScoringAssumption, FS_Subset
  <2> QED
    BY <2>2, FS_CardinalityType
<1>4. CountGuessers(t) \in Nat
  BY <1>1, GuessersCounted DEF ScoreInv
<1>5. gain \in Nat /\ gain >= 10
  <2> DEFINE share == AtLeastOne(CountGuessers(t)) \div total
  <2>1. AtLeastOne(CountGuessers(t)) \in Nat
    BY <1>4 DEF AtLeastOne
  <2>2. share \in Nat
    BY <1>3, <2>1
  <2>3. AtLeastOne(share) \in Nat /\ AtLeastOne(share) >= 1
    BY <2>2 DEF AtLeastOne
  <2>4. gain = 10 * AtLeastOne(share)
    BY DEF GuessPoints
  <2> HIDE DEF share
  <2> QED
    BY <2>3, <2>4
<1> HIDE DEF gain
<1>6. /\ guessRows[t][u] = 0
      /\ guessRows' = [guessRows EXCEPT ![t][u] = @ + 1]
      /\ points' = [points EXCEPT ![t] =
                       [v \in Player |-> points[t][v] + (IF v = u THEN gain
                                                         ELSE IF v = teller[t] THEN 5 ELSE 0)]]
  BY <1>1 DEF GuessScore, AlreadyScored, gain, ScoreInv, TypeOK
<1>7. /\ guessRows \in [Turn -> [Player -> Nat]]
      /\ points \in [Turn -> [Player -> Int]]
  BY DEF ScoreInv, TypeOK
<1>8. /\ guessRows' \in [Turn -> [Player -> Nat]]
      /\ \A s \in Turn, v \in Player :
           guessRows'[s][v] = IF s = t /\ v = u THEN 1 ELSE guessRows[s][v]
  BY <1>1, <1>6, <1>7
<1>9. /\ points' \in [Turn -> [Player -> Int]]
      /\ \A s \in Turn, v \in Player : ~(s = t /\ v \in {u, teller[t]}) =>
           points'[s][v] = points[s][v]
      /\ points'[t][teller[t]] = points[t][teller[t]] + 5
      /\ points'[t][u] = points[t][u] + gain
  <2> DEFINE row == [v \in Player |-> points[t][v] + (IF v = u THEN gain
                                                     ELSE IF v = teller[t] THEN 5 ELSE 0)]
  <2>1. /\ row \in [Player -> Int]
        /\ row[u] = points[t][u] + gain
        /\ row[teller[t]] = points[t][teller[t]] + 5
        /\ \A v \in Player \ {u, teller[t]} : row[v] = points[t][v]
    BY <1>1, <1>2, <1>5, <1>7
  <2>2. points' = [points EXCEPT ![t] = row]
    BY <1>6
  <2> HIDE DEF row
  <2> QED
    BY <1>1, <1>2, <1>7, <2>1, <2>2
<1>10. guessPc' = [guessPc EXCEPT ![g] =
                     IF Cardinality(Solved(t)) + 1 = CountGuessers(t) THEN "end" ELSE "idle"]
  BY DEF GuessScore, GuessLeavesTx
<1>11. points'[t][u] >= points[t][u] + 10
  BY <1>1, <1>5, <1>7, <1>9
<1>12. u = guessUser[g] /\ t = guessTurn[g]
  OBVIOUS
<1> HIDE DEF u, t
<1> USE <1>1
<1> WITNESS u \in Player, t \in Turn
<1> QED
  BY <1>1, <1>2, <1>6, <1>8, <1>9, <1>10, <1>11, <1>12

LEMMA ScoreInit == Init => ScoreInv
<1> SUFFICES ASSUME Init PROVE ScoreInv
  OBVIOUS
<1>1. MaxTurns \in Nat \ {0}
  BY ScoringAssumption
<1>2. TypeOK
  <2>1. /\ rows \in [Player -> Nat] /\ activeRows = rows
        /\ \A u \in Player : rows[u] <= 1
    BY DEF Init, Table!Init
  <2>2. \A u \in Player : activeRows[u] <= rows[u] /\ rows[u] <= MaxRows[u]
    BY <2>1, ScoringAssumption
  <2> QED
    BY <1>1, <2>1, <2>2 DEF Init, Table!Init, Table!Turn, TypeOK, Turn
<1>3. TurnInv /\ RequestInv
  BY <1>1 DEF Init, Table!Init, Table!Turn, TurnInv, RequestInv, Turn, Picked
<1> QED
  BY <1>2, <1>3 DEF ScoreInv

\* Only PickWord, the update of game_turns, adds to the turns with a word.
LEMMA SameWordSamePicked ==
  ASSUME UNCHANGED word
  PROVE  UNCHANGED Picked
  BY DEF Picked

LEMMA RoomKeepsScoreInv ==
  ASSUME ScoreInv, RoomStep
  PROVE  ScoreInv'
<1>0. MaxTurns \in Nat \ {0} /\ None \notin Player \cup Word
  BY ScoringAssumption
<1>1. CASE NewTurn
  <2>1. /\ latest + 1 \in Turn /\ latest \in Nat /\ latest' = latest + 1
        /\ UNCHANGED <<word, Picked, rows, activeRows, scoreVars, guessVars, msgVars>>
    BY <1>0, <1>1, SameWordSamePicked
    DEF ScoreInv, TypeOK, NewTurn, Table!NewTurn, Turn
  <2>2. PICK u \in Player : teller' = [teller EXCEPT ![latest + 1] = u]
    BY <1>1 DEF NewTurn, Table!NewTurn, Table!Seated
  <2>3. TypeOK'
    BY <2>1, <2>2 DEF ScoreInv, TypeOK, Turn, scoreVars, guessVars, msgVars
  <2>4. TurnInv'
    BY <2>1, <2>2 DEF ScoreInv, TypeOK, TurnInv, Turn, scoreVars
  <2>5. RequestInv'
    BY <2>1, <2>2 DEF ScoreInv, TypeOK, TurnInv, RequestInv, Turn, guessVars, msgVars
  <2> QED
    BY <2>3, <2>4, <2>5 DEF ScoreInv
<1>2. CASE PickWord
  <2>1. /\ PickWord
        /\ UNCHANGED <<latest, teller, rows, activeRows, scoreVars, guessVars, msgVars>>
    BY <1>2 DEF PickWord, Table!PickWord
  <2>0. latest \in 0..MaxTurns
    BY DEF ScoreInv, TypeOK
  <2>2. PICK t \in 1..latest, w \in Word : word' = [word EXCEPT ![t] = w]
    BY <1>2 DEF PickWord, Table!PickWord
  <2> t \in Turn /\ t <= latest
    BY <1>0, <2>0 DEF Turn
  <2>3. word' \in [Turn -> Word \cup {None}]
    BY <2>2 DEF ScoreInv, TypeOK
  <2>4. Picked' = Picked \cup {t}
    BY <1>0, <2>2 DEF ScoreInv, TypeOK, Picked
  <2>5. TypeOK'
    BY <2>1, <2>3 DEF ScoreInv, TypeOK, scoreVars, guessVars, msgVars
  <2>6. TurnInv' /\ RequestInv'
    BY <1>0, <2>0, <2>1, <2>2, <2>4 DEF ScoreInv, Turn, TurnInv, RequestInv, scoreVars,
       guessVars, msgVars
  <2> QED
    BY <2>5, <2>6 DEF ScoreInv
<1>3. ASSUME NEW u \in Player, AddPlayer(u) \/ Reactivate(u) \/ Kick(u) PROVE ScoreInv'
  <2>1. UNCHANGED <<latest, teller, word, Picked, scoreVars, guessVars, msgVars>>
    BY <1>3, SameWordSamePicked
    DEF AddPlayer, Reactivate, Kick, Table!AddPlayer, Table!Reactivate, Table!Kick
  <2>0. /\ rows \in [Player -> Nat] /\ activeRows \in [Player -> Nat]
        /\ \A v \in Player : activeRows[v] <= rows[v] /\ rows[v] <= MaxRows[v]
        /\ \A v \in Player : MaxRows[v] \in Nat
    BY ScoringAssumption DEF ScoreInv, TypeOK
  <2>2. /\ rows' \in [Player -> Nat] /\ activeRows' \in [Player -> Nat]
        /\ \A v \in Player : activeRows'[v] <= rows'[v] /\ rows'[v] <= MaxRows[v]
    <3>1. CASE AddPlayer(u)
      <4>1. /\ rows' = [rows EXCEPT ![u] = @ + 1]
            /\ activeRows' = [activeRows EXCEPT ![u] = @ + 1]
            /\ rows[u] < MaxRows[u]
        BY <3>1 DEF AddPlayer, Table!AddPlayer
      <4>2. rows' \in [Player -> Nat] /\ activeRows' \in [Player -> Nat]
        BY <2>0, <4>1
      <4>3. ASSUME NEW v \in Player PROVE activeRows'[v] <= rows'[v] /\ rows'[v] <= MaxRows[v]
        <5>1. CASE v = u
          BY <2>0, <4>1, <5>1
        <5>2. CASE v # u
          BY <2>0, <4>1, <5>2
        <5> QED
          BY <5>1, <5>2
      <4> QED
        BY <4>2, <4>3
    <3>2. CASE Reactivate(u)
      BY <2>0, <3>2 DEF Reactivate, Table!Reactivate
    <3>3. CASE Kick(u)
      BY <2>0, <3>3 DEF Kick, Table!Kick
    <3> QED
      BY <1>3, <3>1, <3>2, <3>3
  <2>3. TypeOK'
    BY <2>1, <2>2 DEF ScoreInv, TypeOK, scoreVars, guessVars, msgVars
  <2>4. TurnInv' /\ RequestInv'
    BY <2>1, <2>2 DEF ScoreInv, TurnInv, RequestInv, scoreVars, guessVars, msgVars
  <2> QED
    BY <2>3, <2>4 DEF ScoreInv
<1> QED
  BY <1>1, <1>2, <1>3 DEF RoomStep

LEMMA GuessKeepsScoreInv ==
  ASSUME ScoreInv, NEW g \in Guess, GuessStep(g)
  PROVE  ScoreInv'
<1>0. MaxTurns \in Nat \ {0}
  BY ScoringAssumption
<1>1. ASSUME NEW u \in Player, GuessRead(g, u) PROVE ScoreInv'
  <2>1. latest \in Turn
    BY <1>1 DEF GuessRead, Picked
  <2>2. TypeOK'
    BY <1>0, <1>1, <2>1 DEF ScoreInv, TypeOK, GuessRead, Turn, roomVars, scoreVars, msgVars
  <2>3. TurnInv' /\ RequestInv'
    BY <1>1, <2>1, SameWordSamePicked DEF ScoreInv, TypeOK, TurnInv, RequestInv, GuessRead,
       roomVars, scoreVars,
       msgVars
  <2> QED
    BY <2>2, <2>3 DEF ScoreInv
<1>2. CASE GuessScore(g)
  <2>1. PICK u \in Player, t \in Turn :
          /\ t \in Picked /\ t <= latest
          /\ guessRows' \in [Turn -> [Player -> Nat]]
          /\ points' \in [Turn -> [Player -> Int]]
          /\ \A s \in Turn, v \in Player : s # t =>
               guessRows'[s][v] = guessRows[s][v] /\ points'[s][v] = points[s][v]
    BY <1>2, GuessScoreFacts
  <2>2. \E pc \in {"idle", "end"} : GuessLeavesTx(g, pc)
    BY <1>2 DEF GuessScore
  <2>3. UNCHANGED <<roomVars, Picked, msgVars>>
    BY <1>2, SameWordSamePicked DEF GuessScore, roomVars
  <2>4. TypeOK'
    BY <1>0, <2>1, <2>2, <2>3 DEF ScoreInv, TypeOK, GuessLeavesTx, roomVars, msgVars
  <2>5. TurnInv'
    <3>1. \A s \in Turn : s > latest => s # t
      BY <2>1 DEF ScoreInv, TypeOK, Turn
    <3>2. Picked' \subseteq 1..latest' /\ \A s \in Turn : s <= latest' => teller'[s] \in Player
      BY <2>3 DEF ScoreInv, TurnInv, roomVars
    <3>3. UNCHANGED <<latest, teller>>
      BY <2>3 DEF roomVars
    <3>4. ASSUME NEW s \in Turn, s > latest
          PROVE  /\ teller[s] = None
                 /\ \A v \in Player : guessRows'[s][v] = 0 /\ points'[s][v] = 0
      <4>1. teller[s] = None /\ \A v \in Player : guessRows[s][v] = 0 /\ points[s][v] = 0
        BY <3>4 DEF ScoreInv, TurnInv
      <4>2. \A v \in Player :
              guessRows'[s][v] = guessRows[s][v] /\ points'[s][v] = points[s][v]
        BY <2>1, <3>1, <3>4
      <4> QED
        BY <4>1, <4>2
    <3> QED
      BY <3>2, <3>3, <3>4 DEF TurnInv
  <2>6. RequestInv'
    BY <2>2, <2>3 DEF ScoreInv, TypeOK, RequestInv, GuessLeavesTx, roomVars, msgVars
  <2> QED
    BY <2>4, <2>5, <2>6 DEF ScoreInv
<1>3. CASE GuessNoScore(g) \/ GuessEnd(g)
  <2>0. /\ UNCHANGED <<roomVars, scoreVars, msgVars>>
        /\ guessPc' = [guessPc EXCEPT ![g] = "idle"]
        /\ \/ UNCHANGED <<guessUser, guessTurn>>
           \/ /\ guessUser' = [guessUser EXCEPT ![g] = None]
              /\ guessTurn' = [guessTurn EXCEPT ![g] = 0]
    BY <1>3 DEF GuessNoScore, GuessEnd, GuessLeavesTx
  <2>1. TypeOK'
    <3>1. CASE UNCHANGED <<guessUser, guessTurn>>
      BY <1>0, <2>0, <3>1 DEF ScoreInv, TypeOK, roomVars, scoreVars, msgVars
    <3>2. CASE /\ guessUser' = [guessUser EXCEPT ![g] = None]
               /\ guessTurn' = [guessTurn EXCEPT ![g] = 0]
      BY <1>0, <2>0, <3>2 DEF ScoreInv, TypeOK, roomVars, scoreVars, msgVars
    <3> QED
      BY <2>0, <3>1, <3>2
  <2>2. TurnInv'
    BY <2>0, SameWordSamePicked DEF ScoreInv, TurnInv, roomVars, scoreVars
  <2>3. RequestInv'
    BY <2>0, SameWordSamePicked DEF ScoreInv, TypeOK, RequestInv, roomVars, msgVars
  <2> QED
    BY <2>1, <2>2, <2>3 DEF ScoreInv
<1> QED
  BY <1>1, <1>2, <1>3 DEF GuessStep

\* What a penalty does, cell by cell.
LEMMA MsgPenalizeFacts ==
  ASSUME ScoreInv, NEW m \in Message, MsgPenalize(m)
  PROVE  \E t \in Turn :
           /\ t = msgTurn[m] /\ t \in Picked /\ t <= latest /\ teller[t] \in Player
           /\ points' \in [Turn -> [Player -> Int]]
           /\ \A s \in Turn, v \in Player : ~(s = t /\ v = teller[t]) =>
                points'[s][v] = points[s][v]
           /\ points'[t][teller[t]] = points[t][teller[t]] - msgPenalty[m]
<1> DEFINE t == msgTurn[m]
<1>1. t \in Turn /\ t \in Picked
  BY DEF ScoreInv, TypeOK, RequestInv, MsgPenalize, MsgGoto
<1>2. t <= latest /\ teller[t] \in Player
  BY <1>1 DEF ScoreInv, TypeOK, TurnInv, Turn
<1>3. msgPenalty[m] \in Nat /\ points \in [Turn -> [Player -> Int]]
  BY DEF ScoreInv, TypeOK
<1>4. points' = [points EXCEPT ![t][teller[t]] = @ - msgPenalty[m]]
  BY DEF MsgPenalize
<1>5. t = msgTurn[m]
  OBVIOUS
<1> HIDE DEF t
<1> USE <1>1
<1> WITNESS t \in Turn
<1> QED
  BY <1>2, <1>3, <1>4, <1>5

LEMMA MsgKeepsScoreInv ==
  ASSUME ScoreInv, NEW m \in Message, MsgStep(m)
  PROVE  ScoreInv'
<1>0. MaxTurns \in Nat \ {0}
  BY ScoringAssumption
<1>1. CASE MsgRead(m)
  <2>0. UNCHANGED <<roomVars, Picked>>
    BY <1>1, SameWordSamePicked DEF MsgRead, roomVars
  <2>1. TypeOK'
    BY <1>0, <1>1 DEF ScoreInv, TypeOK, MsgRead, MsgGoto, Turn, Picked, roomVars, scoreVars,
       guessVars
  <2>2. TurnInv'
    BY <1>1, <2>0 DEF ScoreInv, TurnInv, MsgRead, roomVars, scoreVars
  <2>3. RequestInv'
    BY <1>1, <2>0 DEF ScoreInv, TypeOK, RequestInv, MsgRead, MsgGoto, roomVars, guessVars
  <2> QED
    BY <2>1, <2>2, <2>3 DEF ScoreInv
<1>2. CASE MsgScores(m)
  <2> DEFINE t == msgTurn[m]
             penalty == Penalty(points[t][teller[t]])
  <2>1. t \in Turn /\ t \in Picked
    BY <1>2 DEF ScoreInv, TypeOK, RequestInv, MsgScores, MsgGoto
  <2>2. teller[t] \in Player
    BY <2>1 DEF ScoreInv, TypeOK, TurnInv, Turn
  <2>3. penalty \in Nat
    BY <2>1, <2>2 DEF ScoreInv, TypeOK, Penalty
  <2>4. /\ msgPc' = [msgPc EXCEPT ![m] = IF penalty > 0 THEN "penalty" ELSE "idle"]
        /\ msgPenalty' = [msgPenalty EXCEPT ![m] = penalty]
        /\ msgTurn' = [msgTurn EXCEPT ![m] = IF penalty > 0 THEN t ELSE 0]
        /\ UNCHANGED <<roomVars, scoreVars, guessVars>>
    BY <1>2 DEF MsgScores, MsgGoto
  <2> HIDE DEF penalty
  <2>5. TypeOK'
    BY <1>0, <2>1, <2>3, <2>4 DEF ScoreInv, TypeOK, roomVars, scoreVars, guessVars
  <2>6. TurnInv' /\ RequestInv'
    BY <2>1, <2>4, SameWordSamePicked DEF ScoreInv, TypeOK, TurnInv, RequestInv, roomVars,
       scoreVars, guessVars
  <2> QED
    BY <2>5, <2>6 DEF ScoreInv
<1>3. CASE MsgPenalize(m)
  <2>0. UNCHANGED <<roomVars, Picked>>
    BY <1>3, SameWordSamePicked DEF MsgPenalize, roomVars
  <2>1. PICK t \in Turn :
          /\ t <= latest
          /\ points' \in [Turn -> [Player -> Int]]
          /\ \A s \in Turn, v \in Player : s # t => points'[s][v] = points[s][v]
    BY <1>3, MsgPenalizeFacts
  <2>2. TypeOK'
    BY <1>0, <1>3, <2>1 DEF ScoreInv, TypeOK, MsgPenalize, MsgGoto, roomVars, guessVars
  <2>3. TurnInv'
    BY <1>3, <2>0, <2>1 DEF ScoreInv, TypeOK, TurnInv, MsgPenalize, Turn, roomVars
  <2>4. RequestInv'
    BY <1>3, <2>0 DEF ScoreInv, TypeOK, RequestInv, MsgPenalize, MsgGoto, roomVars, guessVars
  <2> QED
    BY <2>2, <2>3, <2>4 DEF ScoreInv
<1>4. CASE MsgFails(m)
  <2>1. TypeOK'
    BY <1>0, <1>4 DEF ScoreInv, TypeOK, MsgFails, MsgGoto, roomVars, scoreVars, guessVars
  <2>2. TurnInv' /\ RequestInv'
    BY <1>4, SameWordSamePicked DEF ScoreInv, TypeOK, TurnInv, RequestInv, MsgFails,
       MsgGoto, roomVars, scoreVars,
       guessVars
  <2> QED
    BY <2>1, <2>2 DEF ScoreInv
<1> QED
  BY <1>1, <1>2, <1>3, <1>4 DEF MsgStep

LEMMA ScoreStep == ScoreInv /\ [Next]_vars => ScoreInv'
<1> SUFFICES ASSUME ScoreInv, [Next]_vars PROVE ScoreInv'
  OBVIOUS
<1>1. CASE UNCHANGED vars
  BY <1>1, SameWordSamePicked DEF ScoreInv, TypeOK, TurnInv, RequestInv, vars, roomVars,
     scoreVars, guessVars,
     msgVars
<1> QED
  BY <1>1, RoomKeepsScoreInv, GuessKeepsScoreInv, MsgKeepsScoreInv DEF Next

LEMMA ScoreInvAlways == Spec => []ScoreInv
  BY ScoreInit, ScoreStep, PTL DEF Spec

\* Every variable keeps its type, and a request past its read holds a turn and a
\* user (emojix.go:565-577, 797-812).
THEOREM ScoringTypeCorrect == Spec => []TypeOK
<1>1. ScoreInv => TypeOK
  BY DEF ScoreInv
<1> QED
  BY <1>1, ScoreInvAlways, PTL

-----------------------------------------------------------------------------
(* Points *)

\* Rows change by a paid guess or a penalty, and tellers by a new turn.
LEMMA ScoresChange ==
  ASSUME [Next]_vars
  PROVE  \/ UNCHANGED <<scoreVars, teller>>
         \/ NewTurn /\ UNCHANGED scoreVars
         \/ \E g \in Guess : GuessScore(g) /\ UNCHANGED teller
         \/ \E m \in Message : MsgPenalize(m) /\ UNCHANGED <<guessRows, teller>>
<1>1. CASE RoomStep
  BY <1>1 DEF RoomStep, NewTurn, Table!NewTurn, PickWord, Table!PickWord, AddPlayer,
     Table!AddPlayer, Reactivate, Table!Reactivate, Kick, Table!Kick
<1>2. ASSUME NEW g \in Guess, GuessStep(g)
      PROVE UNCHANGED <<scoreVars, teller>> \/ (GuessScore(g) /\ UNCHANGED teller)
  BY <1>2 DEF GuessStep, GuessRead, GuessScore, GuessNoScore, GuessEnd, roomVars
<1>3. ASSUME NEW m \in Message, MsgStep(m)
      PROVE \/ UNCHANGED <<scoreVars, teller>>
            \/ MsgPenalize(m) /\ UNCHANGED <<guessRows, teller>>
  BY <1>3 DEF MsgStep, MsgRead, MsgScores, MsgPenalize, MsgFails, roomVars
<1>4. CASE UNCHANGED vars
  BY <1>4 DEF vars, roomVars
<1> QED
  BY <1>1, <1>2, <1>3, <1>4 DEF Next

\* A turn that gets its teller has no rows yet.
LEMMA NewTurnFacts ==
  ASSUME ScoreInv, NewTurn
  PROVE  \E t \in Turn :
           /\ \A u \in Player : guessRows[t][u] = 0 /\ points[t][u] = 0
           /\ \A s \in Turn : s # t => teller'[s] = teller[s]
           /\ teller'[t] \in Player
<1>1. latest + 1 \in Turn /\ latest + 1 > latest
  BY ScoringAssumption DEF ScoreInv, TypeOK, NewTurn, Table!NewTurn, Turn
<1>2. \A u \in Player : guessRows[latest + 1][u] = 0 /\ points[latest + 1][u] = 0
  BY <1>1 DEF ScoreInv, TurnInv
<1>3. PICK u \in Player : teller' = [teller EXCEPT ![latest + 1] = u]
  BY DEF NewTurn, Table!NewTurn, Table!Seated
<1>4. /\ \A s \in Turn : s # latest + 1 => teller'[s] = teller[s]
      /\ teller'[latest + 1] \in Player
  BY <1>1, <1>3 DEF ScoreInv, TypeOK
<1> QED
  BY <1>1, <1>2, <1>4

\* However many Guess requests of one player race, a player is paid for a turn at
\* most once, and who did not solve it has no points of it (emojix.go:620-627).
THEOREM OneGuessScorePerTurnAlways == Spec => []OneGuessScorePerTurn
<1>1. Init => OneGuessScorePerTurn
  BY DEF Init, OneGuessScorePerTurn
<1>2. ASSUME ScoreInv, OneGuessScorePerTurn, [Next]_vars PROVE OneGuessScorePerTurn'
  <2>0. points \in [Turn -> [Player -> Int]] /\ guessRows \in [Turn -> [Player -> Nat]]
    BY <1>2 DEF ScoreInv, TypeOK
  <2>1. CASE UNCHANGED <<scoreVars, teller>>
    BY <1>2, <2>1 DEF OneGuessScorePerTurn, scoreVars
  <2>2. CASE NewTurn /\ UNCHANGED scoreVars
    <3>1. PICK t \in Turn :
            /\ \A u \in Player : guessRows[t][u] = 0 /\ points[t][u] = 0
            /\ \A s \in Turn : s # t => teller'[s] = teller[s]
      BY <1>2, <2>2, NewTurnFacts
    <3> QED
      BY <1>2, <2>2, <3>1 DEF OneGuessScorePerTurn, scoreVars
  <2>3. ASSUME NEW g \in Guess, GuessScore(g), UNCHANGED teller
        PROVE  OneGuessScorePerTurn'
    <3>1. PICK u \in Player, t \in Turn :
            /\ u # teller[t]
            /\ guessRows[t][u] = 0
            /\ \A s \in Turn, v \in Player :
                 guessRows'[s][v] = IF s = t /\ v = u THEN 1 ELSE guessRows[s][v]
            /\ \A s \in Turn, v \in Player : ~(s = t /\ v \in {u, teller[t]}) =>
                 points'[s][v] = points[s][v]
            /\ points'[t][u] >= points[t][u] + 10
            /\ points' \in [Turn -> [Player -> Int]]
      BY <1>2, <2>3, GuessScoreFacts
    <3>2. points[t][u] = 0
      BY <1>2, <3>1 DEF OneGuessScorePerTurn
    <3>3. guessRows'[t][u] = 1 /\ points'[t][u] > 0
      BY <3>1, <3>2
    <3> QED
      BY <1>2, <2>3, <3>1, <3>3 DEF OneGuessScorePerTurn
  <2>4. ASSUME NEW m \in Message, MsgPenalize(m), UNCHANGED <<guessRows, teller>>
        PROVE  OneGuessScorePerTurn'
    <3>1. PICK t \in Turn :
            \A s \in Turn, v \in Player : ~(s = t /\ v = teller[t]) =>
              points'[s][v] = points[s][v]
      BY <1>2, <2>4, MsgPenalizeFacts
    <3> QED
      BY <1>2, <2>4, <3>1 DEF OneGuessScorePerTurn
  <2> QED
    BY <1>2, <2>1, <2>2, <2>3, <2>4, ScoresChange
<1> QED
  BY <1>1, <1>2, ScoreInvAlways, PTL DEF Spec

LEMMA SolvedFinite ==
  ASSUME NEW t \in Turn
  PROVE  IsFiniteSet(Solved(t)) /\ Cardinality(Solved(t)) \in Nat
<1>1. Solved(t) \subseteq Player
  BY DEF Solved
<1> QED
  BY <1>1, ScoringAssumption, FS_Subset, FS_CardinalityType


\* A paid guess adds the guesser to those who solved the turn, and nobody else.
LEMMA GuessSolves ==
  ASSUME ScoreInv, NEW g \in Guess, GuessScore(g), UNCHANGED teller,
         NEW u \in Player, NEW t \in Turn, u # teller[t],
         guessRows[t][u] = 0,
         \A s \in Turn, v \in Player :
           guessRows'[s][v] = IF s = t /\ v = u THEN 1 ELSE guessRows[s][v]
  PROVE  /\ Solved(t)' = Solved(t) \cup {u}
         /\ \A s \in Turn \ {t} : Solved(s)' = Solved(s)
         /\ IsFiniteSet(Solved(t)')
         /\ Cardinality(Solved(t)') = Cardinality(Solved(t)) + 1
<1>1. Solved(t)' = Solved(t) \cup {u}
  BY DEF Solved
<1>2. \A s \in Turn \ {t} : Solved(s)' = Solved(s)
  BY DEF Solved
<1>3. u \notin Solved(t) /\ IsFiniteSet(Solved(t))
  BY SolvedFinite DEF Solved
<1>4. /\ IsFiniteSet(Solved(t) \cup {u})
      /\ Cardinality(Solved(t) \cup {u}) = Cardinality(Solved(t)) + 1
  BY <1>3, FS_AddElement
<1> QED
  BY <1>1, <1>2, <1>4

\* The teller of a turn never guesses in it and is paid five points at most for
\* each player who solved it (emojix.go:661-668).
THEOREM TellerPaidPerSolverAlways == Spec => []TellerPaidPerSolver
<1>1. Init => TellerPaidPerSolver
  BY DEF Init, Table!Init, Table!Turn, Turn, TellerPaidPerSolver
<1>2. ASSUME ScoreInv, TellerPaidPerSolver, [Next]_vars PROVE TellerPaidPerSolver'
  <2>0. /\ points \in [Turn -> [Player -> Int]] /\ guessRows \in [Turn -> [Player -> Nat]]
        /\ teller \in [Turn -> Player \cup {None}] /\ None \notin Player
    BY <1>2, ScoringAssumption DEF ScoreInv, TypeOK
  <2>1. CASE UNCHANGED <<scoreVars, teller>>
    BY <1>2, <2>1 DEF TellerPaidPerSolver, Solved, scoreVars
  <2>2. CASE NewTurn /\ UNCHANGED scoreVars
    <3>1. PICK t \in Turn :
            /\ \A u \in Player : guessRows[t][u] = 0 /\ points[t][u] = 0
            /\ \A s \in Turn : s # t => teller'[s] = teller[s]
            /\ teller'[t] \in Player
      BY <1>2, <2>2, NewTurnFacts
    <3>2. \A s \in Turn : s # t => Solved(s)' = Solved(s)
      BY <2>2, <3>1 DEF Solved, scoreVars
    <3>3. Solved(t)' = {}
      BY <2>2, <3>1 DEF Solved, scoreVars
    <3>4. Cardinality(Solved(t)') = 0
      BY <3>3, FS_EmptySet
    <3>5. guessRows'[t][teller'[t]] = 0 /\ points'[t][teller'[t]] = 0
      BY <2>2, <3>1 DEF scoreVars
    <3> QED
      BY <1>2, <2>2, <3>1, <3>2, <3>4, <3>5 DEF TellerPaidPerSolver, scoreVars
  <2>3. ASSUME NEW g \in Guess, GuessScore(g), UNCHANGED teller
        PROVE  TellerPaidPerSolver'
    <3>1. PICK u \in Player, t \in Turn :
            /\ u # teller[t] /\ teller[t] \in Player
            /\ guessRows[t][u] = 0
            /\ \A s \in Turn, v \in Player :
                 guessRows'[s][v] = IF s = t /\ v = u THEN 1 ELSE guessRows[s][v]
            /\ \A s \in Turn, v \in Player : ~(s = t /\ v \in {u, teller[t]}) =>
                 points'[s][v] = points[s][v]
            /\ points'[t][teller[t]] = points[t][teller[t]] + 5
      BY <1>2, <2>3, GuessScoreFacts
    <3>2. /\ \A s \in Turn \ {t} : Solved(s)' = Solved(s)
          /\ Cardinality(Solved(t)') = Cardinality(Solved(t)) + 1
      BY <1>2, <2>3, <3>1, GuessSolves
    <3>3. Cardinality(Solved(t)) \in Nat
      BY SolvedFinite
    <3>4. points[t][teller[t]] <= 5 * Cardinality(Solved(t))
      BY <1>2, <2>0, <3>1 DEF TellerPaidPerSolver
    <3>5. points'[t][teller[t]] <= 5 * Cardinality(Solved(t)')
      BY <2>0, <3>1, <3>2, <3>3, <3>4
    <3>6. ASSUME NEW s \in Turn, teller'[s] # None
          PROVE  /\ guessRows'[s][teller'[s]] = 0
                 /\ points'[s][teller'[s]] <= 5 * Cardinality(Solved(s)')
      <4>1. teller'[s] = teller[s] /\ teller[s] \in Player
        BY <2>0, <2>3, <3>6
      <4>2. CASE s = t
        <5>1. guessRows[t][teller[t]] = 0
          BY <1>2, <2>0, <3>1 DEF TellerPaidPerSolver
        <5>2. guessRows'[t][teller[t]] = 0
          BY <3>1, <5>1
        <5> QED
          BY <3>5, <4>1, <4>2, <5>2
      <4>3. CASE s # t
        BY <1>2, <3>1, <3>2, <3>6, <4>1, <4>3 DEF TellerPaidPerSolver
      <4> QED
        BY <4>2, <4>3
    <3> QED
      BY <3>6 DEF TellerPaidPerSolver
  <2>4. ASSUME NEW m \in Message, MsgPenalize(m), UNCHANGED <<guessRows, teller>>
        PROVE  TellerPaidPerSolver'
    <3>1. PICK t \in Turn :
            /\ teller[t] \in Player
            /\ \A s \in Turn, v \in Player : ~(s = t /\ v = teller[t]) =>
                 points'[s][v] = points[s][v]
            /\ points'[t][teller[t]] = points[t][teller[t]] - msgPenalty[m]
      BY <1>2, <2>4, MsgPenalizeFacts
    <3>2. msgPenalty[m] \in Nat
      BY <1>2 DEF ScoreInv, TypeOK
    <3>3. \A s \in Turn : Solved(s)' = Solved(s) /\ Cardinality(Solved(s)) \in Nat
      BY <2>4, SolvedFinite DEF Solved
    <3>4. points'[t][teller[t]] <= points[t][teller[t]]
      BY <2>0, <3>1, <3>2
    <3>5. ASSUME NEW s \in Turn, teller'[s] # None
          PROVE  /\ guessRows'[s][teller'[s]] = 0
                 /\ points'[s][teller'[s]] <= 5 * Cardinality(Solved(s)')
      <4>1. /\ teller'[s] = teller[s] /\ teller[s] \in Player
            /\ guessRows[s][teller[s]] = 0
            /\ points[s][teller[s]] <= 5 * Cardinality(Solved(s))
        BY <1>2, <2>0, <2>4, <3>5 DEF TellerPaidPerSolver
      <4>2. points'[s][teller[s]] <= points[s][teller[s]]
        BY <2>0, <3>1, <3>4, <4>1
      <4>3. points'[s][teller[s]] \in Int /\ points[s][teller[s]] \in Int
        <5>1. ScoreInv'
          BY <1>2, ScoreStep
        <5> QED
          BY <2>0, <4>1, <5>1 DEF ScoreInv, TypeOK
      <4>4. points'[s][teller[s]] <= 5 * Cardinality(Solved(s))
        BY <3>3, <4>1, <4>2, <4>3
      <4> QED
        BY <2>4, <3>3, <4>1, <4>4
    <3> QED
      BY <3>5 DEF TellerPaidPerSolver
  <2> QED
    BY <1>2, <2>1, <2>2, <2>3, <2>4, ScoresChange
<1> QED
  BY <1>1, <1>2, ScoreInvAlways, PTL DEF Spec

\* With one message at a time, a penalty about to be stored is still covered by
\* the teller's points of the turn: only guesses can come in between.
FloorInv ==
  SerialMessages =>
    /\ \A t \in Turn : teller[t] # None => points[t][teller[t]] >= 0
    /\ \A m \in Message : msgPc[m] = "penalty" =>
         msgPenalty[m] <= points[msgTurn[m]][teller[msgTurn[m]]]

LEMMA FloorStep ==
  ASSUME ScoreInv, FloorInv, [Next]_vars
  PROVE  FloorInv'
<1> SUFFICES ASSUME SerialMessages PROVE FloorInv'
  BY DEF FloorInv, SerialMessages
<1>0. /\ points \in [Turn -> [Player -> Int]]
      /\ teller \in [Turn -> Player \cup {None}] /\ None \notin Player
      /\ msgPc \in [Message -> {"idle", "scores", "penalty"}]
      /\ msgPenalty \in [Message -> Nat]
      /\ \A m \in Message : msgPc[m] # "idle" => msgTurn[m] \in Turn /\ msgTurn[m] <= latest
      /\ \A t \in Turn : t <= latest => teller[t] \in Player
      /\ \A t \in Turn : t > latest => teller[t] = None
      /\ latest \in Nat
  BY ScoringAssumption DEF ScoreInv, TypeOK, TurnInv, RequestInv, Turn
<1>1. CASE NewTurn
  <2>1. PICK t \in Turn :
          /\ \A u \in Player : guessRows[t][u] = 0 /\ points[t][u] = 0
          /\ \A s \in Turn : s # t => teller'[s] = teller[s]
          /\ teller'[t] \in Player
    BY <1>1, NewTurnFacts
  <2>2. \A s \in Turn : s <= latest => teller'[s] = teller[s]
    BY <1>0, <1>1 DEF NewTurn, Table!NewTurn
  <2>3. UNCHANGED <<points, msgPc, msgTurn, msgPenalty>>
    BY <1>1 DEF NewTurn, Table!NewTurn, scoreVars, msgVars
  <2>4. \A s \in Turn : teller'[s] # None => points'[s][teller'[s]] >= 0
    BY <2>1, <2>3 DEF FloorInv
  <2>5. \A m \in Message : msgPc'[m] = "penalty" =>
          msgPenalty'[m] <= points'[msgTurn'[m]][teller'[msgTurn'[m]]]
    BY <1>0, <2>2, <2>3 DEF FloorInv
  <2> QED
    BY <2>4, <2>5 DEF FloorInv
<1>2. CASE UNCHANGED <<points, teller, msgVars>>
  BY <1>2 DEF FloorInv, msgVars
<1>3. ASSUME NEW g \in Guess, GuessScore(g) PROVE FloorInv'
  <2>1. UNCHANGED <<teller, msgVars>>
    BY <1>3 DEF GuessScore, roomVars
  <2>2. PICK u \in Player, t \in Turn :
          /\ u # teller[t] /\ teller[t] \in Player
          /\ \A s \in Turn, v \in Player : ~(s = t /\ v \in {u, teller[t]}) =>
               points'[s][v] = points[s][v]
          /\ points'[t][teller[t]] = points[t][teller[t]] + 5
    BY <1>3, GuessScoreFacts
  <2>3. points'[t][teller[t]] >= points[t][teller[t]]
    BY <1>0, <2>2
  <2>4. ASSUME NEW s \in Turn, teller[s] \in Player
        PROVE  points'[s][teller[s]] >= points[s][teller[s]] /\ points'[s][teller[s]] \in Int
    <3>1. points[s][teller[s]] \in Int
      BY <1>0, <2>4
    <3>2. CASE s = t
      BY <2>2, <2>3, <3>1, <3>2
    <3>3. CASE s # t
      BY <2>2, <2>4, <3>1, <3>3
    <3> QED
      BY <3>2, <3>3
  <2>5. ASSUME NEW s \in Turn, teller[s] # None PROVE points'[s][teller[s]] >= 0
    <3>1. teller[s] \in Player /\ points[s][teller[s]] >= 0 /\ points[s][teller[s]] \in Int
      BY <1>0, <2>5 DEF FloorInv
    <3> QED
      BY <2>4, <3>1
  <2>6. ASSUME NEW m \in Message, msgPc[m] = "penalty"
        PROVE  msgPenalty[m] <= points'[msgTurn[m]][teller[msgTurn[m]]]
    <3>1. /\ msgTurn[m] \in Turn /\ teller[msgTurn[m]] \in Player /\ msgPenalty[m] \in Nat
          /\ msgPenalty[m] <= points[msgTurn[m]][teller[msgTurn[m]]]
      BY <1>0, <2>6 DEF FloorInv
    <3>2. points[msgTurn[m]][teller[msgTurn[m]]] \in Int
      BY <1>0, <3>1
    <3> QED
      BY <2>4, <3>1, <3>2
  <2> QED
    BY <2>1, <2>5, <2>6 DEF FloorInv, msgVars
<1>4. ASSUME NEW m \in Message, MsgStep(m) PROVE FloorInv'
  <2>0. Message = {m} /\ UNCHANGED teller
    BY <1>4 DEF SerialMessages, MsgStep, MsgRead, MsgScores, MsgPenalize, MsgFails,
       roomVars
  <2>1. CASE MsgRead(m) \/ MsgFails(m)
    BY <1>0, <2>0, <2>1 DEF MsgRead, MsgFails, MsgGoto, FloorInv, scoreVars
  <2>2. CASE MsgScores(m)
    <3> DEFINE t == msgTurn[m]
               penalty == Penalty(points[t][teller[t]])
    <3>1. t \in Turn /\ teller[t] \in Player
      BY <1>0, <2>2 DEF MsgScores, MsgGoto
    <3>2. points[t][teller[t]] \in Int /\ points[t][teller[t]] >= 0
      BY <1>0, <3>1 DEF FloorInv
    <3>3. penalty <= points[t][teller[t]] /\ penalty \in Nat
      BY <3>2 DEF Penalty
    <3>4. /\ msgPc' = [msgPc EXCEPT ![m] = IF penalty > 0 THEN "penalty" ELSE "idle"]
          /\ msgPenalty' = [msgPenalty EXCEPT ![m] = penalty]
          /\ msgTurn' = [msgTurn EXCEPT ![m] = IF penalty > 0 THEN t ELSE 0]
          /\ UNCHANGED <<points, teller>>
      BY <2>2 DEF MsgScores, MsgGoto, scoreVars, roomVars
    <3>5. msgTurn \in [Message -> 0..MaxTurns]
      BY DEF ScoreInv, TypeOK
    <3>6. msgPenalty'[m] = penalty /\ (msgPc'[m] = "penalty" => msgTurn'[m] = t)
      BY <1>0, <3>4, <3>5
    <3> HIDE DEF t, penalty
    <3>7. msgPc'[m] = "penalty" => msgPenalty'[m] <= points'[msgTurn'[m]][teller'[msgTurn'[m]]]
      BY <3>3, <3>4, <3>6
    <3> QED
      BY <2>0, <3>4, <3>7 DEF FloorInv
  <2>3. CASE MsgPenalize(m)
    <3>1. PICK t \in Turn :
            /\ t = msgTurn[m] /\ teller[t] \in Player
            /\ \A s \in Turn, v \in Player : ~(s = t /\ v = teller[t]) =>
                 points'[s][v] = points[s][v]
            /\ points'[t][teller[t]] = points[t][teller[t]] - msgPenalty[m]
      BY <2>3, MsgPenalizeFacts
    <3>2. msgPc[m] = "penalty" /\ msgPc'[m] = "idle"
      BY <1>0, <2>3 DEF MsgPenalize, MsgGoto
    <3>3. msgPenalty[m] <= points[t][teller[t]] /\ msgPenalty[m] \in Nat
          /\ points[t][teller[t]] \in Int
      BY <1>0, <3>1, <3>2 DEF FloorInv
    <3>4. points'[t][teller[t]] >= 0
      BY <3>1, <3>3
    <3>5. \A s \in Turn : teller[s] # None => points'[s][teller[s]] >= 0
      BY <1>0, <3>1, <3>4 DEF FloorInv
    <3> QED
      BY <2>0, <3>2, <3>5 DEF FloorInv
  <2> QED
    BY <1>4, <2>1, <2>2, <2>3 DEF MsgStep
<1>5. CASE RoomStep /\ ~NewTurn
  BY <1>2, <1>5 DEF RoomStep, PickWord, Table!PickWord, AddPlayer, Table!AddPlayer,
     Reactivate, Table!Reactivate, Kick, Table!Kick, scoreVars
<1>6. ASSUME NEW g \in Guess, GuessStep(g), ~GuessScore(g) PROVE FloorInv'
  BY <1>2, <1>6 DEF GuessStep, GuessRead, GuessNoScore, GuessEnd, scoreVars, roomVars
<1>7. CASE UNCHANGED vars
  BY <1>2, <1>7 DEF vars, scoreVars, roomVars
<1> QED
  BY <1>1, <1>3, <1>4, <1>5, <1>6, <1>7 DEF Next

\* A teller who sends one message at a time never ends up with less than nothing of
\* a turn, whatever is paid between the sum and the penalty (emojix.go:819-838).
THEOREM TellerFloorSerialAlways == Spec => []TellerFloorSerial
<1>1. Init => FloorInv
  BY DEF Init, Table!Init, Table!Turn, Turn, FloorInv
<1>2. FloorInv => TellerFloorSerial
  BY DEF FloorInv, TellerFloorSerial
<1> QED
  BY <1>1, <1>2, FloorStep, ScoreInvAlways, PTL DEF Spec

-----------------------------------------------------------------------------
(* The end of the turn *)

\* With one row each, there are as many active rows of guessers as active guessers.
LEMMA OneRowEach ==
  ASSUME TypeOK, NEW t \in Turn, \A u \in Player : activeRows[u] <= 1
  PROVE  CountGuessers(t) = Cardinality(Table!Active \ {teller[t]})
<1> DEFINE guessers == Table!Active \ {teller[t]}
           rowsHere == {row \in Table!ActiveRows : row[1] # teller[t]}
           f == [row \in rowsHere |-> row[1]]
<1>1. \A u \in Player : 1..activeRows[u] = IF u \in Table!Active THEN {1} ELSE {}
  <2> SUFFICES ASSUME NEW u \in Player
               PROVE  1..activeRows[u] = IF u \in Table!Active THEN {1} ELSE {}
    OBVIOUS
  <2>0. activeRows[u] \in Nat /\ activeRows[u] <= 1
    BY DEF TypeOK
  <2>1. activeRows[u] = 0 \/ activeRows[u] = 1
    BY <2>0
  <2>2. CASE activeRows[u] = 0
    BY <2>2 DEF Table!Active
  <2>3. CASE activeRows[u] = 1
    BY <2>3 DEF Table!Active
  <2> QED
    BY <2>1, <2>2, <2>3
<1>2. rowsHere = {<<u, 1>> : u \in guessers}
  <2>1. Table!ActiveRows = {<<u, 1>> : u \in Table!Active}
    <3>1. \A u \in Player :
            {u} \X (1..activeRows[u]) = IF u \in Table!Active THEN {<<u, 1>>} ELSE {}
      <4>1. \A u : {u} \X {1} = {<<u, 1>>} /\ {u} \X {} = {}
        OBVIOUS
      <4> QED
        BY <1>1, <4>1
    <3>2. Table!Active \subseteq Player
      BY DEF Table!Active
    <3> QED
      BY <3>1, <3>2 DEF Table!ActiveRows
  <2>2. rowsHere \subseteq {<<u, 1>> : u \in guessers}
    <3>1. ASSUME NEW row \in rowsHere PROVE row \in {<<u, 1>> : u \in guessers}
      <4>1. PICK u \in Table!Active : row = <<u, 1>>
        BY <2>1
      <4>2. u # teller[t]
        BY <3>1, <4>1
      <4> QED
        BY <4>1, <4>2
    <3> QED
      BY <3>1
  <2>3. {<<u, 1>> : u \in guessers} \subseteq rowsHere
    <3>1. ASSUME NEW u \in guessers PROVE <<u, 1>> \in rowsHere
      <4>1. <<u, 1>> \in Table!ActiveRows
        BY <2>1
      <4>2. <<u, 1>>[1] # teller[t]
        OBVIOUS
      <4> QED
        BY <4>1, <4>2
    <3> QED
      BY <3>1
  <2> QED
    BY <2>2, <2>3
<1>3. f \in Bijection(rowsHere, guessers)
  <2>1. \A row \in rowsHere : row = <<row[1], 1>> /\ row[1] \in guessers
    BY <1>2
  <2>2. f \in Injection(rowsHere, guessers)
    BY <2>1 DEF Injection, IsInjective
  <2>3. f \in Surjection(rowsHere, guessers)
    <3>1. ASSUME NEW u \in guessers PROVE <<u, 1>> \in rowsHere /\ f[<<u, 1>>] = u
      <4>1. <<u, 1>> \in rowsHere
        BY <1>2
      <4>2. <<u, 1>>[1] = u
        OBVIOUS
      <4>3. f[<<u, 1>>] = <<u, 1>>[1]
        BY <4>1
      <4> QED
        BY <4>1, <4>2, <4>3
    <3>2. f \in [rowsHere -> guessers]
      BY <2>1
    <3> HIDE DEF f, guessers, rowsHere
    <3> QED
      BY <3>1, <3>2 DEF Surjection
  <2> QED
    BY <2>2, <2>3 DEF Bijection
<1>4. IsFiniteSet(rowsHere)
  <2>1. rowsHere \subseteq Table!ActiveRows
    OBVIOUS
  <2> QED
    BY <2>1, GuessersCounted, FS_Subset
<1> HIDE DEF f
<1> QED
  BY <1>3, <1>4, FS_Bijection DEF CountGuessers, ExistsBijection

\* The count that Guess compares is the number of those who solved the turn, and
\* they all are active guessers: equal numbers are equal sets.
LEMMA CountsDecide ==
  ASSUME ScoreInv, NEW g \in Guess, GuessScore(g),
         NEW t \in Turn, t = guessTurn[g], SolversCounted(t)'
  PROVE  guessPc'[g] = "end" <=> AllGuessed(t)'
<1>1. UNCHANGED <<teller, activeRows, Table!Active>>
  BY DEF GuessScore, roomVars, Table!Active
<1>2. PICK u \in Player :
        /\ u # teller[t]
        /\ guessRows[t][u] = 0
        /\ \A s \in Turn, v \in Player :
             guessRows'[s][v] = IF s = t /\ v = u THEN 1 ELSE guessRows[s][v]
        /\ guessPc' = [guessPc EXCEPT ![g] =
                         IF Cardinality(Solved(t)) + 1 = CountGuessers(t) THEN "end"
                         ELSE "idle"]
  BY GuessScoreFacts
<1> DEFINE guessers == Table!Active \ {teller[t]}
<1>3. /\ Solved(t)' = Solved(t) \cup {u}
      /\ Cardinality(Solved(t)') = Cardinality(Solved(t)) + 1
  BY <1>1, <1>2, GuessSolves
<1>4. Solved(t)' \subseteq guessers
  <2>1. Solved(t)' \subseteq Table!Active
    BY <1>1 DEF SolversCounted
  <2>2. teller[t] \notin Solved(t)'
    BY <1>1 DEF Solved
  <2> QED
    BY <2>1, <2>2
<1>5. u \in guessers
  BY <1>3, <1>4
<1>6. IsFiniteSet(guessers)
  <2>1. guessers \subseteq Player
    BY DEF Table!Active
  <2> QED
    BY <2>1, ScoringAssumption, FS_Subset
<1>7. Cardinality(Solved(t)') = Cardinality(guessers) => Solved(t)' = guessers
  BY <1>4, <1>6, FS_Subset
<1>8. AllGuessed(t)' <=> guessers \subseteq Solved(t)'
  BY <1>1, <1>5 DEF AllGuessed
<1>9. CountGuessers(t) = Cardinality(guessers)
  <2>1. \A v \in Player : activeRows[v] <= 1
    BY <1>1 DEF SolversCounted
  <2> QED
    BY <2>1, OneRowEach DEF ScoreInv
<1>10. guessPc'[g] = "end" <=> Cardinality(Solved(t)') = Cardinality(guessers)
  BY <1>2, <1>3, <1>9 DEF ScoreInv, TypeOK
<1> HIDE DEF guessers
<1> QED
  BY <1>4, <1>7, <1>8, <1>10

\* The guess that pays a player ends the turn exactly when it makes everybody's page show
\* the turn as ended, if the solvers are all active, with one row each
\* (emojix.go:631-645, 681-683 against 229-247).
THEOREM LastGuessEndsTurnAlways == Spec => LastGuessEndsTurn
<1> DEFINE Decides ==
      \A g \in Guess, t \in Turn :
        /\ guessTurn[g] = t /\ guessPc[g] = "tx"
        /\ guessPc'[g] # "tx" /\ guessRows' # guessRows
        /\ SolversCounted(t)'
        => (guessPc'[g] = "end" <=> AllGuessed(t)')
<1>1. ASSUME ScoreInv, [Next]_vars PROVE Decides
  <2> SUFFICES ASSUME NEW g \in Guess, NEW t \in Turn,
                      guessTurn[g] = t, guessPc[g] = "tx", guessPc'[g] # "tx",
                      guessRows' # guessRows, SolversCounted(t)'
               PROVE  guessPc'[g] = "end" <=> AllGuessed(t)'
    OBVIOUS
  <2>1. PICK h \in Guess : GuessScore(h)
    BY <1>1, ScoresChange DEF scoreVars
  <2>2. h = g
    BY <1>1, <2>1 DEF GuessScore, GuessLeavesTx, ScoreInv, TypeOK
  <2> QED
    BY <1>1, <2>1, <2>2, CountsDecide
<1>2. ScoreInv /\ [Next]_vars => [Decides]_vars
  BY <1>1
<1> HIDE DEF Decides
<1>3. Spec => [][Decides]_vars
  BY <1>2, ScoreInvAlways, PTL DEF Spec
<1> QED
  BY <1>3 DEF Decides, LastGuessEndsTurn
=============================================================================
