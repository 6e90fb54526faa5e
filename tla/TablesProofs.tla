---------------------------- MODULE TablesProofs ----------------------------
(***************************************************************************)
(* The room implements TurnTable.tla: whatever requests, kicks and         *)
(* turn-end handlers race, for any number of users, joins, words and       *)
(* turns, its tables change as Scoring.tla and View.tla assume.            *)
(***************************************************************************)
EXTENDS RoomProofs

\* The host's row is the first, and the host never gets another one.  (Anybody else may
\* get two, when two of their joins race.)
HostRow ==
  /\ 1 \in DOMAIN players
  /\ \A i \in DOMAIN players : players[i].user = Host <=> i = 1
  /\ \A j \in Joiner : joinPc[j] = "write" /\ joinHow[j] = "add" => joinUser[j] # Host

\* Between the count of the players and the insert of a turn there are two rows: rows
\* stay, whoever is kicked.
Counted ==
  \/ \E j \in Joiner : joinPc[j] \in {"words", "read", "add"}
  \/ \E l \in Loop : handlerPc[l] \in {"words", "read", "add", "rewords", "reread", "readd"}
TwoRows == Counted => 2 \in DOMAIN players

\* Users with a row.
Seated == {players[i].user : i \in DOMAIN players}

\* The teller of a turn about to be inserted has a seat.
DraftSeated == \A x \in Joiner \cup Loop : draft[x] # None => draft[x].teller \in Seated

TableInv == HostRow /\ TwoRows /\ DraftSeated /\ Len(turns) <= MaxTurns

-----------------------------------------------------------------------------
(* What the statements do to the tables as others read them *)

LEMMA SameRowsSameSeats ==
  ASSUME UNCHANGED players
  PROVE  UNCHANGED <<Seated, ActiveUsers, RowCount, ActiveRowCount>>
  BY DEF Seated, ActiveUsers, RowCount, ActiveRowCount, RowsOf, Active

LEMMA RowsFinite ==
  ASSUME NEW u \in User, players \in Seq(Row)
  PROVE  /\ IsFiniteSet(RowsOf(u)) /\ Cardinality(RowsOf(u)) \in Nat
         /\ IsFiniteSet(RowsOf(u) \cap Active) /\ Cardinality(RowsOf(u) \cap Active) \in Nat
<1>1. DOMAIN players = 1..Len(players) /\ Len(players) \in Nat
  BY LenProperties
<1>2. IsFiniteSet(1..Len(players))
  BY <1>1, FS_Interval
<1>3. RowsOf(u) \in SUBSET (1..Len(players)) /\ RowsOf(u) \cap Active \in SUBSET RowsOf(u)
  BY <1>1 DEF RowsOf
<1> QED
  BY <1>2, <1>3, FS_Subset, FS_CardinalityType

\* Who has a row, counted or not.
LEMMA SeatedCounted ==
  ASSUME players \in Seq(Row)
  PROVE  Table!Seated = Seated
<1>1. \A i \in DOMAIN players : players[i].user \in User
  <2>1. \A i \in DOMAIN players : players[i] \in Row
    BY LenProperties
  <2> QED
    BY <2>1 DEF Row
<1>2. ASSUME NEW u \in User PROVE RowCount[u] > 0 <=> u \in Seated
  <2>1. RowsOf(u) = {} <=> u \notin Seated
    BY DEF RowsOf, Seated
  <2>2. Cardinality(RowsOf(u)) = 0 <=> RowsOf(u) = {}
    BY RowsFinite, FS_EmptySet
  <2>3. RowCount[u] = Cardinality(RowsOf(u)) /\ RowCount[u] \in Nat
    BY RowsFinite DEF RowCount
  <2> QED
    BY <2>1, <2>2, <2>3
<1> QED
  BY <1>1, <1>2 DEF Table!Seated, Seated

LEMMA SameTurnsSameTable ==
  ASSUME UNCHANGED turns
  PROVE  UNCHANGED <<Len(turns), TellerOf, WordOf>>
  BY DEF TellerOf, WordOf

LEMMA AddPlayerSeats ==
  ASSUME NEW u \in User, players \in Seq(Row), AddPlayer(u)
  PROVE  Seated' = Seated \cup {u} /\ ActiveUsers' = ActiveUsers \cup {u}
<1>1. /\ DOMAIN players = 1..Len(players) /\ Len(players) \in Nat
      /\ DOMAIN players' = 1..(Len(players) + 1)
      /\ \A i \in DOMAIN players : players'[i] = players[i]
      /\ players'[Len(players) + 1] = [user |-> u, active |-> TRUE]
  BY AddPlayerFacts
<1>2. DOMAIN players' = DOMAIN players \cup {Len(players) + 1}
  BY <1>1
<1>3. players'[Len(players) + 1].user = u /\ players'[Len(players) + 1].active
  BY <1>1
<1>4. Seated' = Seated \cup {u}
  BY <1>1, <1>2, <1>3 DEF Seated
<1>5. Active' = Active \cup {Len(players) + 1}
  BY <1>1, <1>2, <1>3 DEF Active
<1>6. ActiveUsers' = ActiveUsers \cup {u}
  BY <1>1, <1>3, <1>5 DEF ActiveUsers, Active
<1> QED
  BY <1>4, <1>6

LEMMA ReactivateSeats ==
  ASSUME NEW u \in User, players \in Seq(Row), SetPlayerState(u, TRUE)
  PROVE  /\ Seated' = Seated
         /\ ActiveUsers' = IF u \in Seated THEN ActiveUsers \cup {u} ELSE ActiveUsers
<1>1. /\ DOMAIN players' = DOMAIN players
      /\ \A i \in DOMAIN players :
           /\ players'[i].user = players[i].user
           /\ players'[i].active = IF players[i].user = u THEN TRUE ELSE players[i].active
  BY SetPlayerStateFacts
<1>2. Seated' = Seated
  BY <1>1 DEF Seated
<1>3. Active' = Active \cup RowsOf(u)
  BY <1>1 DEF Active, RowsOf
<1>4. ActiveUsers' = {players[i].user : i \in Active'}
  BY <1>1, <1>3 DEF ActiveUsers, Active, RowsOf
<1>5. ActiveUsers' = ActiveUsers \cup {players[i].user : i \in RowsOf(u)}
  BY <1>3, <1>4 DEF ActiveUsers
<1>6. {players[i].user : i \in RowsOf(u)} = IF u \in Seated THEN {u} ELSE {}
  BY DEF RowsOf, Seated
<1> QED
  BY <1>2, <1>5, <1>6

LEMMA DeactivateSeats ==
  ASSUME NEW u \in User, players \in Seq(Row), SetPlayerState(u, FALSE)
  PROVE  Seated' = Seated /\ ActiveUsers' = ActiveUsers \ {u}
<1>1. /\ DOMAIN players' = DOMAIN players
      /\ \A i \in DOMAIN players :
           /\ players'[i].user = players[i].user
           /\ players'[i].active = IF players[i].user = u THEN FALSE ELSE players[i].active
  BY SetPlayerStateFacts
<1>2. Seated' = Seated
  BY <1>1 DEF Seated
<1>3. Active' = Active \ RowsOf(u)
  BY <1>1 DEF Active, RowsOf
<1>4. ActiveUsers' = {players[i].user : i \in Active'}
  BY <1>1, <1>3 DEF ActiveUsers, Active, RowsOf
<1>5. {players[i].user : i \in Active \ RowsOf(u)} = ActiveUsers \ {u}
  BY DEF ActiveUsers, Active, RowsOf
<1> QED
  BY <1>2, <1>3, <1>4, <1>5

\* The same statements, row by row.
LEMMA AddPlayerRows ==
  ASSUME NEW u \in User, players \in Seq(Row), AddPlayer(u)
  PROVE  /\ RowCount' = [RowCount EXCEPT ![u] = @ + 1]
         /\ ActiveRowCount' = [ActiveRowCount EXCEPT ![u] = @ + 1]
<1> DEFINE n == Len(players) + 1
<1>1. /\ DOMAIN players = 1..Len(players) /\ Len(players) \in Nat
      /\ DOMAIN players' = 1..n
      /\ \A i \in DOMAIN players : players'[i] = players[i]
      /\ players'[n] = [user |-> u, active |-> TRUE]
  BY AddPlayerFacts
<1>2. DOMAIN players' = DOMAIN players \cup {n} /\ n \notin DOMAIN players
  BY <1>1
<1>3. players'[n].user = u /\ players'[n].active
  BY <1>1
<1> HIDE DEF n
<1>4. ASSUME NEW v \in User, v # u
      PROVE  RowsOf(v)' = RowsOf(v) /\ (RowsOf(v) \cap Active)' = RowsOf(v) \cap Active
  BY <1>1, <1>2, <1>3, <1>4 DEF RowsOf, Active
<1>5. /\ RowsOf(u)' = RowsOf(u) \cup {n} /\ n \notin RowsOf(u)
      /\ (RowsOf(u) \cap Active)' = (RowsOf(u) \cap Active) \cup {n}
      /\ n \notin RowsOf(u) \cap Active
  BY <1>1, <1>2, <1>3 DEF RowsOf, Active
<1>6. Cardinality(RowsOf(u)') = Cardinality(RowsOf(u)) + 1
  BY <1>5, RowsFinite, FS_AddElement
<1>7. Cardinality((RowsOf(u) \cap Active)') = Cardinality(RowsOf(u) \cap Active) + 1
  BY <1>5, RowsFinite, FS_AddElement
<1> QED
  BY <1>4, <1>6, <1>7 DEF RowCount, ActiveRowCount

LEMMA SetPlayerStateRows ==
  ASSUME NEW u \in User, NEW state \in BOOLEAN, players \in Seq(Row),
         SetPlayerState(u, state)
  PROVE  /\ RowCount' = RowCount
         /\ ActiveRowCount' =
              [ActiveRowCount EXCEPT ![u] = IF state THEN RowCount[u] ELSE 0]
<1>1. /\ DOMAIN players' = DOMAIN players
      /\ \A i \in DOMAIN players :
           /\ players'[i].user = players[i].user
           /\ players'[i].active = IF players[i].user = u THEN state ELSE players[i].active
  BY SetPlayerStateFacts
<1>2. \A v \in User : RowsOf(v)' = RowsOf(v)
  BY <1>1 DEF RowsOf
<1>3. ASSUME NEW v \in User, v # u PROVE (RowsOf(v) \cap Active)' = RowsOf(v) \cap Active
  BY <1>1, <1>3 DEF RowsOf, Active
<1>4. (RowsOf(u) \cap Active)' = IF state THEN RowsOf(u) ELSE {}
  BY <1>1 DEF RowsOf, Active
<1>5. Cardinality((RowsOf(u) \cap Active)') = IF state THEN RowCount[u] ELSE 0
  BY <1>4, FS_EmptySet DEF RowCount
<1>6. RowCount' = RowCount
  BY <1>2 DEF RowCount
<1> QED
  BY <1>3, <1>5, <1>6 DEF ActiveRowCount

LEMMA AddTurnTable ==
  ASSUME NEW x, turns \in Seq(Turn), draft[x] \in Turn, draft[x].word = None, AddTurn(x)
  PROVE  /\ Len(turns) \in Nat /\ Len(turns) < MaxTurns /\ Len(turns') = Len(turns) + 1
         /\ TellerOf' = [TellerOf EXCEPT ![Len(turns) + 1] = draft[x].teller]
         /\ WordOf' = WordOf
<1>1. /\ Len(turns) \in Nat /\ Len(turns') = Len(turns) + 1
      /\ DOMAIN turns = 1..Len(turns) /\ DOMAIN turns' = 1..(Len(turns) + 1)
      /\ \A i \in DOMAIN turns : turns'[i] = turns[i]
      /\ turns'[Len(turns) + 1] = draft[x]
  BY AddTurnFacts
<1>2. Len(turns) < MaxTurns
  BY DEF AddTurn
<1>3. DOMAIN turns' = DOMAIN turns \cup {Len(turns) + 1} /\ Len(turns) + 1 \notin DOMAIN turns
  BY <1>1
<1>4. \A t \in 1..MaxTurns :
        TellerOf'[t] = IF t = Len(turns) + 1 THEN draft[x].teller ELSE TellerOf[t]
  BY <1>1, <1>3 DEF TellerOf
<1>5. TellerOf' = [TellerOf EXCEPT ![Len(turns) + 1] = draft[x].teller]
  BY <1>4 DEF TellerOf
<1>6. \A t \in 1..MaxTurns : WordOf'[t] = WordOf[t]
  BY <1>1, <1>3 DEF WordOf
<1>7. WordOf' = WordOf
  BY <1>6 DEF WordOf
<1> QED
  BY <1>1, <1>2, <1>5, <1>7

LEMMA SetTurnWordTable ==
  ASSUME NEW i \in DOMAIN turns, NEW w \in Word, turns \in Seq(Turn), i \in 1..MaxTurns,
         SetTurnWord(i, w)
  PROVE  /\ Len(turns') = Len(turns) /\ TellerOf' = TellerOf
         /\ \/ WordOf' = WordOf
            \/ WordOf[i] = None /\ WordOf' = [WordOf EXCEPT ![i] = w]
<1>1. /\ Len(turns') = Len(turns)
      /\ DOMAIN turns' = DOMAIN turns
      /\ \A k \in DOMAIN turns :
           turns'[k] = IF k = i /\ turns[k].word = None
                       THEN [turns[k] EXCEPT !.word = w] ELSE turns[k]
      /\ \A k \in DOMAIN turns : turns'[k].teller = turns[k].teller
  BY SetTurnWordFacts
<1>2. \A k \in DOMAIN turns : turns[k] \in Turn
  BY LenProperties
<1>3. \A k \in DOMAIN turns :
        turns'[k].word = IF k = i /\ turns[k].word = None THEN w ELSE turns[k].word
  BY <1>1, <1>2 DEF Turn
<1>4. TellerOf' = TellerOf
  BY <1>1 DEF TellerOf
<1>5. CASE turns[i].word # None
  BY <1>1, <1>3, <1>4, <1>5 DEF WordOf
<1>6. CASE turns[i].word = None
  <2>1. \A t \in 1..MaxTurns : WordOf'[t] = IF t = i THEN w ELSE WordOf[t]
    BY <1>1, <1>3, <1>6 DEF WordOf
  <2>2. WordOf' = [WordOf EXCEPT ![i] = w]
    BY <2>1 DEF WordOf
  <2> QED
    BY <1>1, <1>4, <1>6, <2>2 DEF WordOf
<1> QED
  BY <1>5, <1>6

-----------------------------------------------------------------------------
(* The invariant *)

LEMMA TableInit == Init => TableInv
<1> SUFFICES ASSUME Init PROVE TableInv
  OBVIOUS
<1>1. DOMAIN players = {1} /\ players[1].user = Host
  BY DEF Init
<1>2. HostRow /\ TwoRows
  BY <1>1 DEF Init, HostRow, TwoRows, Counted
<1>3. DraftSeated
  BY DEF Init, DraftSeated
<1>4. Len(turns) <= MaxTurns
  BY RoomAssumption DEF Init
<1> QED
  BY <1>2, <1>3, <1>4 DEF TableInv

\* As many active players as a game needs have two rows between them.
LEMMA EnoughPlayers ==
  ASSUME players \in Seq(Row), ~(Cardinality(Active) < MinPlayers)
  PROVE  2 \in DOMAIN players
<1>1. DOMAIN players = 1..Len(players) /\ Len(players) \in Nat
  BY LenProperties
<1>2. IsFiniteSet(1..Len(players)) /\ Cardinality(1..Len(players)) = Len(players)
  BY <1>1, FS_Interval
<1>3. Cardinality(Active) \in Nat /\ Cardinality(Active) <= Len(players)
  BY <1>1, <1>2, FS_Subset, FS_CardinalityType DEF Active
<1> QED
  BY <1>1, <1>3, RoomAssumption

\* Two rows are two players, because the host has only one.
LEMMA TwoPlayers ==
  ASSUME HostRow, 2 \in DOMAIN players
  PROVE  \E u, v \in Seated : u # v
<1>1. players[1].user \in Seated /\ players[2].user \in Seated
  BY DEF HostRow, Seated
<1> QED
  BY <1>1 DEF HostRow

\* What newGameTurn reads makes a draft whose teller has a seat.
LEMMA ReadsSeatTeller ==
  ASSUME NEW x \in Joiner \cup Loop, TypeOK, HostRow, DraftSeated, UNCHANGED players,
         \/ ReadWords(x) \/ ErrNoWords \/ ErrNoPlayers(x)
         \/ ReadTeller(x) /\ DraftGood(x)
  PROVE  DraftSeated'
<1>1. UNCHANGED Seated
  BY SameRowsSameSeats
<1>2. draft \in [Joiner \cup Loop -> Turn \cup {None}]
  BY DEF TypeOK
<1>3. CASE ReadWords(x)
  <2>1. PICK opts \in Options :
          draft' = [draft EXCEPT ![x] = [teller |-> Host, options |-> opts, word |-> None]]
    BY <1>3 DEF ReadWords
  <2>2. Host \in Seated
    BY DEF HostRow, Seated
  <2> QED
    BY <1>1, <1>2, <2>1, <2>2 DEF DraftSeated
<1>4. CASE ReadTeller(x) /\ DraftGood(x)
  <2>1. PICK i \in Tellers : draft' = [draft EXCEPT ![x].teller = players[i].user]
    BY <1>4 DEF ReadTeller
  <2>2. players[i].user \in Seated
    BY DEF Tellers, Active, Seated
  <2>3. draft'[x].teller = players[i].user
    BY <1>2, <1>4, <2>1 DEF DraftGood, Turn
  <2>4. \A y \in Joiner \cup Loop : y # x => draft'[y] = draft[y]
    BY <1>2, <2>1
  <2> QED
    BY <1>1, <2>2, <2>3, <2>4 DEF DraftSeated
<1>5. CASE ErrNoWords
  BY <1>1, <1>5 DEF ErrNoWords, DraftSeated
<1>6. CASE ErrNoPlayers(x)
  BY <1>1, <1>2, <1>6 DEF ErrNoPlayers, DraftSeated
<1> QED
  BY <1>3, <1>4, <1>5, <1>6

\* A draft that is inserted or given up leaves the others as they are.
LEMMA ForgottenDraft ==
  ASSUME NEW x \in Joiner \cup Loop, TypeOK, DraftSeated,
         Seated \subseteq Seated', UNCHANGED draft \/ draft' = [draft EXCEPT ![x] = None]
  PROVE  DraftSeated'
  BY DEF TypeOK, DraftSeated

LEMMA JoinKeepsTableInv ==
  ASSUME RoomInv, TableInv, NEW j \in Joiner, JoinStep(j)
  PROVE  TableInv'
<1> USE DEF RoomInv, TableInv
<1>0. /\ joinPc \in [Joiner -> {"idle", "write", "check", "count", "words", "read", "add",
                               "start"}]
      /\ joinUser \in [Joiner -> User] /\ joinHow \in [Joiner -> {"add", "reactivate"}]
      /\ players \in Seq(Row) /\ turns \in Seq(Turn) /\ j \in Joiner \cup Loop
  BY DEF TypeOK
<1>1. ASSUME NEW u \in User, JoinRead(j, u) PROVE TableInv'
  <2>1. UNCHANGED <<players, turns, draft, handlerPc, Seated>>
    BY <1>1, SameRowsSameSeats DEF JoinRead, tableVars
  <2>2. joinHow'[j] = "add" => joinUser'[j] # Host
    BY <1>0, <1>1 DEF JoinRead, SeatBy, RowsOf, HostRow
  <2>3. HostRow'
    BY <1>0, <1>1, <2>1, <2>2 DEF HostRow, JoinRead, JoinGoto
  <2>4. TwoRows'
    BY <1>0, <1>1, <2>1 DEF TwoRows, Counted, JoinRead, JoinGoto
  <2>5. DraftSeated'
    BY <1>0, <2>1, ForgottenDraft
  <2> QED
    BY <2>1, <2>3, <2>4, <2>5
<1>2. CASE JoinWrite(j)
  <2>1. /\ UNCHANGED <<turns, draft, handlerPc>>
        /\ joinPc[j] = "write" /\ joinPc' = [joinPc EXCEPT ![j] = "check"]
        /\ joinUser' = [joinUser EXCEPT ![j] = Host]
    BY <1>2 DEF JoinWrite, JoinGoto
  <2>2. /\ \A i \in DOMAIN players' : players'[i].user = Host <=> i = 1
        /\ DOMAIN players \subseteq DOMAIN players' /\ Seated \subseteq Seated'
    <3>1. CASE joinHow[j] = "add"
      <4>1. joinUser[j] \in User /\ joinUser[j] # Host /\ AddPlayer(joinUser[j])
        BY <1>0, <1>2, <2>1, <3>1 DEF JoinWrite, HostRow
      <4>2. /\ DOMAIN players = 1..Len(players) /\ Len(players) \in Nat
            /\ DOMAIN players' = 1..(Len(players) + 1)
            /\ \A i \in DOMAIN players : players'[i] = players[i]
            /\ players'[Len(players) + 1] = [user |-> joinUser[j], active |-> TRUE]
        BY <1>0, <4>1, AddPlayerFacts
      <4>3. Seated' = Seated \cup {joinUser[j]}
        BY <1>0, <4>1, AddPlayerSeats
      <4>4. /\ DOMAIN players \subseteq DOMAIN players'
            /\ 1 \in DOMAIN players /\ Len(players) + 1 # 1
        BY <4>2 DEF HostRow
      <4>5. ASSUME NEW i \in DOMAIN players' PROVE players'[i].user = Host <=> i = 1
        <5>1. i \in DOMAIN players \/ i = Len(players) + 1
          BY <4>2
        <5>2. players'[Len(players) + 1].user = joinUser[j]
          BY <4>2
        <5> QED
          BY <4>1, <4>2, <4>4, <5>1, <5>2 DEF HostRow
      <4> QED
        BY <4>3, <4>4, <4>5
    <3>2. CASE joinHow[j] # "add"
      <4>1. joinUser[j] \in User /\ SetPlayerState(joinUser[j], TRUE)
        BY <1>0, <1>2, <3>2 DEF JoinWrite
      <4>2. DOMAIN players' = DOMAIN players
            /\ \A i \in DOMAIN players : players'[i].user = players[i].user
        BY <1>0, <4>1, SetPlayerStateFacts
      <4>3. Seated' = Seated
        BY <1>0, <4>1, ReactivateSeats
      <4> QED
        BY <4>2, <4>3 DEF HostRow
    <3> QED
      BY <3>1, <3>2
  <2>3. HostRow'
    BY <1>0, <1>2, <2>1, <2>2 DEF HostRow, JoinWrite
  <2>4. TwoRows'
    BY <1>0, <2>1, <2>2 DEF TwoRows, Counted
  <2>5. DraftSeated'
    BY <1>0, <2>1, <2>2, ForgottenDraft
  <2> QED
    BY <2>1, <2>3, <2>4, <2>5
<1>3. ASSUME JoinStep(j), ~JoinWrite(j), \A u \in User : ~JoinRead(j, u)
      PROVE  TableInv'
  <2>1. /\ UNCHANGED <<players, Seated, handlerPc>>
        /\ \/ UNCHANGED <<joinUser, joinHow>>
           \/ /\ joinUser' = [joinUser EXCEPT ![j] = Host]
              /\ joinHow' = [joinHow EXCEPT ![j] = "add"]
        /\ joinPc' \in {[joinPc EXCEPT ![j] = pc] :
                          pc \in {"idle", "count", "words", "read", "add", "start"}}
    BY <1>3, SameRowsSameSeats
    DEF JoinStep, JoinCheckRunning, JoinCount, JoinReadWords, JoinReadTeller, JoinAddTurn,
        JoinStart, JoinFails, JoinGoto, tableVars
  <2>2. HostRow'
    BY <1>0, <2>1 DEF HostRow
  <2>3. TwoRows'
    <3>1. CASE JoinCount(j)
      BY <1>0, <2>1, <3>1, EnoughPlayers DEF TwoRows, Counted, JoinCount, JoinGoto
    <3>2. CASE JoinReadWords(j) \/ JoinReadTeller(j)
      BY <1>0, <2>1, <3>2 DEF TwoRows, Counted, JoinReadWords, JoinReadTeller, JoinGoto
    <3>3. CASE JoinCheckRunning(j) \/ JoinAddTurn(j) \/ JoinStart(j) \/ JoinFails(j)
      BY <1>0, <2>1, <3>3
      DEF TwoRows, Counted, JoinCheckRunning, JoinAddTurn, JoinStart, JoinFails, JoinGoto
    <3> QED
      BY <1>3, <3>1, <3>2, <3>3 DEF JoinStep
  <2>4. DraftSeated'
    <3>1. CASE JoinReadWords(j)
      BY <1>0, <2>1, <3>1, ReadsSeatTeller DEF JoinReadWords
    <3>2. CASE JoinReadTeller(j)
      <4>1. DraftGood(j)
        BY <3>2 DEF DraftInv, JoinReadTeller, JoinGoto
      <4> QED
        BY <1>0, <2>1, <3>2, <4>1, ReadsSeatTeller DEF JoinReadTeller
    <3>3. CASE ~(JoinReadWords(j) \/ JoinReadTeller(j))
      BY <1>0, <1>3, <2>1, <3>3, ForgottenDraft
      DEF JoinStep, JoinCheckRunning, JoinCount, JoinAddTurn, AddTurn, JoinStart, JoinFails
    <3> QED
      BY <3>1, <3>2, <3>3
  <2>5. Len(turns') <= MaxTurns
    <3>1. CASE JoinAddTurn(j)
      <4>1. DraftGood(j) /\ AddTurn(j)
        BY <3>1 DEF DraftInv, JoinAddTurn, JoinGoto
      <4> QED
        BY <1>0, <4>1, AddTurnTable, RoomAssumption DEF DraftGood
    <3>2. CASE ~JoinAddTurn(j)
      BY <1>3, <3>2 DEF JoinStep, JoinCheckRunning, JoinCount, JoinReadWords, JoinReadTeller,
         JoinStart, JoinFails, tableVars
    <3> QED
      BY <3>1, <3>2
  <2> QED
    BY <2>2, <2>3, <2>4, <2>5
<1> QED
  BY <1>1, <1>2, <1>3

LEMMA HandlerKeepsTableInv ==
  ASSUME RoomInv, TableInv, NEW l \in Loop, HandlerStep(l)
  PROVE  TableInv'
<1> USE DEF RoomInv, TableInv
<1>0. /\ handlerPc \in [Loop -> {"count", "words", "read", "add", "rewords", "reread", "readd",
                                "stop", "done"}]
      /\ players \in Seq(Row) /\ turns \in Seq(Turn) /\ l \in Joiner \cup Loop
  BY DEF TypeOK
<1>1. UNCHANGED <<players, Seated, joinPc, joinUser, joinHow>>
  BY SameRowsSameSeats
  DEF HandlerStep, TurnEndCount, TurnEndReadWords, TurnEndReadTeller, TurnEndAddTurn,
      TurnEndStop, TurnEndReturn, TurnEndFails, tableVars, joinVars
<1>2. HostRow'
  BY <1>1 DEF HostRow
<1>3. TwoRows'
  <2>1. CASE TurnEndCount(l)
    BY <1>0, <1>1, <2>1, EnoughPlayers DEF TwoRows, Counted, TurnEndCount, HandlerGoto
  <2>2. CASE TurnEndReadWords(l)
    BY <1>0, <1>1, <2>2 DEF TwoRows, Counted, TurnEndReadWords, HandlerGoto
  <2>3. CASE TurnEndReadTeller(l)
    BY <1>0, <1>1, <2>3 DEF TwoRows, Counted, TurnEndReadTeller, HandlerGoto
  <2>4. CASE TurnEndFails(l)
    BY <1>0, <1>1, <2>4 DEF TwoRows, Counted, TurnEndFails, HandlerGoto
  <2>5. CASE TurnEndAddTurn(l) \/ TurnEndStop(l) \/ TurnEndReturn(l)
    BY <1>0, <1>1, <2>5
    DEF TwoRows, Counted, TurnEndAddTurn, TurnEndStop, TurnEndReturn, HandlerGoto
  <2> QED
    BY <2>1, <2>2, <2>3, <2>4, <2>5 DEF HandlerStep
<1>4. DraftSeated'
  <2>1. CASE TurnEndReadWords(l)
    BY <1>0, <1>1, <2>1, ReadsSeatTeller DEF TurnEndReadWords
  <2>2. CASE TurnEndReadTeller(l)
    <3>1. DraftGood(l)
      BY <2>2 DEF DraftInv, TurnEndReadTeller, HandlerGoto
    <3> QED
      BY <1>0, <1>1, <2>2, <3>1, ReadsSeatTeller DEF TurnEndReadTeller
  <2>3. CASE ~(TurnEndReadWords(l) \/ TurnEndReadTeller(l))
    BY <1>0, <1>1, <2>3, ForgottenDraft
    DEF HandlerStep, TurnEndCount, TurnEndAddTurn, AddTurn, TurnEndStop, TurnEndReturn,
        TurnEndFails
  <2> QED
    BY <2>1, <2>2, <2>3
<1>5. Len(turns') <= MaxTurns
  <2>1. CASE TurnEndAddTurn(l)
    <3>1. DraftGood(l) /\ AddTurn(l)
      BY <2>1 DEF DraftInv, TurnEndAddTurn, HandlerGoto
    <3> QED
      BY <1>0, <3>1, AddTurnTable, RoomAssumption DEF DraftGood
  <2>2. CASE ~TurnEndAddTurn(l)
    BY <2>2 DEF HandlerStep, TurnEndCount, TurnEndReadWords, TurnEndReadTeller, TurnEndStop,
       TurnEndReturn, TurnEndFails, tableVars
  <2> QED
    BY <2>1, <2>2
<1> QED
  BY <1>2, <1>3, <1>4, <1>5

\* A step of anybody else changes no draft; it may set a word or a player's state.
LEMMA OthersKeepTableInv ==
  ASSUME RoomInv, TableInv,
         \/ \E p \in Picker : PickStep(p)
         \/ \E u \in Leaver : LeaverStep(u)
         \/ UNCHANGED roomVars
  PROVE  TableInv'
<1> USE DEF RoomInv, TableInv
<1>0. players \in Seq(Row) /\ turns \in Seq(Turn)
  BY DEF TypeOK
<1>1. UNCHANGED <<draft, handlerPc, joinPc, joinUser, joinHow>>
  BY DEF PickStep, PickRead, PickWrite, PickFails, PickBegin, LeaverStep, Connect, Disconnect,
     KickCheck, KickWrite, KickFails, roomVars, joinVars
<1>2. Len(turns') = Len(turns)
  <2>1. ASSUME NEW p \in Picker, PickWrite(p) PROVE Len(turns') = Len(turns)
    <3>1. /\ pickTurn[p] \in DOMAIN turns /\ pickWord[p] \in Word
          /\ SetTurnWord(pickTurn[p], pickWord[p])
      BY <2>1 DEF PickInv, PickWrite
    <3> QED
      BY <1>0, <3>1, SetTurnWordFacts
  <2>2. CASE \A p \in Picker : ~PickWrite(p)
    BY <2>2 DEF PickStep, PickRead, PickFails, PickBegin, LeaverStep, Connect, Disconnect,
       KickCheck, KickWrite, KickFails, roomVars, tableVars
  <2> QED
    BY <2>1, <2>2
<1>3. /\ DOMAIN players' = DOMAIN players /\ Seated' = Seated
      /\ \A i \in DOMAIN players : players'[i].user = players[i].user
  <2>1. ASSUME NEW u \in Leaver, KickWrite(u)
        PROVE  /\ DOMAIN players' = DOMAIN players /\ Seated' = Seated
               /\ \A i \in DOMAIN players : players'[i].user = players[i].user
    <3>1. u \in User /\ SetPlayerState(u, FALSE)
      BY <2>1, RoomAssumption DEF KickWrite
    <3> QED
      BY <1>0, <3>1, SetPlayerStateFacts, DeactivateSeats
  <2>2. CASE \A u \in Leaver : ~KickWrite(u)
    <3>1. UNCHANGED players
      BY <2>2 DEF PickStep, PickRead, PickWrite, PickFails, PickBegin, LeaverStep, Connect,
         Disconnect, KickCheck, KickFails, roomVars, tableVars
    <3> QED
      BY <3>1, SameRowsSameSeats
  <2> QED
    BY <2>1, <2>2
<1>4. HostRow' /\ TwoRows' /\ DraftSeated'
  BY <1>1, <1>3 DEF HostRow, TwoRows, Counted, DraftSeated
<1> QED
  BY <1>2, <1>4

LEMMA TableInvAlways == Spec => [](RoomInv /\ TableInv)
<1>1. RoomInv /\ TableInv /\ [Next]_vars => TableInv'
  BY RoomMoves, JoinKeepsTableInv, HandlerKeepsTableInv, OthersKeepTableInv
<1> QED
  BY <1>1, TableInit, RoomInvAlways, PTL DEF Spec

-----------------------------------------------------------------------------
(* Step by step *)

LEMMA TableInitMaps == Init => Table!Init
<1> SUFFICES ASSUME Init PROVE Table!Init
  OBVIOUS
<1>1. /\ DOMAIN players = {1} /\ players[1].user = Host /\ players[1].active
      /\ turns = <<>>
  BY DEF Init
<1>2. ASSUME NEW u \in User
      PROVE  /\ Cardinality(RowsOf(u)) = IF u = Host THEN 1 ELSE 0
             /\ RowsOf(u) \cap Active = RowsOf(u)
  <2>1. RowsOf(u) = (IF u = Host THEN {1} ELSE {}) /\ Active = {1}
    BY <1>1 DEF RowsOf, Active
  <2> QED
    BY <2>1, FS_Singleton, FS_EmptySet
<1>4. RowCount = [u \in User |-> IF u = Host THEN 1 ELSE 0] /\ ActiveRowCount = RowCount
  BY <1>2 DEF RowCount, ActiveRowCount
<1>3. /\ Len(turns) = 0
      /\ TellerOf = [t \in 1..MaxTurns |-> None] /\ WordOf = [t \in 1..MaxTurns |-> None]
  BY <1>1 DEF TellerOf, WordOf
<1> QED
  BY <1>3, <1>4, RoomAssumption DEF Table!Init, Table!Turn

\* Most steps are not the last repository call of anything.
LEMMA TablesLeftAlone ==
  ASSUME UNCHANGED tableVars
  PROVE  UNCHANGED Table!vars
  BY SameRowsSameSeats, SameTurnsSameTable DEF tableVars, Table!vars

LEMMA AddTurnMaps ==
  ASSUME RoomInv, TableInv, NEW x \in Joiner \cup Loop, DraftGood(x), Counted,
         AddTurn(x), UNCHANGED players
  PROVE  Table!NewTurn
<1>1. turns \in Seq(Turn) /\ draft[x] \in Turn /\ draft[x].word = None
  BY DEF RoomInv, TypeOK, DraftGood
<1>2. /\ Len(turns) < MaxTurns /\ Len(turns') = Len(turns) + 1
      /\ TellerOf' = [TellerOf EXCEPT ![Len(turns) + 1] = draft[x].teller]
      /\ WordOf' = WordOf
  BY <1>1, AddTurnTable
<1>3. draft[x].teller \in Seated
  BY <1>1, NoneIsNoTurn DEF TableInv, DraftSeated
<1>4. \E u, v \in Seated : u # v
  BY TwoPlayers DEF TableInv, TwoRows
<1>5. UNCHANGED <<RowCount, ActiveRowCount>>
  BY SameRowsSameSeats
<1>6. Table!Seated = Seated
  BY SeatedCounted DEF RoomInv, TypeOK
<1> QED
  BY <1>2, <1>3, <1>4, <1>5, <1>6 DEF Table!NewTurn

LEMMA JoinWriteMaps ==
  ASSUME RoomInv, NEW j \in Joiner, JoinWrite(j)
  PROVE  Table!AddPlayer(joinUser[j]) \/ Table!Reactivate(joinUser[j])
<1>1. joinUser[j] \in User /\ players \in Seq(Row) /\ UNCHANGED turns
  BY DEF RoomInv, TypeOK, JoinWrite
<1>2. UNCHANGED <<Len(turns), TellerOf, WordOf>>
  BY <1>1, SameTurnsSameTable
<1>3. CASE joinHow[j] = "add"
  <2>1. AddPlayer(joinUser[j])
    BY <1>3 DEF JoinWrite
  <2> QED
    BY <1>1, <1>2, <2>1, AddPlayerRows DEF Table!AddPlayer
<1>4. CASE joinHow[j] # "add"
  <2>1. SetPlayerState(joinUser[j], TRUE)
    BY <1>4 DEF JoinWrite
  <2> QED
    BY <1>1, <1>2, <2>1, SetPlayerStateRows DEF Table!Reactivate
<1> QED
  BY <1>3, <1>4

LEMMA KickWriteMaps ==
  ASSUME RoomInv, NEW u \in Leaver, KickWrite(u)
  PROVE  Table!Kick(u)
<1>1. u \in User /\ players \in Seq(Row) /\ UNCHANGED turns /\ SetPlayerState(u, FALSE)
  BY RoomAssumption DEF RoomInv, TypeOK, KickWrite
<1>2. UNCHANGED <<Len(turns), TellerOf, WordOf>>
  BY <1>1, SameTurnsSameTable
<1> QED
  BY <1>1, <1>2, SetPlayerStateRows DEF Table!Kick

LEMMA PickWriteMaps ==
  ASSUME RoomInv, TableInv, NEW p \in Picker, PickWrite(p)
  PROVE  Table!PickWord \/ UNCHANGED Table!vars
<1>1. /\ turns \in Seq(Turn) /\ UNCHANGED players
      /\ pickTurn[p] \in DOMAIN turns /\ pickWord[p] \in Word
      /\ SetTurnWord(pickTurn[p], pickWord[p])
  BY DEF RoomInv, TypeOK, PickInv, PickWrite
<1>2. pickTurn[p] \in 1..Len(turns) /\ pickTurn[p] \in 1..MaxTurns
  <2>1. DOMAIN turns = 1..Len(turns) /\ Len(turns) \in Nat
    BY <1>1, LenProperties
  <2> QED
    BY <1>1, <2>1, RoomAssumption DEF TableInv
<1>3. /\ Len(turns') = Len(turns) /\ TellerOf' = TellerOf
      /\ \/ WordOf' = WordOf
         \/ /\ WordOf[pickTurn[p]] = None
            /\ WordOf' = [WordOf EXCEPT ![pickTurn[p]] = pickWord[p]]
  BY <1>1, <1>2, SetTurnWordTable
<1>4. UNCHANGED <<RowCount, ActiveRowCount>>
  BY <1>1, SameRowsSameSeats
<1> QED
  BY <1>1, <1>2, <1>3, <1>4 DEF Table!PickWord, Table!vars

\* Every step of the room is a step of the tables or leaves them alone.
LEMMA TableStepOrStutter ==
  ASSUME RoomInv, TableInv, [Next]_vars
  PROVE  [Table!Next]_(Table!vars)
<1>1. ASSUME NEW j \in Joiner, JoinStep(j) PROVE Table!Next \/ UNCHANGED Table!vars
  <2>1. CASE JoinWrite(j)
    <3>1. joinUser[j] \in User
      BY DEF RoomInv, TypeOK
    <3> QED
      BY <2>1, <3>1, JoinWriteMaps DEF Table!Next
  <2>2. CASE JoinAddTurn(j)
    <3>1. joinPc[j] = "add" /\ AddTurn(j) /\ UNCHANGED players
      BY <2>2 DEF JoinAddTurn, JoinGoto
    <3>2. DraftGood(j) /\ Counted
      BY <3>1 DEF RoomInv, DraftInv, Counted
    <3> QED
      BY <3>1, <3>2, AddTurnMaps DEF Table!Next
  <2>3. CASE ~(JoinWrite(j) \/ JoinAddTurn(j))
    <3>1. UNCHANGED tableVars
      BY <1>1, <2>3 DEF JoinStep, JoinRead, JoinCheckRunning, JoinCount, JoinReadWords,
         JoinReadTeller, JoinStart, JoinFails
    <3> QED
      BY <3>1, TablesLeftAlone
  <2> QED
    BY <2>1, <2>2, <2>3
<1>2. ASSUME NEW l \in Loop, HandlerStep(l) PROVE Table!Next \/ UNCHANGED Table!vars
  <2>1. CASE TurnEndAddTurn(l)
    <3>1. handlerPc[l] \in {"add", "readd"} /\ AddTurn(l) /\ UNCHANGED players
      BY <2>1 DEF TurnEndAddTurn, HandlerGoto
    <3>2. DraftGood(l) /\ Counted
      BY <3>1 DEF RoomInv, DraftInv, Counted
    <3> QED
      BY <3>1, <3>2, AddTurnMaps DEF Table!Next
  <2>2. CASE ~TurnEndAddTurn(l)
    <3>1. UNCHANGED tableVars
      BY <1>2, <2>2 DEF HandlerStep, TurnEndCount, TurnEndReadWords, TurnEndReadTeller,
         TurnEndStop, TurnEndReturn, TurnEndFails
    <3> QED
      BY <3>1, TablesLeftAlone
  <2> QED
    BY <2>1, <2>2
<1>3. ASSUME NEW p \in Picker, PickStep(p) PROVE Table!Next \/ UNCHANGED Table!vars
  <2>1. CASE PickWrite(p)
    BY <2>1, PickWriteMaps DEF Table!Next
  <2>2. CASE ~PickWrite(p)
    <3>1. UNCHANGED tableVars
      BY <1>3, <2>2 DEF PickStep, PickRead, PickFails, PickBegin
    <3> QED
      BY <3>1, TablesLeftAlone
  <2> QED
    BY <2>1, <2>2
<1>4. ASSUME NEW u \in Leaver, LeaverStep(u) PROVE Table!Next \/ UNCHANGED Table!vars
  <2>1. CASE KickWrite(u)
    BY <2>1, KickWriteMaps, RoomAssumption DEF Table!Next
  <2>2. CASE ~KickWrite(u)
    <3>1. UNCHANGED tableVars
      BY <1>4, <2>2 DEF LeaverStep, Connect, Disconnect, KickCheck, KickFails
    <3> QED
      BY <3>1, TablesLeftAlone
  <2> QED
    BY <2>1, <2>2
<1>5. CASE UNCHANGED roomVars
  BY <1>5, TablesLeftAlone DEF roomVars
<1> QED
  BY <1>1, <1>2, <1>3, <1>4, <1>5, RoomMoves

\* Whatever requests, kicks and turn-end handlers race, the tables change as TurnTable.tla
\* says, so that what is proved of guesses and pages beside those steps holds in the room
\* (joingame.go:43-69, emojix.go:118, :475-502, :725-766, sqlite.go:212-234, :353-388).
THEOREM TablesAsPromisedAlways == Spec => TablesAsPromised
<1>1. RoomInv /\ TableInv /\ [Next]_vars => [Table!Next]_(Table!vars)
  BY TableStepOrStutter
<1> QED
  BY <1>1, TableInitMaps, TableInvAlways, PTL DEF Spec, TablesAsPromised, Table!Spec

-----------------------------------------------------------------------------
(* By how much joins that race can overbook a room *)

\* Joins that have passed the check and not written yet.
Pending == {j \in Joiner : joinPc[j] = "write"}

\* Each of them may still seat one player more.
OverbookedInv ==
  /\ IsFiniteSet(ActiveUsers)
  /\ Cardinality(ActiveUsers) + Cardinality(Pending) + 1 <= Capacity + Cardinality(Joiner)

LEMMA PendingFinite ==
  ASSUME IsFiniteSet(Joiner)
  PROVE  /\ IsFiniteSet(Pending) /\ Cardinality(Pending) \in Nat
         /\ Cardinality(Joiner) \in Nat /\ Cardinality(Pending) <= Cardinality(Joiner)
<1>1. Pending \in SUBSET Joiner
  BY DEF Pending
<1> QED
  BY <1>1, FS_Subset, FS_CardinalityType

\* There are no more active players than active rows.
LEMMA ActiveUsersCounted ==
  ASSUME players \in Seq(Row)
  PROVE  /\ IsFiniteSet(ActiveUsers) /\ Cardinality(ActiveUsers) \in Nat
         /\ Cardinality(Active) \in Nat /\ Cardinality(ActiveUsers) <= Cardinality(Active)
<1> DEFINE f == [i \in Active |-> players[i].user]
<1>1. IsFiniteSet(Active)
  <2>1. DOMAIN players = 1..Len(players) /\ Len(players) \in Nat
    BY LenProperties
  <2>2. IsFiniteSet(1..Len(players)) /\ Active \in SUBSET (1..Len(players))
    BY <2>1, FS_Interval DEF Active
  <2> QED
    BY <2>2, FS_Subset
<1>2. f \in Surjection(Active, ActiveUsers)
  BY DEF Surjection, ActiveUsers
<1> HIDE DEF f
<1>3. IsFiniteSet(ActiveUsers) /\ Cardinality(ActiveUsers) <= Cardinality(Active)
  BY <1>1, <1>2, FS_Surjection
<1> QED
  BY <1>1, <1>3, FS_CardinalityType

LEMMA OverbookedStep ==
  ASSUME IsFiniteSet(Joiner), RoomInv, OverbookedInv, [Next]_vars
  PROVE  OverbookedInv'
<1> USE DEF OverbookedInv
<1>0. /\ players \in Seq(Row) /\ joinPc \in [Joiner -> {"idle", "write", "check", "count",
                                                     "words", "read", "add", "start"}]
      /\ Capacity \in Nat /\ Cardinality(ActiveUsers) \in Nat
  BY RoomAssumption, ActiveUsersCounted DEF RoomInv, TypeOK
<1>1. ASSUME NEW j \in Joiner, NEW u \in User, JoinRead(j, u) PROVE OverbookedInv'
  <2>1. UNCHANGED ActiveUsers
    BY <1>1, SameRowsSameSeats DEF JoinRead, tableVars
  <2>2. Cardinality(ActiveUsers) < Capacity
    BY <1>0, <1>1, ActiveUsersCounted DEF JoinRead, HasRoom
  <2>3. Cardinality(Pending)' \in Nat /\ Cardinality(Pending)' <= Cardinality(Joiner)
        /\ Cardinality(Joiner) \in Nat
    <3>1. Pending' \in SUBSET Joiner
      BY DEF Pending
    <3> QED
      BY <3>1, FS_Subset, FS_CardinalityType
  <2> QED
    BY <1>0, <2>1, <2>2, <2>3
<1>2. ASSUME NEW j \in Joiner, JoinWrite(j) PROVE OverbookedInv'
  <2>1. Pending' = Pending \ {j} /\ j \in Pending
    BY <1>0, <1>2 DEF JoinWrite, JoinGoto, Pending
  <2>2. IsFiniteSet(Pending') /\ Cardinality(Pending') = Cardinality(Pending) - 1
    BY <2>1, PendingFinite, FS_RemoveElement
  <2>3. ActiveUsers' = ActiveUsers \cup {joinUser[j]} \/ ActiveUsers' = ActiveUsers
    <3>1. joinUser[j] \in User
      BY DEF RoomInv, TypeOK
    <3>2. AddPlayer(joinUser[j]) \/ SetPlayerState(joinUser[j], TRUE)
      BY <1>2 DEF JoinWrite
    <3> QED
      BY <1>0, <3>1, <3>2, AddPlayerSeats, ReactivateSeats
  <2>4. /\ IsFiniteSet(ActiveUsers') /\ Cardinality(ActiveUsers') \in Nat
        /\ Cardinality(ActiveUsers') <= Cardinality(ActiveUsers) + 1
    <3>1. CASE ActiveUsers' = ActiveUsers \cup {joinUser[j]}
      <4>1. IsFiniteSet(ActiveUsers')
        BY <3>1, FS_AddElement
      <4>2. \/ Cardinality(ActiveUsers') = Cardinality(ActiveUsers)
            \/ Cardinality(ActiveUsers') = Cardinality(ActiveUsers) + 1
        BY <3>1, FS_AddElement
      <4> QED
        BY <1>0, <4>1, <4>2
    <3>2. CASE ActiveUsers' = ActiveUsers
      BY <1>0, <3>2
    <3> QED
      BY <2>3, <3>1, <3>2
  <2> QED
    BY <1>0, <2>2, <2>4, PendingFinite
<1>3. CASE /\ \A j \in Joiner : ~JoinWrite(j)
           /\ \A j \in Joiner, u \in User : ~JoinRead(j, u)
  <2>1. Pending' \subseteq Pending
    <3>1. ASSUME NEW j \in Joiner, JoinStep(j) PROVE Pending' \subseteq Pending
      <4>1. \E pc \in {"idle", "check", "count", "words", "read", "add", "start"} :
              joinPc' = [joinPc EXCEPT ![j] = pc]
        BY <1>3, <3>1
        DEF JoinStep, JoinCheckRunning, JoinCount, JoinReadWords, JoinReadTeller, JoinAddTurn,
            JoinStart, JoinFails, JoinGoto
      <4> QED
        BY <1>0, <4>1 DEF Pending
    <3>2. ASSUME NEW l \in Loop, HandlerStep(l) PROVE UNCHANGED joinPc
      BY <3>2 DEF HandlerStep, TurnEndCount, TurnEndReadWords, TurnEndReadTeller,
         TurnEndAddTurn, TurnEndStop, TurnEndReturn, TurnEndFails, joinVars
    <3>3. CASE \/ \E p \in Picker : PickStep(p)
               \/ \E u \in Leaver : LeaverStep(u)
               \/ UNCHANGED roomVars
      <4>1. UNCHANGED joinPc
        BY <3>3 DEF PickStep, PickRead, PickWrite, PickFails, PickBegin, LeaverStep, Connect,
           Disconnect, KickCheck, KickWrite, KickFails, roomVars, joinVars
      <4> QED
        BY <4>1 DEF Pending
    <3> QED
      BY <3>1, <3>2, <3>3, RoomMoves DEF Pending
  <2>2. ActiveUsers' \subseteq ActiveUsers
    <3>1. ASSUME NEW u \in Leaver, KickWrite(u) PROVE ActiveUsers' \subseteq ActiveUsers
      <4>1. u \in User /\ SetPlayerState(u, FALSE)
        BY <3>1, RoomAssumption DEF KickWrite
      <4> QED
        BY <1>0, <4>1, DeactivateSeats
    <3>2. CASE \A u \in Leaver : ~KickWrite(u)
      <4>1. UNCHANGED players
        BY <1>3, <3>2, RoomMoves
        DEF JoinStep, JoinCheckRunning, JoinCount, JoinReadWords, JoinReadTeller,
            JoinAddTurn, JoinStart, JoinFails, HandlerStep, TurnEndCount,
            TurnEndReadWords, TurnEndReadTeller, TurnEndAddTurn, TurnEndStop, TurnEndReturn,
            TurnEndFails, PickStep, PickRead, PickWrite, PickFails, PickBegin, LeaverStep,
            Connect, Disconnect, KickCheck, KickFails, roomVars, tableVars
      <4> QED
        BY <4>1, SameRowsSameSeats
    <3> QED
      BY <3>1, <3>2
  <2>3. /\ IsFiniteSet(Pending) /\ Cardinality(Pending) \in Nat
        /\ Cardinality(Pending') \in Nat /\ Cardinality(Pending') <= Cardinality(Pending)
    BY <2>1, PendingFinite, FS_Subset, FS_CardinalityType
  <2>4. /\ IsFiniteSet(ActiveUsers') /\ Cardinality(ActiveUsers') \in Nat
        /\ Cardinality(ActiveUsers') <= Cardinality(ActiveUsers)
    BY <2>2, FS_Subset, FS_CardinalityType
  <2> QED
    BY <1>0, <2>3, <2>4, PendingFinite
<1> QED
  BY <1>1, <1>2, <1>3

\* Whatever joins race with whatever kicks, a room is overbooked by at most one player for
\* each join in flight beside the first (joingame.go:57-65).
THEOREM OverbookedByRacesOnlyAlways == Spec => []OverbookedByRacesOnly
<1> DEFINE Races == IsFiniteSet(Joiner) /\ Joiner # {}
           Inv == Races => OverbookedInv
<1>1. Init => Inv
  <2> SUFFICES ASSUME Init, IsFiniteSet(Joiner), Joiner # {} PROVE OverbookedInv
    OBVIOUS
  <2>1. ActiveUsers \in SUBSET {Host} /\ Pending = {}
    <3>1. players = <<[user |-> Host, active |-> TRUE]>> /\ joinPc = [j \in Joiner |-> "idle"]
      BY DEF Init
    <3>2. DOMAIN players = {1} /\ players[1].user = Host
      BY <3>1
    <3> QED
      BY <3>1, <3>2 DEF Active, ActiveUsers, Pending
  <2>2. IsFiniteSet(ActiveUsers) /\ Cardinality(ActiveUsers) <= 1
    <3>1. IsFiniteSet({Host}) /\ Cardinality({Host}) = 1
      BY FS_Singleton
    <3> QED
      BY <2>1, <3>1, FS_Subset
  <2>3. Cardinality(Joiner) \in Nat /\ Cardinality(Joiner) # 0
    BY FS_CardinalityType, FS_EmptySet
  <2> QED
    BY <2>1, <2>2, <2>3, FS_EmptySet, FS_CardinalityType, RoomAssumption DEF OverbookedInv
<1>2. RoomInv /\ Inv /\ [Next]_vars => Inv'
  BY OverbookedStep
<1>3. RoomInv /\ Inv => OverbookedByRacesOnly
  <2> SUFFICES ASSUME RoomInv, IsFiniteSet(Joiner), Joiner # {}, OverbookedInv
               PROVE  Cardinality(ActiveUsers) <= Capacity + (Cardinality(Joiner) - 1)
    BY DEF OverbookedByRacesOnly
  <2>1. Cardinality(ActiveUsers) \in Nat
    BY FS_CardinalityType DEF OverbookedInv
  <2> QED
    BY <2>1, PendingFinite, RoomAssumption DEF OverbookedInv
<1> QED
  BY <1>1, <1>2, <1>3, RoomInvAlways, PTL DEF Spec
=============================================================================
