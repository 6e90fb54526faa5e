------------------------------- MODULE Stream -------------------------------
(***************************************************************************)
(* The streams of one game and who publishes on them:                      *)
(* service/gamenotifier.go, the Sse handler of server.go with the          *)
(* goroutine it leaves behind, and GameUpdates, KickInactiveUser and       *)
(* onTurnEnd of usecase/emojix.go.                                         *)
(*                                                                         *)
(* A subscription has an unbuffered channel, so a send is one step of the  *)
(* publisher and of the connection that receives; it blocks while nobody   *)
(* does.  The connection's handler then writes to the client and flushes,  *)
(* with no timeout, before the connection is back at its select: a client  *)
(* that does not read holds it there, and holds up the publishers whose    *)
(* next send is to it.  Pub and PubAll send to a copy of the list of       *)
(* subscriptions: a connection that has left its loop never receives       *)
(* again, and the publisher that reaches it in its copy stays there.       *)
(*                                                                         *)
(* Publishers are the loop's goroutine (onTurnEnd calls PubAll itself) and *)
(* goroutines that requests and kicks start with `go` and do not wait for. *)
(* Joins and the loop have here as much detail as decides when they        *)
(* publish; see Room.tla.                                                  *)
(***************************************************************************)
EXTENDS Naturals, FiniteSets, MsgCodec

CONSTANTS
  User,        \* players
  Sender,      \* bound: those whose requests publish
  Conn,        \* bound: Sse requests, each of them served once
  Poster,      \* goroutines that requests and kicks start to publish
  LoopPub,     \* the loop's goroutine as a publisher
  Char,        \* characters
  Content,     \* what chat lines say: sequences of characters
  Name,        \* every id and nickname: hexadecimal digits, an adjective and an animal
  MinPlayers,  \* minPlayersToStart, 2 in the code
  None

Publisher == {LoopPub} \cup Poster

ASSUME StreamAssumption ==
  /\ LoopPub \notin Poster
  /\ None \notin User /\ User # {} /\ Sender \subseteq User
  /\ MinPlayers \in Nat
  /\ Content \subseteq Seq(Char) /\ Name \in Seq(Char \ {Comma})

VARIABLES
  subs,      \* gameNotifier.subs: the connections subscribed, oldest first
  active,    \* the users whose player row is active
  connPc,    \* where the request, and then its kick goroutine, is
  connUser,  \* the user of its cookie
  gone,      \* connections whose client went away: ctx.Done()
  heard,     \* the last of the loop's notifications a connection's handler was given
  loopPc,    \* the turn and the steps of onTurnEnd
  todo,      \* the subscriptions each publisher still has to send to
  note       \* what it sends them

connVars == <<connPc, connUser, gone, heard>>
pubVars == <<todo, note>>
vars == <<subs, active, connVars, loopPc, pubVars>>

Chat(text, system) == [kind |-> "chat", content |-> text, system |-> system]
Event(kind) == [kind |-> kind]

\* Lines of players, and the one GotItMessage makes of a nickname.
Chats == {Chat(text, FALSE) : text \in Content} \cup {Chat(Name, TRUE)}
TurnEnded == Event("turnended")
NewTurn == Event("newturn")
Other == Event("other")   \* left, join, guessed, wordpicked: sent on as they are
Notes == Chats \cup {TurnEnded, NewTurn, Other}

ASSUME NoneIsNoNote == None \notin Notes

\* "select" and "write", its handler, are the loop of GameUpdates, "leave" is what that
\* defers, "sleep" and "kick" the goroutine that is left; "failed" is a kick whose update
\* failed.
ConnPc == {"free", "select", "write", "leave", "sleep", "kick", "failed", "done"}

\* "turn" is everything but the handler; the others are steps of onTurnEnd.
LoopPc == {"off", "turn", "ended", "wait", "seat", "new"}

TypeOK ==
  /\ subs \in Seq(Conn)
  /\ active \subseteq User
  /\ connPc \in [Conn -> ConnPc]
  /\ connUser \in [Conn -> User \cup {None}]
  /\ \A c \in Conn : connPc[c] \in {"free", "done"} \/ connUser[c] # None
  /\ gone \subseteq Conn
  /\ heard \in [Conn -> {TurnEnded, NewTurn, None}]
  /\ loopPc \in LoopPc
  /\ todo \in [Publisher -> Seq(Conn)]
  /\ note \in [Publisher -> Notes \cup {None}]
  /\ \A p \in Publisher : todo[p] # <<>> => note[p] # None

\* The host has joined and nobody has opened the page yet.
Init ==
  /\ subs = <<>>
  /\ \E host \in User : active = {host}
  /\ connPc = [c \in Conn |-> "free"]
  /\ connUser = [c \in Conn |-> None]
  /\ gone = {}
  /\ heard = [c \in Conn |-> None]
  /\ loopPc = "off"
  /\ todo = [p \in Publisher |-> <<>>]
  /\ note = [p \in Publisher |-> None]

\* A connection that receives from its channel.
Reading(c) == connPc[c] = "select"

\* One that is in the loop of GameUpdates.
Open(c) == Reading(c) \/ connPc[c] = "write"

-----------------------------------------------------------------------------
(* The notifier *)

\* Subs: the users with a subscription.
Subs == {connUser[subs[i]] : i \in DOMAIN subs}

\* Pub and PubAll up to the first send: the list of those to send to is made.
Begin(p, targets, n) ==
  /\ todo' = [todo EXCEPT ![p] = targets]
  /\ note' = [note EXCEPT ![p] = IF targets = <<>> THEN None ELSE n]

\* The targets of Pub: all but the subscriptions of user u.
Others(u) ==
  LET Target(targets, c) == IF connUser[c] = u THEN targets ELSE Append(targets, c)
  IN  FoldLeft(Target, <<>>, subs)

\* PubAll sends to everybody.
PubAll(p, n) == Begin(p, subs, n)
Pub(p, u, n) == Begin(p, Others(u), n)

\* A goroutine publishes for a request or a kick: a chat line or another event to
\* everybody else, or an event to all.
Post(p) ==
  /\ todo[p] = <<>>
  /\ \/ \E u \in Sender, n \in Chats \cup {Other} : Pub(p, u, n)
     \/ PubAll(p, Other)
  /\ UNCHANGED <<subs, active, connVars, loopPc>>

-----------------------------------------------------------------------------
(* The Sse handler *)

ConnGoto(c, from, to) ==
  /\ connPc[c] = from
  /\ connPc' = [connPc EXCEPT ![c] = to]

\* The init event is flushed and GameUpdates subscribes, whoever asks ("TODO: validate").
Connect(c, u) ==
  /\ ConnGoto(c, "free", "select")
  /\ connUser' = [connUser EXCEPT ![c] = u]
  /\ subs' = Append(subs, c)
  /\ UNCHANGED <<active, gone, heard, loopPc, pubVars>>

\* The init event cannot be flushed: the handler returns, and no kick follows.
ConnectFails(c, u) ==
  /\ ConnGoto(c, "free", "done")
  /\ UNCHANGED <<subs, active, connUser, gone, heard, loopPc, pubVars>>

\* The client goes away.
GoAway(c) ==
  /\ Open(c)
  /\ gone' = gone \cup {c}
  /\ UNCHANGED <<subs, active, connPc, connUser, heard, loopPc, pubVars>>

Message(n) ==
  [user |-> Name, nickname |-> Name, content |-> n.content, system |-> n.system]

\* What the handler returns an error for, ParseData's.
ParseError == {n \in Chats : ~Parses(GetData(Message(n)))}

\* Seeded fault: the kick is scheduled on a clean return only.
FailUnkicked(c, from) ==
  /\ ConnGoto(c, from, "done")
  /\ subs' = SelectSeq(subs, LAMBDA d : d # c)

\* The handler's error ends GameUpdates.
Fail(c, from) == ConnGoto(c, from, "leave") /\ UNCHANGED subs

\* Seeded fault: the publisher does not go on to the next subscription.
KeepSending(p) == UNCHANGED pubVars

\* The publisher goes on with the rest of its list.
Advance(p) ==
  /\ todo' = [todo EXCEPT ![p] = Tail(@)]
  /\ note' = [note EXCEPT ![p] = IF Len(todo[p]) = 1 THEN None ELSE @]

\* A send meets the select of the next connection on the list, whose handler takes the
\* notification apart and goes on to write it, or fails.
Send(p) ==
  /\ todo[p] # <<>>
  /\ LET c == Head(todo[p])
     IN  /\ \/ note[p] \notin ParseError /\ ConnGoto(c, "select", "write") /\ UNCHANGED subs
            \/ note[p] \in ParseError /\ Fail(c, "select")
         /\ heard' = [heard EXCEPT ![c] = IF p = LoopPub THEN note[p] ELSE @]
  /\ Advance(p)
  /\ UNCHANGED <<active, connUser, gone, loopPc>>

\* The write and its flush return, when the client has taken what was written.  With the
\* client gone they fail, or leave the data to a connection that still seems open.
Write(c) ==
  /\ \/ ConnGoto(c, "write", "select") /\ UNCHANGED subs
     \/ c \in gone /\ Fail(c, "write")
  /\ UNCHANGED <<active, connUser, gone, heard, loopPc, pubVars>>

\* The other case of the select.
ConnDone(c) ==
  /\ ConnGoto(c, "select", "leave")
  /\ c \in gone
  /\ UNCHANGED <<subs, active, connUser, gone, heard, loopPc, pubVars>>

\* Seeded faults: every subscription of the user is removed; the list stays
\* locked while a publisher sends.
CleanupUser(c) ==
  /\ ConnGoto(c, "leave", "sleep")
  /\ subs' = SelectSeq(subs, LAMBDA d : connUser[d] # connUser[c])
  /\ gone' = gone \ {c}
  /\ heard' = [heard EXCEPT ![c] = None]
  /\ UNCHANGED <<active, connUser, loopPc, pubVars>>
CleanupLocked(c) ==
  /\ ConnGoto(c, "leave", "sleep")
  /\ \A p \in Publisher : todo[p] = <<>>
  /\ subs' = SelectSeq(subs, LAMBDA d : d # c)
  /\ gone' = gone \ {c}
  /\ heard' = [heard EXCEPT ![c] = None]
  /\ UNCHANGED <<active, connUser, loopPc, pubVars>>

\* The deferred cleanup removes the one subscription with this id, and the kick is
\* scheduled.
Cleanup(c) ==
  /\ ConnGoto(c, "leave", "sleep")
  /\ \E i \in DOMAIN subs : subs[i] = c /\ subs' = RemoveAt(subs, i)
  /\ gone' = gone \ {c}
  /\ heard' = [heard EXCEPT ![c] = None]
  /\ UNCHANGED <<active, connUser, loopPc, pubVars>>

\* KickInactiveUser after the delay: a user with a subscription stays.
KickCheck(c) ==
  /\ ConnGoto(c, "sleep", IF connUser[c] \in Subs THEN "done" ELSE "kick")
  /\ UNCHANGED <<subs, active, connUser, gone, heard, loopPc, pubVars>>

\* SetPlayerState, which may fail; a goroutine will tell the others either way (Post).
KickWrite(c) ==
  /\ \/ ConnGoto(c, "kick", "done") /\ active' = active \ {connUser[c]}
     \/ ConnGoto(c, "kick", "failed") /\ UNCHANGED active
  /\ UNCHANGED <<subs, connUser, gone, heard, loopPc, pubVars>>

-----------------------------------------------------------------------------
(* The turn and onTurnEnd *)

\* JoinGame; tryStartGame starts the loop of a game that has none.
JoinGame(u) ==
  /\ u \notin active
  /\ active' = active \cup {u}
  /\ loopPc' = IF loopPc = "off" /\ Cardinality(active') >= MinPlayers THEN "turn"
               ELSE loopPc
  /\ UNCHANGED <<subs, connVars, pubVars>>

\* A turn ends and onTurnEnd says so to everybody.
TurnEndPublish ==
  /\ loopPc = "turn" /\ loopPc' = "ended"
  /\ PubAll(LoopPub, TurnEnded)
  /\ UNCHANGED <<subs, active, connVars>>

\* PubAll has returned: the five seconds.
\* Seeded fault: onTurnEnd publishes with `go` and does not wait for it.
TurnEndWaitAsync ==
  /\ loopPc = "ended" /\ loopPc' = "wait"
  /\ UNCHANGED <<subs, active, connVars, pubVars>>
TurnEndWait ==
  /\ loopPc = "ended" /\ todo[LoopPub] = <<>> /\ loopPc' = "wait"
  /\ UNCHANGED <<subs, active, connVars, pubVars>>

\* Enough players are active.
TurnEndCount ==
  /\ loopPc = "wait" /\ loopPc' = "seat"
  /\ Cardinality(active) >= MinPlayers
  /\ UNCHANGED <<subs, active, connVars, pubVars>>

\* Too few players, no words or a failing repository: the game is stopped.
TurnEndStop ==
  /\ loopPc \in {"wait", "seat"} /\ loopPc' = "off"
  /\ UNCHANGED <<subs, active, connVars, pubVars>>

\* newGameTurn has seated the next teller, and everybody is told.
TurnEndNewTurn ==
  /\ loopPc = "seat" /\ loopPc' = "new"
  /\ PubAll(LoopPub, NewTurn)
  /\ UNCHANGED <<subs, active, connVars>>

\* PubAll has returned, and so does onTurnEnd.
TurnEndReturn ==
  /\ loopPc = "new" /\ todo[LoopPub] = <<>> /\ loopPc' = "turn"
  /\ UNCHANGED <<subs, active, connVars, pubVars>>

-----------------------------------------------------------------------------
LeaveStep(c) == ConnDone(c) \/ Cleanup(c) \/ KickCheck(c) \/ KickWrite(c)
LoopStep ==
  \/ TurnEndPublish \/ TurnEndWait \/ TurnEndCount \/ TurnEndStop
  \/ TurnEndNewTurn \/ TurnEndReturn

Next ==
  \/ \E p \in Publisher : Send(p)
  \/ \E p \in Poster : Post(p)
  \/ \E c \in Conn, u \in User : Connect(c, u) \/ ConnectFails(c, u)
  \/ \E c \in Conn : Write(c) \/ GoAway(c) \/ LeaveStep(c)
  \/ \E u \in User : JoinGame(u)
  \/ LoopStep

\* Goroutines that can run do run.  The senders blocked on a channel are served in their
\* order, and a select between one of them and a context that is done takes the latter at
\* some time, however often the connection is away writing.  A write to a client that is
\* gone returns; of a client that is not, nothing is assumed: the server has no write
\* timeout.
FairSpec ==
  /\ Init /\ [][Next]_vars
  /\ \A p \in Publisher : SF_vars(Send(p))
  /\ \A c \in Conn :
       /\ SF_vars(ConnDone(c)) /\ WF_vars(LeaveStep(c))
       /\ WF_vars(c \in gone /\ Write(c))
  /\ WF_vars(LoopStep)

\* Every client reads what it is sent.
ReadersSpec == FairSpec /\ \A c \in Conn : WF_vars(Write(c))
-----------------------------------------------------------------------------
(* What the streams promise *)

\* The list holds each connection that has subscribed and not been cleaned up
\* once, whoever else of the same user comes and goes: a second tab keeps its
\* subscription, and its user is not kicked, when the first is closed
\* (gamenotifier.go:81-97).
ReaderSubscribed ==
  /\ \A i, j \in DOMAIN subs : subs[i] = subs[j] => i = j
  /\ {subs[i] : i \in DOMAIN subs} = {c \in Conn : Open(c) \/ connPc[c] = "leave"}

\* When onTurnEnd goes on, no open page is left at an earlier step of the game: whoever
\* has been given anything by the loop has been given the last thing it published, and
\* has written it or is about to, although other publishers send to the same channels
\* (emojix.go:689, :722).
NobodyLeftBehind ==
  \A c \in Conn : Open(c) /\ heard[c] # None =>
    /\ loopPc \in {"wait", "seat"} => heard[c] = TurnEnded
    /\ loopPc = "new" /\ todo[LoopPub] = <<>> => heard[c] = NewTurn

\* A chat line without a comma, system line or not, is shown to every reader as it
\* was published and ends no reader's stream (emojix.go:518-538, server.go:444-470).
ShownAsSent ==
  \A p \in Publisher : note[p] \in Chats =>
    LET msg == Message(note[p])
    IN  ~Contains(msg.content, Comma) =>
          Parses(GetData(msg)) /\ ParseData(GetData(msg)) = msg

\* A player whose stream ends, because the client is gone or a handler failed and
\* whatever publishers are doing then, is kicked or has connected again, unless the
\* kick's own update fails (server.go:477-491, emojix.go:113-123).
Ended(c) == connPc[c] \in {"sleep", "kick", "failed", "done"}
AbsentPlayerKicked ==
  \A c \in Conn :
    (c \in gone \/ connPc[c] = "leave") ~>
      \/ Ended(c) /\ (connUser[c] \in Subs \/ connUser[c] \notin active)
      \/ connPc[c] = "failed"

\* What keeps publisher p at connection c: its client takes nothing of what is written, or
\* it has left its loop since the list was copied.
HeldUp(p, c) ==
  /\ todo[p] # <<>> /\ Head(todo[p]) = c
  /\ ~Reading(c) /\ (connPc[c] = "write" => c \notin gone)

\* A publisher, the loop among them, sends to everybody on its list unless one connection
\* on it holds it up for ever, with a client that does not read or because it has left:
\* slow clients, clients that go away, failing handlers and other publishers only delay
\* it (gamenotifier.go:99-129, server.go:429-436).
PubReturns ==
  \A p \in Publisher :
    (todo[p] # <<>> ~> todo[p] = <<>>) \/ \E c \in Conn : <>[]HeldUp(p, c)

\* onTurnEnd returns, "so the next teller can be seated" (gameloop.go:32-34,
\* emojix.go:688-723).  Violated even when every client reads what it is sent.
TurnEndReturns == loopPc \in {"ended", "new"} ~> loopPc \in {"wait", "seat", "turn", "off"}
=============================================================================
