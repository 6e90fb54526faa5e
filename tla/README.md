# emojix in TLA+

emojix is a party game on a web server: in a room, one player (the *teller*)
picks a word and describes it with emoji, the others guess, and a timer or the
last correct guess ends the turn. These modules model the server's core logic,
TLC checks them on small instances, and TLAPS proves what matters most for every
instance. Line numbers are those of the Go files under `src/`.

## The system

| Component | State | Operations | Talks to |
|---|---|---|---|
| `GameLoop` (`service/gameloop.go`) | per game: the cancel function, the begin, end and armed channels, one goroutine `run()` | `Start`, `Running`, `BeginTurn`, `EndGameTurn`, `StopGame`, `Stop` | calls the turn-end handler in its own goroutine |
| Room (`usecase/emojix.go`, `usecase/joingame.go`) | tables `players` and `game_turns` | `InitGame`, `JoinGame` (with `tryStartGame`), `PickWord`, `KickInactiveUser`, `onTurnEnd` (with `newGameTurn`) | the loop, the repository, the notifier |
| Scoring (`usecase/emojix.go`) | tables `game_scores`, `messages` | `Guess`, `Message` | the unit of work, `EndGameTurn`, the notifier |
| `GameNotifier` (`service/gamenotifier.go`) | the list of subscriptions, one unbuffered channel each | `Sub`, `Pub`, `PubAll`, `Subs` | publishers block until every subscriber has received |
| Game view (`usecase/emojix.go`) | none | `GameState`, `Leaderboard`, `GameWord`, `MaskMessage` | reads the tables in separate queries |
| Message codec (`usecase/emojix.go`) | none | `GetData`, `ParseData`, `IsEmojiOnly` | publisher to SSE reader |
| Repository (`repository/sqlite.go`) | the SQLite tables | one statement per method; a unit of work is a transaction | the driver |
| Migrator (`repository/sqlite_utils.go`, `cmd/emojix/migrate.go`) | files, table `migrations`, an in-memory copy of it | `UpCmd`, `SeedCmd`, `CreateCmd`; the commands up, seed, create, fresh, reset | the database file, also under a running server |
| Sessions (`server.go`) | two cookies per browser, table `users` | `getSession`, `InitSession`, redirects between pages and `/init` | the use cases, the pool of connections |
| Streams (`server.go`) | one SSE request per open page | `Sse` subscribes and, when it ends, schedules a kick | the notifier, the use cases |
| Command line (`cmd/emojix`) | none | `serve`, `migrate`, `dev` | all of the above |

Only the database survives a restart, and the server does not resume loops when it
starts (a room whose players are all still active stays without one): there is no
recovery protocol to model. What is hard here is mostly concurrency inside one
process:

* HTTP handlers, the loop's goroutines, kick timers and publishing goroutines run
  at the same time;
* use cases read, decide and write in separate repository calls; only `Guess` and
  `InitGame` use a transaction;
* the loop hands channels around outside its mutex, and a cancelled goroutine may
  still be running when the next one starts;
* the turn-end handler runs inside the loop's goroutine, and stops that loop;
* notifications are sent on unbuffered channels, to a copy of the list of
  subscriptions, while connections come and go;
* a page is put together from several queries, with writes in between;
* `migrate` runs beside other processes that migrate and beside the server, and may
  fail at any statement or remove the file they use.

What makes each part correct: a game has one live loop that goes through its phases
in order, and its waiters are served (loop); seats are unique and within capacity,
turns are never replaced or rewritten, a pick reaches the loop that waits for it, a
room with enough players plays (room);
points are paid once, bounded, and the turn ends when all have guessed (scoring);
subscriptions are exact, absent players are kicked and publishers do not block the
game (notifier, streams); nobody sees a word they have not solved (view); what is
published is what is shown (codec); each migration is applied once (migrator); a
browser keeps its user and is not redirected for ever (sessions). `PROJECT.json` lists the hazards behind these, each at
the line where it bites and with the property that would catch it.

## The modules

| Module | Models |
|---|---|
| `GameLoop.tla` | the loop of one game: callers, goroutines (also cancelled ones), channels, critical sections |
| `TurnCycle.tla` | what the loop promises, as a machine of four phases; `GameLoop` implements it |
| `Room.tla` | joins, kicks, picks and the turn-end handler over the tables, *composed with* `GameLoop` (`INSTANCE`, shared variables) |
| `TurnTable.tla` | what the tables `players` and `game_turns` promise to those who read them: five steps; `Room` implements it, `Scoring` and `View` are built on it |
| `Scoring.tla` | `Guess` and `Message` over the score table, beside the steps of `TurnTable` |
| `Stream.tla` | the notifier, the `Sse` handler with its delayed kick, and their publishers, `onTurnEnd` among them |
| `MsgCodec.tla` | how a chat line is encoded and parsed; used by `Stream` |
| `View.tla` | the queries of a page, between the steps of `TurnTable` and what guesses and lines write |
| `Migrator.tla` | the database file and the processes that migrate it |
| `Session.tla` | a browser and the server's handlers on files that are replaced, *composed with* `Migrator` (`INSTANCE`, shared variables) |
| `MC*.tla` | the symmetry sets, and the constants with structure, that TLC uses |
| `*Proofs.tla` | the theorems |

**GameLoop.** The Go maps are keyed by game and no operation touches two games,
so one game is modelled: `cancelMap`, `beginMap`, `endMap` and `armedMap` are its
four entries. A critical section of `mu` is one action, every channel operation
outside it another. A begin or an end channel is received from by exactly one
goroutine, so a reference to the *current* one is that goroutine's name, and
references to channels that were replaced become `Old`: the identity of dead
channels does not matter because nobody receives from them. An armed channel is
named by the caller that made it. `loopPc` follows `run()`: the two selects
(`pick`, `play`), `resetBegin` (`skip`), the critical sections (`arming`,
`ended`), the close outside the mutex (`close`) and the call of the handler.
Timers are choices, which covers every relation between durations.

**Room.** Each repository call is an action; a local that survives until the next
call is a variable (`joinUser`, `joinHow`, `draft`, `pickTurn`, `pickWord`). One
merging is made: `GetPlayers` and the `CountTurns` right after it in
`newGameTurn` are one read. Reads of rows that never change (users, games, words)
are left out, and so is publishing. `Fallible` lets any repository call fail where
its error matters. `JoinStart` is `GL!Start` or, when a loop has appeared, nothing;
`PickBegin` is the steps of `BeginTurn`; `TurnEndStop` and `TurnEndReturn` are
`GL!StopGame` and `GL!HandlerReturn`. `EnderStep` is the `EndGameTurn` of a `Guess`,
which may come as late as it likes: the call takes no turn, so in the model, as in
the code, one for a turn that is over ends the next. Whether all have guessed is left
to `Scoring`; what matters here is that the goroutine goes from `play` to `ended` at
any moment, by its timer or by a signal. `Connect` asks nothing of the user, as the
`Sse` handler does not.

**Scoring.** The score table is only ever summed or searched per turn and player,
so it is the number of correct-guess rows and the sum of points of each pair. The
transaction of `Guess` begins with an `INSERT`: SQLite has one writer, so no other
write can come between that statement and the commit, and everything in the
transaction is one action (a transaction that finds the database busy fails, which
is `GuessNoScore`). `Message` has no transaction: its read
(with the `SendMessage` after it, which changes nothing that is modelled), the query of scores and the insert of the penalty
are three actions. New turns, picks, joins and kicks are the steps of `TurnTable.tla`
and happen at any time. `Guess` does not ask whether the user has a seat, so anybody
may guess here. `CountGuessers` counts rows of `players`, as `countGuessers` does: the
table has no key, and a user whose joins raced has two.

**TurnTable.** A new turn has a teller with a seat and is never opened without two
seated players, a word is written once and perhaps to a turn that is over, a row stays
when its player leaves. Of each user it keeps how many rows `players` has and how many
of them are active: `AddPlayer` adds one, whatever there is already, `Reactivate` and
`Kick` change all. In `Room.tla` each step is the last repository call of a
request or of the turn-end handler, after reads that others have overtaken;
`TablesAsPromised` says that nothing else comes out, so that the modules that read the
tables do not need the room's detail. What they do lose is when a step may come: in
`TurnTable` any of them may at any time, so that what `Scoring` and `View` show holds
for more than the room does.

**Stream.** One game's subscriptions, as a list of connections. `Sub`, its cleanup
and `Subs` hold the lock and are one action each. `Pub` and `PubAll` copy the list in
one action (`Begin`) and then send to one connection after the other: a send on an
unbuffered channel is one action of both, `Send`, and is possible only while the
connection is in its select. The handler it runs takes the notification apart, which
fails when a line does not parse (commas of its own do that), and then writes and
flushes, an action of its own, `Write`: it ends when the client has taken the data,
fails when the client is gone, and takes as long as the client likes, because
`http.ListenAndServe` sets no write timeout. Until then the connection is not in its
select. `Connect` asks nothing of the user ("TODO: validate session id and game id").
`Poster` are goroutines started with `go`; `LoopPub` is
the loop's goroutine, which publishes twice in `onTurnEnd` and waits. Who joins and
when a turn ends has as much detail as decides who publishes. A connection is served
once, so `Conn` bounds their number; in the browser a page connects anew whenever
its root is swapped, so ends of connections are ordinary events. A kick's own update
may fail, and its player then stays. `onTurnEnd` counts the players, and publishes
the new turn, in separate actions: a kick may come between.

**View.** `GameState`, `Leaderboard` and `GameWord` as their queries, one action
each, by readers of their own, over tables that guesses, lines and the steps of `TurnTable.tla`
change at any moment. `Page` is what a request has read and the answer it
gives: the word open or masked, the lines shown as written, who is marked as done.
Rows that are found by a turn or a word that does not change any more are read with
the query before them.

**Migrator.** A path leads to a file or to none; a removed file lives on behind the
handles of those who opened it. Files and migrations are numbered. A transaction is
one action, because SQLite rolls it back when its process fails and has one writer:
either the statements and the row of a migration take effect or neither, which is
what `SchemaMatchesRecord` then checks against what two processes have read before.
`Fail` ends a process anywhere.

**Session.** One browser with one pair of cookies, its tabs following redirects, and
the server's pool as the set of files its connections have open (`sql.DB` opens
connections when it needs them, and each opens whatever is at the path by then). A
query runs on any of them. Rows of users no cookie names are forgotten, which lets
finitely many names stand for the random ids.

## What TLC checks

| Run | Instance | Shows |
|---|---|---|
| `gameloop` | 2 goroutines, 1 `BeginTurn` caller, 1 `EndGameTurn` caller | one live loop, no double close, no waiter lost, the turn cycle; every phase ends, cancelled goroutines return, a registered caller is served and never orphaned and, in a game that is never stopped, `BeginTurn` returns |
| `gameloop_late_begin` | 1 goroutine, 1 caller | *violation*: a late pick ends the next teller's pick phase |
| `room_serial` | 3 users, 2 seats, 1 join at a time, 2 users may be kicked, failing calls, 2 turns | seats unique and within capacity; a start never replaces a turn; the tables change as `TurnTable` says |
| `room_picks` | 2 users, 2 `PickWord` requests, 1 `EndGameTurn` caller, 2 words, 3 turns, 2 goroutines, failing calls | picked words are offered ones and are kept; a pick reaches the loop that waits for it, until no word is left; requests waiting in `BeginTurn` are lost only to an overwrite |
| `room_two_joins` | 3 users, 2 joins at once | *violation*: a second join replaces a running turn |
| `room_stuck` | 2 users, 1 join, 1 kick | *violation*: a room with enough players and no loop |
| `scoring` | 3 players (1 may be kicked, and may have 2 rows), 2 turns, 2 guesses, 1 message | one payment per turn, teller bounds, the last guess ends the turn |
| `stream` | 2 users, 2 connections, the loop and 1 other publisher | subscriptions are exact, the loop leaves nobody behind, lines are shown as sent; absent players are kicked, and a publisher goes on unless a client does not read or a reader has left |
| `stream_blocked` | the same, all clients read | *violation*: a client that leaves between the copy and its send keeps `onTurnEnd` for ever |
| `view` | 3 players, 2 turns, 1 page at a time | the word and the options are shown to those who may see them, the history does not give the answer of the current turn away, a turn is said to be over when it is |
| `view_history` | 3 players, 2 turns, 1 line | *violation*: the correct guess of a turn is shown as written once the next word is picked, also to those who did not solve it |
| `site` | 1 tab, 3 users, 2 files, 2 migrations, 2 `migrate` processes, 1 failing request | migrations take effect once and in order, a valid session is kept, redirects end |

Why these bounds. Two goroutines are one registered and one cancelled; a third
could only repeat the second one's part, because at most one is not cancelled
(proved). (In `room_serial`, with one goroutine, a `Start` waits until the cancelled one has
returned; the other room runs have two.) Two callers are the least that can
overwrite each other. (In `gameloop` there is one, because two would take its liveness past
its time: the properties about several are in `room_picks`, where two requests do
overwrite each other, and in the theorems; `NoOrphanWaiter` and `BeginTurnReturns` are
about calls that come one at a time.) Two seats for
three users make a full room, two kicks an empty one; three turns let a request
that read one turn write after the next and after the one after that. `PicksReachLoop`
has two exceptions. The first, a start on a picked turn, happens in `room_picks`; the
second, a cancelled goroutine that registers over a live one that is in its pick phase,
would need a third user and is covered by the theorem only. Two guesses
race for the same turn or sit in two turns. Two connections are two users, two tabs
of one or a page and its successor, and with two publishers each can be blocked by
either. A page only reads, so pages do not disturb each other and one at a time
(again and again) is enough; two turns give it a turn to be stale about. Two files are
the one that was removed and the one that was made after it. In `site` a second tab
would take the run past its time; what two tabs do to the cookie and what more
processes do to a file is covered by the theorems below, which hold for any number
of either. The bounds are constants of the
modules (`MaxTurns`, `Leaver`) or the sizes of the sets of requests; a request
that has returned may be made again, so the number of calls is not bounded. Runs
with `CHECK_DEADLOCK FALSE` stop at `MaxTurns` or when the words are used up; all
others are checked for deadlock. Symmetry is used in safety runs only.

Each violating run checks one sentence of the repository that the code does not
keep; `PROJECT.json` quotes it under `findings`. The properties that do hold in
the same situations say how far the promise goes: with one `BeginTurn` or one join
at a time it is kept, and a publisher is held up for ever by nobody but a
client that does not read and a reader that has left (`PubReturns`).

Four other sentences go further than the code and have no run; the properties beside
them say how far it goes.

* `BeginTurn` "Blocks until the timer is armed" (`gameloop.go:42`). Two calls in one
  pick phase: the second replaces the first one's armed channel, and that request
  waits for ever, armed or not. `WaiterLostOnlyToOverwrite` says that nothing else
  loses a waiter, `BeginTurnReturns` is about calls that come one at a time.
* "Floor is 0" (`emojix.go:461-462`). Two messages of the teller at once can both pay
  the penalty one of them could afford. `TellerFloorSerial` is about one at a time.
* "Use active guessers only (exclude teller and inactive)" (`emojix.go:643`). That is
  done for those who should guess and not for those who have: a solver who was kicked,
  or never joined, counts, and a turn can end with an active player left to guess. A
  player with two rows counts twice among the former, and the last guess may not end the
  turn. `LastGuessEndsTurn` says that the count is right in every other case.
* `EndGameTurn` "signals that all players have guessed the current turn"
  (`gameloop.go:46`). The call comes after the commit and names no turn; when the turn
  has timed out and the next one has been picked by then, it ends that one.

**Fairness** (`GameLoop!FairSpec`). The Go scheduler runs every goroutine that can
run, hence weak fairness of each goroutine's steps and of a caller that is inside
a call. `select` chooses at random among the ready cases, so a case ready at
infinitely many selects is taken: strong fairness of `Exit`, the `ctx.Done()`
case. Both selects hold a timer, so a goroutine is never stuck in one. Nobody is
obliged to call anything. One thing is assumed: that the turn-end handler returns.
`Stream.tla` says when it does: `onTurnEnd` publishes with `PubAll` in the loop's
goroutine, and `PubAll` comes through its list as long as everybody on it keeps coming
back to its select (`PubReturns`); `stream_blocked` is a case where one does not.

`Stream!FairSpec`: publishers, connections that are ending and the loop are goroutines
that run when they can. A connection that receives goes away to write and comes back, so
what is possible in its select is possible again and again and not all the time. Go
serves the senders blocked on a channel in their order: strong fairness of each
publisher's `Send`. `select` chooses at random between a sender and `ctx.Done()`:
strong fairness of `ConnDone`. A write to a client that is gone returns, because the
kernel fails it or takes the data: weak fairness of that `Write` and of no other.
Clients owe nothing, neither to read nor to go away; only `stream_blocked` assumes
(`ReadersSpec`) that all of them read, to show that they need not be slow for the
game to stop. `Session!FairSpec`: `net/http` answers every request;
no process has to migrate and no tab has to be opened. The other modules are checked
for safety only.

Every property of a passing run has a seeded fault (a definition marked so in the
modules) that breaks it.

## What TLAPS proves

For any number of goroutines, callers, users, requests, words, turns, connections,
tabs and processes, from the assumptions on constants stated in the modules. Every
safety property of a passing run is a theorem.

* `GameLoopProofs`: `TypeOK`, `OneLiveLoop`, `NoDoubleClose`,
  `RegisteredWaiterBlocked`, `NoOrphanWaiter` (as long as calls of `BeginTurn` have come
  one at a time), `WaiterLostOnlyToOverwrite`, and `TurnCycleSafety`: every step of the loop is a step of
  `TurnCycle` or a stutter. The argument: a goroutine that is not cancelled is the
  registered one, and an armed channel is in exactly one of three places, registered,
  held by one goroutine about to close it, or closed. `NoDoubleClose` is not
  inductive alone, because it says nothing of a channel before a goroutine takes
  it.
* `RoomProofs`: `TypeOK`, `WordKept`, `PickedWordWasOffered`, `PicksReachLoop`, and, for one join at a
  time, `OneSeatPerUser`, `CapacityKept`, `StartAddsTurnOnlyWhenStopped`. The invariant
  `RoomInv` adds to `TypeOK` that a draft is a good turn from the moment its options
  are drawn until it is inserted, and that a pick about to be written holds an
  option of the turn it read. `SeatInv`, `CapacityInv` and `StartInv` say that what
  a join has read still holds when it writes: kicks only free seats and nobody else
  starts a loop. `PicksReachLoop` rests on `ReachInv`: what a request, a goroutine and
  its handler have done so far says which turn is the latest and whether somebody is
  still to tell the loop of its pick. A lemma makes every behaviour of the room one of
  the loop (`LoopUsedAsSpecified`: the room changes the loop's variables by its actions
  only); `LoopSafeInRoom`, `LoopStepsInRoom` and `RoomImplementsTurnCycle` take the
  theorems of `GameLoopProofs` from there into the room (`INSTANCE`; the two instances of
  the loop are shown to agree action by action), and
  `StartMeetsOnlyCancelled` uses both: with one join at a time, a start adds its
  turn when every goroutine left is cancelled.
* `TablesProofs`: `TablesAsPromised`, the refinement of `TurnTable.tla` by the room,
  step by step. What it needs beyond `RoomInv` is `TableInv`: the host's row is the
  first and the host never gets another, so that two rows are two users; there are two
  rows from the moment a new turn's players have been counted until it is inserted
  (`MinPlayers >= 2`, and rows are never deleted); the teller of a draft has a
  seat; and there are at most `MaxTurns` turns. Rows of a user are counted, so
  the refinement does not need one join at a time. `OverbookedByRacesOnlyAlways`
  is what is left of the capacity when joins race: at most one player too many for each
  join in flight beside the first. Its invariant counts the joins that have
  passed the check and not yet written, each of which may seat one more.
* `ScoringProofs`: `TypeOK`, `OneGuessScorePerTurn`, `TellerPaidPerSolver`,
  `TellerFloorSerial`, `LastGuessEndsTurn`. `ScoreInv` adds that turns up to the
  latest have a teller and that a request past its read holds a picked turn whose
  teller is not the guesser; `FloorInv` that a penalty in flight is at most the
  points of its turn, which guesses only raise; `LastGuessEndsTurn` is an argument
  about cardinalities: with one active row each, as many rows are counted as there are
  active guessers, and the solvers are among these, so equal numbers are equal sets.
* `CodecProofs`: what `GetData` writes, `ParseData` reads. `RoundTrip`, for texts of any
  length without a comma; `OneCommaIsCut`, a line with one comma and no flag loses what
  follows it and the reader takes the rest for a message; `ParsesExactly`, which lines parse at all, by the
  number of their commas. `Split` is a fold over the line, and a text is handled one
  character at a time.
* `StreamProofs`: `ReaderSubscribed`, `NobodyLeftBehind`, `ShownAsSent` (from the round
  trip), `TypeOK`, and that a publisher never sends twice to one connection, `Pub`'s
  filter being exact (`NobodyToldTwice`). The invariant: a
  connection that has not been made has heard nothing, and while the loop is inside
  `onTurnEnd` every connection in its loop, reading or writing, that was given an earlier
  notification was given the current one or is on the list the loop still has to send to. Cleaning a connection up
  removes it from the list of subscriptions and not from the loop's, which is harmless
  here and is what blocks in `stream_blocked`.
* `ViewProofs`: `TypeOK`, `WordOnlyForSolvers`, `HistoryHidesCurrentWord`,
  `EndedOnlyWhenSolved`. The invariant relates what a request has read to the tables:
  scores it has read are there for good, teller and word of a turn do not change once
  chosen, and lines said in a turn belong to turns up to the latest, so that what is
  stale in a page is stale on the safe side.
* `SessionProofs`: `SchemaMatchesRecord` (over the steps of migrator and server
  together) and `KeepSession`. The invariant: what a process has still to apply is,
  from its first element on, without a gap, so that a migration is applied after
  those before it although another process may have applied some of them; and a
  process past its set-up holds a file.

The library's induction theorems take an operator, which the provers cannot
instantiate. `CodecProofs` therefore has induction over a *set* of numbers
(`SetInduction`, from the well-foundedness of `<`) and over a set of sequences, and
`FoldExists` for the function a fold is chosen from; `StreamProofs` uses
the same steps for the list `Pub` filters.

Only model-checked: liveness (`TurnCycleSpec`, `CancelledReturns`,
`RegisteredWaiterServed`, `BeginTurnReturns`, `AbsentPlayerKicked`, `PubReturns`,
`RedirectsEnd`), because the prover does not do fairness or `ENABLED`, and the
violations.

## Not modelled

Templates and `view.go` render without state; word lists, seeds' contents and model
types are data; `IsEmojiOnly` and `wordShape` are single passes over a string, used
where `Scoring.tla` and `View.tla` only need their outcome; flags, `main` and the
development server's file watching hold nothing other parts depend on; the fake
clock and the mocks are test support. Foreign keys are not modelled: nothing in
the code deletes rows, and whether an insert is checked depends on the pooled
connection it gets (`sqlite.go:64` runs the pragma on one).

Within what is modelled, the following is left out. Times: every timer is a choice,
and the clock's half of `TurnEnded` is missing from `View.tla`, where it could only
end turns earlier. Points in a page, which are `Scoring.tla`'s sums. The mask itself:
it replaces `\w`, which leaves a letter outside ASCII as it is. Several games: they
share the notifier's lock, which is never held while anything waits, and the
database, where their rows do not meet.

## Plan

Done: the loop and its abstract specification, the room around it and the tables it
promises, scoring, the streams and the notifier, the codec, the pages, the migrator and
the sessions, and their proofs. Left, in this order:

1. `Scoring` composed with `Room`, so that it is the guess that completes a turn that
   calls `EndGameTurn`, and the turn its call ends is compared with the one it was for.
2. `Stream` composed with `Room`, so that who joins and when a turn ends are the
   room's steps and not a summary of them.
3. More than one browser in `Session`, and the game pages' own redirects (a page of a
   player without a seat joins and redirects to itself).
