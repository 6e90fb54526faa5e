------------------------------- MODULE Session -------------------------------
(***************************************************************************)
(* Sessions over a database that may be replaced: getSession, InitSession  *)
(* and the page handlers of server.go, InitUser and GetUser of             *)
(* usecase/emojix.go, the users table of repository/sqlite.go and the      *)
(* server's connection pool (cmd/emojix/serve.go).                         *)
(*                                                                         *)
(* One browser keeps one cookie for all its tabs.  A tab follows           *)
(* redirects between a page and /init; each request carries the cookie the *)
(* browser had when it was sent.  Below, in Migrator.tla, processes        *)
(* replace and migrate the file: every query of the server runs on some    *)
(* open connection, an old one still reading a file that was removed.      *)
(***************************************************************************)
EXTENDS Naturals, FiniteSets

CONSTANTS
  Tab,        \* tabs of the browser
  MaxUsers,   \* bound: users the browser can tell apart
  MaxErrors,  \* bound: requests with queries that fail although the table is there
  Proc, Commands, Known, MaxMigrations, MaxFiles, SeedNeeds

VARIABLES disk, used, recorded, effects, seeded, known, procPc, procCmd, procDb, procTodo

VARIABLES
  open,    \* the files the pool of sql.DB has connections to
  users,   \* per file, the rows of its table users the browser may still name
  cookie,  \* the cookies userid and nickname, set together
  tabPc,   \* what each tab waits for: a page, /init or nothing
  sent,    \* the cookie its request carries
  errors   \* requests with queries that failed so

M == INSTANCE Migrator

fileVars == <<recorded, effects, seeded>>
procVars == <<procPc, procCmd, procDb, procTodo>>
migratorVars == <<disk, used, fileVars, known, procVars>>
serverVars == <<open, users, errors>>
browserVars == <<cookie, tabPc, sent>>
vars == <<migratorVars, serverVars, browserVars>>

User == 1..MaxUsers
NoUser == 0

ASSUME SessionAssumption ==
  /\ {MaxUsers, MaxErrors} \subseteq Nat
  /\ M!MigratorConstants

TypeOK ==
  /\ M!TypeOK
  /\ open \subseteq M!File
  /\ users \in [M!File -> SUBSET User]
  /\ cookie \in User \cup {NoUser}
  /\ tabPc \in [Tab -> {"idle", "page", "init"}]
  /\ sent \in [Tab -> User \cup {NoUser}]
  /\ errors \in 0..MaxErrors

\* No server yet, no database, and a new browser.
Init ==
  /\ M!Init
  /\ open = {}
  /\ users = [f \in M!File |-> {}]
  /\ cookie = NoUser
  /\ tabPc = [t \in Tab |-> "idle"]
  /\ sent = [t \in Tab |-> NoUser]
  /\ errors = 0

-----------------------------------------------------------------------------
(* The server and its connections *)

\* serve, for the first time or again: InitSqliteDB executes a pragma, which opens the
\* first connection, and with it whatever file is at the path.
Serve ==
  /\ \E f \in M!File : M!Open(f) /\ open' = {f}
  /\ UNCHANGED <<fileVars, known, procVars, users, errors, browserVars>>

\* Requests that overlap make the pool open another connection.
OpenConnection ==
  /\ open # {}
  /\ \E f \in M!File : M!Open(f) /\ open' = open \cup {f}
  /\ UNCHANGED <<fileVars, known, procVars, users, errors, browserVars>>

\* The pool keeps two idle connections and closes the others.
CloseConnections ==
  /\ \E f \in open : open \ {f} # {} /\ open' = open \ {f}
  /\ UNCHANGED <<migratorVars, users, errors, browserVars>>

-----------------------------------------------------------------------------
(* Users *)

\* The first migration makes the table users.
HasUsers(f) == 1 \in recorded[f]

\* One or more queries of the request fail although they could succeed (SQLITE_BUSY).
QueryFails == errors < MaxErrors /\ errors' = errors + 1

\* GetUser finds the row, on some connection.
Found(u) == \E f \in open : u \in users[f]

\* There is no cookie, GetUser finds no row, or no table to look in, or fails: whatever
\* the error is, its callers take the user to be gone.
Refused(u) ==
  \/ (\E f \in open : u \notin users[f]) /\ UNCHANGED errors
  \/ u # NoUser /\ QueryFails

\* The users a cookie names, in the browser or on its way.
Named == {cookie} \cup {sent[t] : t \in Tab}

\* The users table afterwards; a row that no cookie names can be told from no row by
\* nobody, so it is left out and its id is as good as new.
Rows(table) == users' = [f \in M!File |-> table[f] \cap Named']

\* generateRandomID: no cookie names it; of those ids, the first.
FreshId(u) == u \notin Named /\ 1..(u - 1) \subseteq Named

\* InitUser: CreateOrUpdate inserts the row.
InitUser(f, u) == HasUsers(f) /\ Rows([users EXCEPT ![f] = @ \cup {u}])

-----------------------------------------------------------------------------
(* The browser and the handlers *)

\* A request or the redirect that answers it, with a cookie.
Send(t, target, u) ==
  /\ tabPc' = [tabPc EXCEPT ![t] = target]
  /\ sent' = [sent EXCEPT ![t] = u]

\* The browser adds the cookie it has by then.
SendOn(t, target) ==
  /\ Send(t, target, cookie)
  /\ UNCHANGED cookie
  /\ Rows(users)

\* The tab shows what it got and waits for nothing.
Rest(t) ==
  /\ Send(t, "idle", NoUser)
  /\ UNCHANGED cookie
  /\ Rows(users)

\* Any page; nothing but a redirect leads to /init.
Visit(t) ==
  /\ open # {} /\ tabPc[t] = "idle"
  /\ SendOn(t, "page")
  /\ UNCHANGED <<migratorVars, open, errors>>

\* The request is lost: the server restarts, or the user closes the tab.
GiveUp(t) ==
  /\ tabPc[t] # "idle"
  /\ Rest(t)
  /\ UNCHANGED <<migratorVars, open, errors>>

\* getSession of any page, with both cookies and their user's row: the page is shown.
ShowPage(t) ==
  /\ tabPc[t] = "page"
  /\ Found(sent[t])
  /\ Rest(t)
  /\ UNCHANGED <<migratorVars, open, errors>>

\* getSession without: on to /init, which will come back to the page (to "/" if the
\* request was not a GET).
RedirectToInit(t) ==
  /\ tabPc[t] = "page"
  /\ Refused(sent[t])
  /\ SendOn(t, "init")
  /\ UNCHANGED <<migratorVars, open>>

\* InitSession: a session that is still valid is kept.
ReuseSession(t) ==
  /\ tabPc[t] = "init"
  /\ Found(sent[t])
  /\ SendOn(t, "page")
  /\ UNCHANGED <<migratorVars, open, errors>>

\* Seeded fault: InitSession makes a user at every visit.
EveryVisit(t) == UNCHANGED errors

\* InitSession goes on to make a user.
NeedsUser(t) == Refused(sent[t])

\* Seeded fault: the answer does not set the cookies.
KeepCookie(t, u) == Send(t, "page", cookie) /\ UNCHANGED cookie

\* setCookie, and back to the page with it.
SetCookie(t, u) == Send(t, "page", u) /\ cookie' = u

\* InitSession: otherwise there is a new user.
MintUser(t) ==
  /\ tabPc[t] = "init"
  /\ NeedsUser(t)
  /\ \E u \in User, f \in open : FreshId(u) /\ SetCookie(t, u) /\ InitUser(f, u)
  /\ UNCHANGED <<migratorVars, open>>

\* InitUser fails, for want of the table or otherwise: the error page.
ErrorPage(t) ==
  /\ tabPc[t] = "init"
  /\ \/ NeedsUser(t) /\ \E f \in open : ~HasUsers(f)
     \/ QueryFails
  /\ Rest(t)
  /\ UNCHANGED <<migratorVars, open>>

-----------------------------------------------------------------------------
\* What the server does with a request that has arrived.
Answer(t) ==
  ShowPage(t) \/ RedirectToInit(t) \/ ReuseSession(t) \/ MintUser(t) \/ ErrorPage(t)

MigratorStep == M!Next /\ UNCHANGED <<serverVars, browserVars>>

Next ==
  \/ MigratorStep
  \/ Serve \/ OpenConnection \/ CloseConnections
  \/ \E t \in Tab : Visit(t) \/ GiveUp(t) \/ Answer(t)

Spec == Init /\ [][Next]_vars

\* net/http answers every request; nothing else must happen.
FairSpec == Spec /\ \A t \in Tab : WF_vars(Answer(t))
-----------------------------------------------------------------------------
(* What sessions promise *)

\* See Migrator.tla: the server's connections do not disturb it.
SchemaMatchesRecord == M!SchemaMatchesRecord

\* A browser whose user is known to every file the server reads keeps that user, unless
\* a tab's request for /init was under way without that cookie (two tabs of a new browser
\* each make a user and the later answer wins) or its query failed; a failed query of a
\* page alone costs nothing (server.go:98-103, :126-152).
KeepSession ==
  [][cookie' # cookie /\ (\A f \in open : cookie \in users[f]) =>
       \/ errors' # errors
       \/ \E t \in Tab : tabPc[t] = "init" /\ sent[t] # cookie]_vars

\* Redirects between pages and /init come to an end, in a page or an error, however the
\* database is removed and made again, as long as the server does not read two files at
\* once: then a page and /init may disagree forever (server.go:77-113, :126-152).
RedirectsEnd ==
  \A t \in Tab : tabPc[t] # "idle" ~> tabPc[t] = "idle" \/ Cardinality(open) > 1
=============================================================================
