---------------------------- MODULE SessionProofs ----------------------------
(***************************************************************************)
(* Theorems about Session.tla: what the migrator promises holds below a    *)
(* running server, and a session is kept, for any number of processes,     *)
(* migrations, files and tabs.                                             *)
(***************************************************************************)
EXTENDS Session, TLAPS

\* What makes the migrator's promise inductive: a process at work has a file open, and
\* before every migration it has yet to apply the others are listed too or recorded.
\* "reset" never gets beyond removing the file.
HasFile == \A p \in Proc : procPc[p] \in {"read", "apply", "seed"} => procDb[p] \in M!File

Commanded == \A p \in Proc : procPc[p] \in {"setup", "read"} => procCmd[p] # "reset"

InOrder ==
  \A p \in Proc : procPc[p] = "apply" =>
    \A m \in procTodo[p] : 1..m \subseteq procTodo[p] \cup recorded[procDb[p]]

IInv == M!TypeOK /\ HasFile /\ Commanded /\ InOrder /\ SchemaMatchesRecord

LEMMA Constants ==
  /\ Known \in Nat /\ MaxMigrations \in Nat /\ MaxFiles \in Nat /\ Known <= MaxMigrations
  /\ MaxErrors \in Nat /\ MaxUsers \in Nat
  /\ Commands \in [Proc -> SUBSET M!Command]
BY SessionAssumption DEF M!MigratorConstants

-----------------------------------------------------------------------------
(* The migrator under the server *)

LEMMA InitIInv == Init => IInv
<1> SUFFICES ASSUME Init PROVE IInv
  OBVIOUS
<1>1. M!TypeOK
  BY Constants DEF Init, M!Init, M!TypeOK, M!NoFile, M!File, M!Migration, M!Command
<1>2. HasFile /\ Commanded /\ InOrder
  BY DEF Init, M!Init, HasFile, Commanded, InOrder
<1>3. SchemaMatchesRecord
  BY DEF Init, M!Init, SchemaMatchesRecord, M!SchemaMatchesRecord, M!File, M!Migration
<1> QED
  BY <1>1, <1>2, <1>3 DEF IInv

\* Opening the path changes neither what is in the files nor what a process has open.
LEMMA OpenKeeps ==
  ASSUME IInv, NEW f \in M!File, M!Open(f), UNCHANGED <<fileVars, known, procVars>>
  PROVE  IInv'
<1>1. M!TypeOK'
  BY Constants DEF IInv, M!Open, M!TypeOK, M!NoFile, M!File, fileVars, procVars
<1>2. (HasFile /\ Commanded /\ InOrder)'
  BY DEF IInv, HasFile, Commanded, InOrder, fileVars, procVars
<1>3. SchemaMatchesRecord'
  BY DEF IInv, SchemaMatchesRecord, M!SchemaMatchesRecord, fileVars
<1> QED
  BY <1>1, <1>2, <1>3 DEF IInv

\* A process that ends leaves the files as they are.
LEMMA FinishKeeps ==
  ASSUME IInv, NEW p \in Proc, M!Finish(p),
         used' = used, disk' \in 0..used, known' \in Known..MaxMigrations,
         UNCHANGED <<recorded, effects>>,
         seeded' \subseteq M!File, \A f \in seeded' : SeedNeeds \in recorded[f]
  PROVE  IInv'
<1>1. M!TypeOK'
  BY Constants DEF IInv, M!TypeOK, M!Finish, M!NoFile, M!Command
<1>2. (HasFile /\ Commanded /\ InOrder)'
  BY DEF IInv, M!TypeOK, M!Finish, HasFile, Commanded, InOrder
<1>3. SchemaMatchesRecord'
  BY DEF IInv, SchemaMatchesRecord, M!SchemaMatchesRecord
<1> QED
  BY <1>1, <1>2, <1>3 DEF IInv

\* A migration is applied: it is the first that the file lacks.
LEMMA ApplyKeeps ==
  ASSUME IInv, NEW p \in Proc, M!ApplyMigration(p)
  PROVE  IInv'
<1> DEFINE f == procDb[p]
<1> PICK m \in M!Migration :
      /\ M!NextFile(p, m) /\ m \notin recorded[f]
      /\ effects' = [effects EXCEPT ![f][m] = @ + 1]
      /\ recorded' = [recorded EXCEPT ![f] = @ \cup {m}]
      /\ procTodo' = [procTodo EXCEPT ![p] = @ \ {m}]
      /\ UNCHANGED <<disk, used, seeded, known, procPc, procCmd, procDb>>
  BY DEF M!ApplyMigration, M!RefusedByKey
<1>1. f \in M!File /\ procPc[p] = "apply" /\ m \in procTodo[p] /\ \A k \in procTodo[p] : m <= k
  BY DEF M!NextFile, IInv, HasFile
<1>2. 1..m \subseteq recorded[f] \cup {m}
  <2> SUFFICES ASSUME NEW k \in 1..m, k # m PROVE k \in recorded[f]
    OBVIOUS
  <2>1. k \in procTodo[p] \cup recorded[f]
    BY <1>1 DEF IInv, InOrder
  <2>2. k < m
    BY Constants DEF M!Migration
  <2> QED
    BY <1>1, <2>1, <2>2, Constants DEF M!Migration
<1>3. M!TypeOK'
  BY <1>1, Constants DEF IInv, M!TypeOK
<1>4. HasFile' /\ Commanded'
  BY DEF IInv, HasFile, Commanded
<1>5. InOrder'
  BY <1>1 DEF IInv, M!TypeOK, InOrder
<1>6. SchemaMatchesRecord'
  <2>1. ASSUME NEW g \in M!File, NEW k \in M!Migration
        PROVE  effects'[g][k] = IF k \in recorded'[g] THEN 1 ELSE 0
    BY <1>1 DEF IInv, M!TypeOK, SchemaMatchesRecord, M!SchemaMatchesRecord
  <2>2. ASSUME NEW g \in M!File, NEW k \in recorded'[g] PROVE 1..k \subseteq recorded'[g]
    BY <1>1, <1>2 DEF IInv, M!TypeOK, SchemaMatchesRecord, M!SchemaMatchesRecord
  <2>3. ASSUME NEW g \in M!File, g \in seeded' PROVE SeedNeeds \in recorded'[g]
    BY <1>1, <2>3 DEF IInv, M!TypeOK, SchemaMatchesRecord, M!SchemaMatchesRecord
  <2> HIDE DEF f
  <2> QED
    BY <2>1, <2>2, <2>3 DEF SchemaMatchesRecord, M!SchemaMatchesRecord
<1> QED
  BY <1>3, <1>4, <1>5, <1>6 DEF IInv

LEMMA MigratorKeeps ==
  ASSUME IInv, NEW p \in Proc, M!ProcStep(p)
  PROVE  IInv'
<1>1. CASE M!Start(p)
  <2> PICK c \in Commands[p] :
        /\ procCmd' = [procCmd EXCEPT ![p] = c]
        /\ M!Goto(p, "idle", IF c \in {"reset", "fresh"} THEN "remove" ELSE "setup")
    BY <1>1 DEF M!Start
  <2>0. c \in M!Command
    BY Constants
  <2>1. M!TypeOK'
    BY <1>1, <2>0 DEF IInv, M!TypeOK, M!Start, M!Goto, M!fileVars
  <2>2. (HasFile /\ Commanded /\ InOrder /\ SchemaMatchesRecord)'
    BY <1>1 DEF IInv, M!TypeOK, M!Start, M!Goto, M!fileVars, HasFile, Commanded, InOrder,
                SchemaMatchesRecord, M!SchemaMatchesRecord
  <2> QED
    BY <2>1, <2>2 DEF IInv
<1>2. CASE M!Remove(p)
  <2> USE <1>2 DEF M!Remove, M!Unlink
  <2>1. disk' \in 0..used
    BY Constants DEF IInv, M!TypeOK, M!NoFile
  <2>2. CASE procCmd[p] = "reset"
    BY <2>1, <2>2, FinishKeeps DEF IInv, M!TypeOK, M!fileVars, SchemaMatchesRecord,
                                   M!SchemaMatchesRecord
  <2>3. CASE procCmd[p] # "reset"
    <3>1. M!TypeOK'
      BY <2>1, <2>3 DEF IInv, M!TypeOK, M!Goto, M!fileVars
    <3>2. (HasFile /\ Commanded /\ InOrder /\ SchemaMatchesRecord)'
      BY <2>3 DEF IInv, M!TypeOK, M!Goto, M!fileVars, HasFile, Commanded, InOrder,
                  SchemaMatchesRecord, M!SchemaMatchesRecord
    <3> QED
      BY <3>1, <3>2 DEF IInv
  <2> QED
    BY <2>2, <2>3
<1>3. CASE M!Setup(p)
  <2> PICK f \in M!File : M!Open(f) /\ procDb' = [procDb EXCEPT ![p] = f]
    BY <1>3 DEF M!Setup
  <2>1. M!TypeOK'
    BY <1>3, Constants DEF IInv, M!TypeOK, M!Setup, M!Open, M!Goto, M!fileVars, M!File,
                           M!NoFile
  <2>2. (HasFile /\ Commanded /\ InOrder /\ SchemaMatchesRecord)'
    BY <1>3 DEF IInv, M!TypeOK, M!Setup, M!Goto, M!fileVars, HasFile, Commanded, InOrder,
                SchemaMatchesRecord, M!SchemaMatchesRecord
  <2> QED
    BY <2>1, <2>2 DEF IInv
<1>4. CASE M!ReadApplied(p)
  <2> USE <1>4 DEF M!ReadApplied, M!Goto, M!fileVars
  <2>1. procPc[p] = "read" /\ procDb[p] \in M!File
    BY DEF IInv, HasFile
  <2>2. procTodo' \in [Proc -> SUBSET M!Migration]
    BY Constants DEF IInv, M!TypeOK, M!Migration
  <2>3. M!TypeOK' /\ HasFile' /\ Commanded'
    BY <2>1, <2>2 DEF IInv, M!TypeOK, HasFile, Commanded, M!Work, M!Command
  <2>4. InOrder'
    <3> SUFFICES ASSUME NEW q \in Proc, procPc'[q] = "apply", NEW m \in procTodo'[q],
                        NEW k \in 1..m
                 PROVE  k \in procTodo'[q] \cup recorded'[procDb'[q]]
      BY DEF InOrder
    <3>1. CASE q = p
      <4>1. procTodo'[p] = (1..known) \ recorded[procDb[p]]
        BY DEF IInv, M!TypeOK
      <4>2. m \in 1..known /\ known \in Nat
        BY <3>1, <4>1, Constants DEF IInv, M!TypeOK
      <4> QED
        BY <3>1, <4>1, <4>2
    <3>2. CASE q # p
      BY <3>2 DEF IInv, M!TypeOK, InOrder
    <3> QED
      BY <3>1, <3>2
  <2>5. SchemaMatchesRecord'
    BY DEF IInv, SchemaMatchesRecord, M!SchemaMatchesRecord
  <2> QED
    BY <2>3, <2>4, <2>5 DEF IInv
<1>5. CASE M!ApplyMigration(p)
  BY <1>5, ApplyKeeps
<1>6. CASE M!RefuseMigration(p)
  BY <1>6, FinishKeeps DEF IInv, M!TypeOK, M!RefuseMigration, M!Rollback, M!fileVars,
                           SchemaMatchesRecord, M!SchemaMatchesRecord
<1>7. CASE M!UpDone(p)
  <2> USE <1>7 DEF M!UpDone, M!fileVars
  <2>1. CASE procCmd[p] = "fresh"
    BY <2>1 DEF IInv, M!TypeOK, M!Goto, HasFile, Commanded, InOrder, SchemaMatchesRecord,
                M!SchemaMatchesRecord
  <2>2. CASE procCmd[p] # "fresh"
    BY <2>2, FinishKeeps DEF IInv, M!TypeOK, SchemaMatchesRecord, M!SchemaMatchesRecord
  <2> QED
    BY <2>1, <2>2
<1>8. CASE M!Seed(p)
  <2>1. procDb[p] \in M!File
    BY <1>8 DEF M!Seed, IInv, HasFile
  <2> QED
    BY <1>8, <2>1, FinishKeeps DEF IInv, M!TypeOK, M!Seed, SchemaMatchesRecord,
                                   M!SchemaMatchesRecord
<1>9. CASE M!Create(p)
  <2>1. known' \in Known..MaxMigrations
    BY <1>9, Constants DEF IInv, M!TypeOK, M!Create, M!Migration
  <2> QED
    BY <1>9, <2>1, FinishKeeps DEF IInv, M!TypeOK, M!Create, M!fileVars,
                                   SchemaMatchesRecord, M!SchemaMatchesRecord
<1>10. CASE M!Fail(p)
  BY <1>10, FinishKeeps DEF IInv, M!TypeOK, M!Fail, M!fileVars,
                            SchemaMatchesRecord, M!SchemaMatchesRecord
<1> QED
  BY <1>1, <1>2, <1>3, <1>4, <1>5, <1>6, <1>7, <1>8, <1>9, <1>10 DEF M!ProcStep

LEMMA NextKeeps == IInv /\ [Next]_vars => IInv'
<1> SUFFICES ASSUME IInv, [Next]_vars PROVE IInv'
  OBVIOUS
<1>1. CASE MigratorStep
  BY <1>1, MigratorKeeps DEF MigratorStep, M!Next
<1>2. CASE Serve
  BY <1>2, OpenKeeps DEF Serve
<1>3. CASE OpenConnection
  BY <1>3, OpenKeeps DEF OpenConnection
<1>4. ASSUME UNCHANGED migratorVars PROVE IInv'
  BY <1>4 DEF IInv, M!TypeOK, HasFile, Commanded, InOrder, SchemaMatchesRecord,
              M!SchemaMatchesRecord, migratorVars, fileVars, procVars
<1>5. CASE CloseConnections
  BY <1>4, <1>5 DEF CloseConnections
<1>6. ASSUME NEW t \in Tab, Visit(t) \/ GiveUp(t) \/ Answer(t) PROVE IInv'
  BY <1>4, <1>6 DEF Visit, GiveUp, Answer, ShowPage, RedirectToInit, ReuseSession, MintUser,
                    ErrorPage
<1>7. CASE UNCHANGED vars
  BY <1>4, <1>7 DEF vars
<1> QED
  BY <1>1, <1>2, <1>3, <1>5, <1>6, <1>7 DEF Next

\* Whatever processes migrate, seed and remove at the same time under a running server,
\* and wherever they fail, the record of every file tells what was done to it
\* (sqlite_utils.go:130-183, :195-219).
THEOREM SchemaAlwaysMatches == Spec => []SchemaMatchesRecord
<1>1. Init => IInv
  BY InitIInv
<1>2. IInv /\ [Next]_vars => IInv'
  BY NextKeeps
<1>3. IInv => SchemaMatchesRecord
  BY DEF IInv
<1> QED
  BY <1>1, <1>2, <1>3, PTL DEF Spec

-----------------------------------------------------------------------------
(* Sessions *)

\* Failed queries are counted, so that one that fails now can be told.
Counted == errors \in Nat

LEMMA RefusedCounts ==
  ASSUME Counted, NEW u, Refused(u)
  PROVE  errors' \in Nat /\ (errors' # errors \/ \E f \in open : u \notin users[f])
BY DEF Counted, Refused, QueryFails

LEMMA NextCounts == Counted /\ [Next]_vars => Counted'
BY DEF Counted, Next, MigratorStep, Serve, OpenConnection, CloseConnections, Visit, GiveUp,
       Answer, ShowPage, RedirectToInit, ReuseSession, MintUser, ErrorPage, NeedsUser, Refused,
       QueryFails, serverVars, vars

\* Only MintUser sets a cookie, and only after the user was not found or a query failed.
LEMMA CookieStep ==
  ASSUME Counted, [Next]_vars, cookie' # cookie, \A f \in open : cookie \in users[f]
  PROVE  errors' # errors \/ \E t \in Tab : tabPc[t] = "init" /\ sent[t] # cookie
<1>1. PICK t \in Tab : MintUser(t)
  BY DEF Next, MigratorStep, Serve, OpenConnection, CloseConnections, Visit, GiveUp, Answer,
         ShowPage, RedirectToInit, ReuseSession, ErrorPage, SendOn, Rest, browserVars, vars
<1>2. tabPc[t] = "init" /\ Refused(sent[t])
  BY <1>1 DEF MintUser, NeedsUser
<1> QED
  BY <1>2, RefusedCounts

\* For any number of tabs: a session whose user every file knows is replaced only where an
\* /init request was sent without it or its query failed (server.go:126-152).
THEOREM SessionIsKept == Spec => KeepSession
<1>1. Init => Counted
  BY DEF Init, Counted
<1>2. Counted /\ [Next]_vars => Counted'
  BY NextCounts
<1>3. Counted /\ [Next]_vars =>
        [cookie' # cookie /\ (\A f \in open : cookie \in users[f]) =>
           \/ errors' # errors
           \/ \E t \in Tab : tabPc[t] = "init" /\ sent[t] # cookie]_vars
  BY CookieStep
<1> QED
  BY <1>1, <1>2, <1>3, PTL DEF Spec, KeepSession
=============================================================================
