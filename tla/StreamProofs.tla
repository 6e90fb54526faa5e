---------------------------- MODULE StreamProofs ----------------------------
(***************************************************************************)
(* Theorems about Stream.tla, for any number of players, connections and   *)
(* publishers: who is subscribed, and that the loop leaves nobody behind.  *)
(***************************************************************************)
EXTENDS Stream, CodecProofs

LoopNotes == {TurnEnded, NewTurn}

\* The types the proofs need.  What a poster has to send is left open.
Types ==
  /\ subs \in Seq(Conn)
  /\ connPc \in [Conn -> ConnPc]
  /\ heard \in [Conn -> LoopNotes \cup {None}]
  /\ DOMAIN todo = Publisher /\ DOMAIN note = Publisher
  /\ todo[LoopPub] \in Seq(Conn)
  /\ loopPc \in LoopPc

Listed(c, s) == \E i \in DOMAIN s : s[i] = c

Once(s) == \A i, j \in DOMAIN s : s[i] = s[j] => i = j

Subscribed(c) == Open(c) \/ connPc[c] = "leave"

\* ReaderSubscribed, in the form the steps keep.
ListIsRight == Once(subs) /\ \A c \in Conn : Listed(c, subs) <=> Subscribed(c)

\* A connection has not heard anything before it is made.
FreshIsSilent == \A c \in Conn : connPc[c] = "free" => heard[c] = None

\* Who has heard an earlier notification is still to be sent the current one.
UpToDate(n) ==
  /\ todo[LoopPub] # <<>> => note[LoopPub] = n
  /\ \A c \in Conn : Open(c) /\ heard[c] # None => heard[c] = n \/ Listed(c, todo[LoopPub])

LoopTells ==
  /\ loopPc = "ended" => UpToDate(TurnEnded)
  /\ loopPc \in {"wait", "seat"} => todo[LoopPub] = <<>> /\ UpToDate(TurnEnded)
  /\ loopPc = "new" => UpToDate(NewTurn)
  /\ loopPc \in {"off", "turn"} => todo[LoopPub] = <<>>

IInv == Types /\ ListIsRight /\ FreshIsSilent /\ LoopTells
-----------------------------------------------------------------------------
(* Sequences *)

\* What Sub appends: the list names what it named, and the new subscription.
LEMMA AppendList ==
  ASSUME NEW S, NEW s \in Seq(S), NEW e \in S, ~Listed(e, s), Once(s)
  PROVE  /\ Append(s, e) \in Seq(S)
         /\ Once(Append(s, e))
         /\ \A c : Listed(c, Append(s, e)) <=> Listed(c, s) \/ c = e
<1> DEFINE t == Append(s, e)
<1>1. /\ t \in Seq(S) /\ Len(s) \in Nat /\ Len(t) = Len(s) + 1
      /\ DOMAIN s = 1..Len(s) /\ DOMAIN t = 1..Len(t)
      /\ \A i \in 1..Len(s) : t[i] = s[i]
      /\ t[Len(s) + 1] = e
  BY AppendProperties, LenProperties
<1> HIDE DEF t
<1>2. Once(t) BY <1>1 DEF Once, Listed
<1>3. ASSUME NEW c PROVE Listed(c, t) <=> Listed(c, s) \/ c = e
  <2>1. Listed(c, s) => Listed(c, t) BY <1>1 DEF Listed
  <2>2. c = e => Listed(c, t) BY <1>1 DEF Listed
  <2>3. Listed(c, t) => Listed(c, s) \/ c = e BY <1>1 DEF Listed
  <2> QED BY <2>1, <2>2, <2>3
<1> QED BY <1>1, <1>2, <1>3 DEF t

\* What the deferred cleanup removes: one subscription, and no other.
LEMMA RemoveList ==
  ASSUME NEW S, NEW s \in Seq(S), NEW i \in DOMAIN s, Once(s)
  PROVE  /\ RemoveAt(s, i) \in Seq(S)
         /\ Once(RemoveAt(s, i))
         /\ \A c : Listed(c, RemoveAt(s, i)) <=> Listed(c, s) /\ c # s[i]
<1> DEFINE n == Len(s)
           a == SubSeq(s, 1, i - 1)
           b == SubSeq(s, i + 1, n)
           t == a \o b
<1>1. n \in Nat /\ DOMAIN s = 1..n /\ i \in 1..n /\ \A j \in 1..n : s[j] \in S
  BY LenProperties, ElementOfSeq
<1>2. /\ a \in Seq(S) /\ Len(a) = i - 1
      /\ \A j \in 1..(i - 1) : a[j] = s[j]
  <2>1. 1 \in Int /\ i - 1 \in Int /\ \A j \in 1..(i - 1) : s[j] \in S BY <1>1
  <2>2. /\ a \in Seq(S) /\ Len(a) = IF 1 <= i - 1 THEN (i - 1) - 1 + 1 ELSE 0
        /\ \A j \in 1..((i - 1) - 1 + 1) : a[j] = s[1 + j - 1]
    BY <2>1, SubSeqProperties
  <2> HIDE DEF a
  <2> QED BY <1>1, <2>2
<1>3. /\ b \in Seq(S) /\ Len(b) = n - i
      /\ \A j \in 1..(n - i) : b[j] = s[i + j]
  <2>1. i + 1 \in Int /\ n \in Int /\ \A j \in (i + 1)..n : s[j] \in S BY <1>1
  <2>2. /\ b \in Seq(S) /\ Len(b) = IF i + 1 <= n THEN n - (i + 1) + 1 ELSE 0
        /\ \A j \in 1..(n - (i + 1) + 1) : b[j] = s[i + 1 + j - 1]
    BY <2>1, SubSeqProperties
  <2> HIDE DEF b
  <2>3. ASSUME NEW j \in 1..(n - i) PROVE b[j] = s[i + j]
    <3>1. j \in 1..(n - (i + 1) + 1) /\ i + 1 + j - 1 = i + j BY <1>1
    <3> QED BY <2>2, <3>1
  <2> QED BY <1>1, <2>2, <2>3
<1>4. /\ t \in Seq(S) /\ Len(t) = Len(a) + Len(b)
      /\ DOMAIN t = 1..Len(t)
      /\ \A j \in 1..(Len(a) + Len(b)) : t[j] = IF j <= Len(a) THEN a[j] ELSE b[j - Len(a)]
  <2> HIDE DEF a, b
  <2> QED BY <1>2, <1>3, ConcatProperties, LenProperties
<1> HIDE DEF n, a, b, t
<1>5. Len(t) = n - 1 /\ DOMAIN t = 1..(n - 1) BY <1>1, <1>2, <1>3, <1>4
<1>6. \A j \in 1..(n - 1) : t[j] = IF j < i THEN s[j] ELSE s[j + 1]
  <2> SUFFICES ASSUME NEW j \in 1..(n - 1)
               PROVE  t[j] = IF j < i THEN s[j] ELSE s[j + 1]
    OBVIOUS
  <2>1. CASE j < i
    <3>1. j \in 1..(i - 1) /\ j <= Len(a) /\ j \in 1..(Len(a) + Len(b))
      BY <1>1, <1>2, <1>3, <2>1
    <3> QED BY <1>2, <1>4, <2>1, <3>1
  <2>2. CASE ~(j < i)
    <3>1. /\ j - Len(a) \in 1..(n - i) /\ ~(j <= Len(a)) /\ j \in 1..(Len(a) + Len(b))
          /\ i + (j - Len(a)) = j + 1
      BY <1>1, <1>2, <1>3, <2>2
    <3>2. t[j] = b[j - Len(a)] BY <1>4, <3>1
    <3>3. b[j - Len(a)] = s[i + (j - Len(a))] BY <1>3, <3>1
    <3> QED BY <2>2, <3>1, <3>2, <3>3
  <2> QED BY <2>1, <2>2
<1>7. Once(t)
  <2> SUFFICES ASSUME NEW j \in 1..(n - 1), NEW k \in 1..(n - 1), t[j] = t[k]
               PROVE  j = k
    BY <1>5 DEF Once
  <2> DEFINE at(x) == IF x < i THEN x ELSE x + 1
  <2>1. at(j) \in 1..n /\ at(k) \in 1..n BY <1>1
  <2>2. s[at(j)] = s[at(k)] BY <1>6
  <2>3. at(j) = at(k) BY <1>1, <2>1, <2>2 DEF Once
  <2> QED BY <1>1, <2>3
<1>8. ASSUME NEW c PROVE Listed(c, t) <=> Listed(c, s) /\ c # s[i]
  <2>1. ASSUME Listed(c, t) PROVE Listed(c, s) /\ c # s[i]
    <3>1. PICK j \in 1..(n - 1) : t[j] = c BY <1>5, <2>1 DEF Listed
    <3> DEFINE k == IF j < i THEN j ELSE j + 1
    <3>2. k \in 1..n /\ k # i /\ s[k] = c BY <1>1, <1>6, <3>1
    <3> HIDE DEF k
    <3> QED BY <1>1, <3>2 DEF Listed, Once
  <2>2. ASSUME Listed(c, s), c # s[i] PROVE Listed(c, t)
    <3>1. PICK k \in 1..n : s[k] = c BY <1>1, <2>2 DEF Listed
    <3> DEFINE j == IF k < i THEN k ELSE k - 1
    <3>2. k # i BY <2>2, <3>1
    <3>3. j \in 1..(n - 1) /\ (IF j < i THEN j ELSE j + 1) = k BY <1>1, <3>2
    <3>4. t[j] = IF j < i THEN s[j] ELSE s[j + 1] BY <1>6, <3>3
    <3>5. t[j] = c BY <3>1, <3>3, <3>4
    <3> QED BY <1>5, <3>3, <3>5 DEF Listed
  <2> QED BY <2>1, <2>2
<1> QED BY <1>4, <1>7, <1>8 DEF t, a, b, n, RemoveAt
\* What is left to send to after the first of the list.
LEMMA TailKeeps ==
  ASSUME NEW S, NEW s \in Seq(S), s # <<>>, NEW d, Listed(d, s)
  PROVE  d = Head(s) \/ Listed(d, Tail(s))
<1>1. /\ Len(s) \in Nat /\ DOMAIN s = 1..Len(s) /\ Head(s) = s[1]
      /\ Tail(s) \in Seq(S) /\ Len(Tail(s)) = Len(s) - 1
      /\ \A i \in 1..(Len(s) - 1) : Tail(s)[i] = s[i + 1]
  BY HeadTailProperties, LenProperties
<1>2. DOMAIN Tail(s) = 1..(Len(s) - 1) BY <1>1, LenProperties
<1>3. PICK i \in 1..Len(s) : s[i] = d BY <1>1 DEF Listed
<1>4. CASE i = 1 BY <1>1, <1>3, <1>4
<1>5. CASE i # 1
  <2>1. i - 1 \in 1..(Len(s) - 1) /\ (i - 1) + 1 = i BY <1>1, <1>5
  <2> QED BY <1>1, <1>2, <1>3, <2>1 DEF Listed
<1> QED BY <1>4, <1>5

\* What Pub appends its targets to.
Target(u, targets, c) == IF connUser[c] = u THEN targets ELSE Append(targets, c)

\* The loop in Pub, over the first k subscriptions.
LEMMA OthersSteps ==
  ASSUME NEW u, subs \in Seq(Conn)
  PROVE  \E p : /\ p[0] = <<>> /\ p[Len(subs)] = Others(u)
                /\ \A k \in 0..(Len(subs) - 1) : p[k + 1] = Target(u, p[k], subs[k + 1])
<1> DEFINE n == Len(subs)
           S == Seq(Conn)
           step == [q \in S \X (1..n) |-> Target(u, q[1], subs[q[2]])]
           Unfolds(f) == f = [T \in SUBSET (1..n) |->
                                IF T = {} THEN <<>>
                                ELSE Target(u, f[T \ {Max(T)}], subs[Max(T)])]
           it == CHOOSE f : Unfolds(f)
<1>1. n \in Nat /\ DOMAIN subs = 1..n /\ \A i \in 1..n : subs[i] \in Conn
  BY LenProperties, ElementOfSeq
<1>2. <<>> \in S BY EmptySeq
<1>3. step \in [S \X (1..n) -> S] BY <1>1, AppendProperties DEF Target
<1>4. \A s \in S, i \in 1..n : step[<<s, i>>] = Target(u, s, subs[i]) OBVIOUS
<1>5. \E f : Unfolds(f)
  <2> HIDE DEF S, step, n
  <2>1. PICK f \in [SUBSET (1..n) -> S] : IsFold(f, n, <<>>, step)
    BY <1>1, <1>2, <1>3, FoldExists
  <2>2. ASSUME NEW T \in SUBSET (1..n), T # {}
        PROVE  step[<<f[T \ {Max(T)}], Max(T)>>] = Target(u, f[T \ {Max(T)}], subs[Max(T)])
    <3>1. Max(T) \in T BY <1>1, <2>2, LastPosition
    <3>2. f[T \ {Max(T)}] \in S BY <2>1
    <3> QED BY <1>4, <3>1, <3>2
  <2>3. Unfolds(f)
    <3>1. \A T \in SUBSET (1..n) :
            f[T] = IF T = {} THEN <<>> ELSE Target(u, f[T \ {Max(T)}], subs[Max(T)])
      BY <2>1, <2>2 DEF IsFold
    <3> QED BY <3>1
  <2> QED BY <2>3
<1>6. Unfolds(it)
  <2> HIDE DEF Unfolds
  <2> QED BY <1>5, Zenon
<1>7. Others(u) = it[1..n]
  BY <1>1, Zenon DEF Others, FoldLeft, MapThenFoldSet, Target
<1> HIDE DEF it
<1> DEFINE p == [k \in 0..n |-> it[1..k]]
<1>8. \A T \in SUBSET (1..n) :
        it[T] = IF T = {} THEN <<>> ELSE Target(u, it[T \ {Max(T)}], subs[Max(T)])
  BY <1>6
<1>9. p[0] = <<>>
  <2>1. 1..0 = {} /\ 1..0 \in SUBSET (1..n) OBVIOUS
  <2>2. it[1..0] = <<>> BY <1>8, <2>1
  <2>3. 0 \in 0..n BY <1>1
  <2> HIDE DEF n
  <2> QED BY <2>2, <2>3
<1>10. p[n] = Others(u) BY <1>1, <1>7
<1>11. ASSUME NEW k \in 0..(n - 1) PROVE p[k + 1] = Target(u, p[k], subs[k + 1])
  <2>1. k \in Nat /\ k \in 0..n /\ k + 1 \in 0..n BY <1>1
  <2>2. /\ 1..(k + 1) # {} /\ Max(1..(k + 1)) = k + 1
        /\ (1..(k + 1)) \ {k + 1} = 1..k
    BY <2>1, LastOfPrefix
  <2>3. 1..(k + 1) \in SUBSET (1..n) BY <1>1
  <2>4. it[1..(k + 1)] = Target(u, it[1..k], subs[k + 1]) BY <1>8, <2>2, <2>3
  <2> QED BY <2>1, <2>4
<1> QED BY <1>9, <1>10, <1>11

\* The targets of Pub: everybody subscribed but the user's own connections, once.
LEMMA OthersList ==
  ASSUME NEW u, subs \in Seq(Conn), Once(subs)
  PROVE  /\ Others(u) \in Seq(Conn) /\ Once(Others(u))
         /\ \A c \in Conn : Listed(c, Others(u)) <=> Listed(c, subs) /\ connUser[c] # u
<1> DEFINE n == Len(subs)
<1>1. PICK p : /\ p[0] = <<>> /\ p[n] = Others(u)
               /\ \A k \in 0..(n - 1) : p[k + 1] = Target(u, p[k], subs[k + 1])
  BY OthersSteps
<1>2. n \in Nat /\ DOMAIN subs = 1..n /\ \A i \in 1..n : subs[i] \in Conn
  BY LenProperties, ElementOfSeq
<1> HIDE DEF n
<1> DEFINE Good(k) ==
             /\ p[k] \in Seq(Conn) /\ Once(p[k])
             /\ \A c : Listed(c, p[k]) <=>
                        \E i \in 1..k : subs[i] = c /\ connUser[c] # u
           P == {k \in Nat : k <= n => Good(k)}
<1>3. 0 \in P
  <2>1. DOMAIN p[0] = {} /\ p[0] \in Seq(Conn) BY <1>1, EmptySeq
  <2>2. 1..0 = {} OBVIOUS
  <2>3. Good(0) BY <2>1, <2>2 DEF Once, Listed
  <2> HIDE DEF Good
  <2> QED BY <2>3
<1>4. ASSUME NEW k \in Nat, k \in P PROVE k + 1 \in P
  <2> DEFINE c == subs[k + 1]
             s == p[k]
             t == p[k + 1]
  <2>0. ASSUME k + 1 <= n PROVE Good(k + 1)
    <3>1. k \in 0..(n - 1) /\ k + 1 \in 1..n BY <1>2, <2>0
    <3>2. Good(k)
      <4> HIDE DEF Good
      <4> QED BY <1>2, <1>4, <3>1
    <3>3. t = Target(u, s, c) /\ c \in Conn BY <1>1, <1>2, <3>1
    <3>4. \A i \in 1..k : subs[i] # c
      BY <1>2, <3>1 DEF Once
    <3>5. \A d : (\E i \in 1..(k + 1) : subs[i] = d /\ connUser[d] # u)
                 <=> \/ \E i \in 1..k : subs[i] = d /\ connUser[d] # u
                     \/ d = c /\ connUser[d] # u
      <4>1. 1..(k + 1) = (1..k) \cup {k + 1} OBVIOUS
      <4> QED BY <4>1
    <3>6. CASE connUser[c] = u
      <4>1. t = s BY <3>3, <3>6 DEF Target
      <4> QED BY <3>2, <3>5, <3>6, <4>1
    <3>7. CASE connUser[c] # u
      <4>1. t = Append(s, c) BY <3>3, <3>7 DEF Target
      <4>2. ~Listed(c, s) BY <3>2, <3>4
      <4>3. /\ t \in Seq(Conn) /\ Once(t)
            /\ \A d : Listed(d, t) <=> Listed(d, s) \/ d = c
        <5> HIDE DEF s, t, c
        <5>1. s \in Seq(Conn) /\ Once(s) BY <3>2 DEF s
        <5> QED BY <3>3, <4>1, <4>2, <5>1, AppendList
      <4> QED BY <3>2, <3>5, <3>7, <4>3
    <3> QED BY <3>6, <3>7
  <2> HIDE DEF Good
  <2> QED BY <2>0
<1>5. n \in P
  <2> HIDE DEF P
  <2> QED BY <1>2, <1>3, <1>4, SetInduction
<1>6. Good(n)
  <2> HIDE DEF Good
  <2> QED BY <1>2, <1>5
<1> QED BY <1>1, <1>2, <1>6 DEF Listed

-----------------------------------------------------------------------------
(* The inductive invariant *)

USE DEF ConnPc, LoopPc

LEMMA PublishAll ==
  ASSUME Types, ListIsRight, NEW n \in LoopNotes, PubAll(LoopPub, n)
  PROVE  /\ todo'[LoopPub] = subs
         /\ \A c \in Conn : Open(c) => Listed(c, todo'[LoopPub])
         /\ todo'[LoopPub] # <<>> => note'[LoopPub] = n
         /\ DOMAIN todo' = Publisher /\ DOMAIN note' = Publisher
BY DEF Types, ListIsRight, PubAll, Begin, Publisher, Subscribed

LEMMA InitIInv == Init => IInv
<1> SUFFICES ASSUME Init PROVE IInv
  OBVIOUS
<1>1. Types
  BY EmptySeq DEF Init, Types, Publisher
<1>2. ListIsRight
  <2>1. DOMAIN subs = {} BY DEF Init
  <2> QED BY <2>1 DEF Init, ListIsRight, Once, Listed, Subscribed, Open, Reading
<1>3. FreshIsSilent /\ LoopTells
  BY DEF Init, FreshIsSilent, LoopTells, Publisher
<1> QED BY <1>1, <1>2, <1>3 DEF IInv

\* Steps that leave the subscriptions, the connections and the loop alone.
LEMMA PostStep ==
  ASSUME IInv, NEW p \in Poster, Post(p)
  PROVE  IInv'
<1>1. p # LoopPub /\ p \in Publisher BY StreamAssumption DEF Publisher
<1>2. UNCHANGED <<subs, connPc, heard, loopPc>> BY DEF Post, connVars
<1>3. /\ DOMAIN todo' = Publisher /\ DOMAIN note' = Publisher
      /\ todo'[LoopPub] = todo[LoopPub] /\ note'[LoopPub] = note[LoopPub]
  BY <1>1 DEF IInv, Types, Post, Pub, PubAll, Begin, Publisher
<1>4. Types' BY <1>2, <1>3 DEF IInv, Types
<1>5. ListIsRight' /\ FreshIsSilent'
  BY <1>2 DEF IInv, ListIsRight, FreshIsSilent, Subscribed, Open, Reading
<1>6. LoopTells' BY <1>2, <1>3 DEF IInv, LoopTells, UpToDate, Open, Reading
<1> QED BY <1>4, <1>5, <1>6 DEF IInv

\* A send: the loop's reaches the connection it was still to reach.
LEMMA SendStep ==
  ASSUME IInv, NEW p \in Publisher, Send(p)
  PROVE  IInv'
<1> DEFINE c == Head(todo[p])
<1>1. /\ todo[p] # <<>> /\ Reading(c)
      /\ heard' = [heard EXCEPT ![c] = IF p = LoopPub THEN note[p] ELSE @]
      /\ UNCHANGED <<subs, loopPc>>
      /\ todo' = [todo EXCEPT ![p] = Tail(@)]
      /\ note' = [note EXCEPT ![p] = IF Len(todo[p]) = 1 THEN None ELSE @]
  BY DEF Send, Fail, Advance, ConnGoto, Reading
<1>2. \E to \in {"write", "leave"} : connPc' = [connPc EXCEPT ![c] = to]
  BY DEF Send, Fail, ConnGoto
<1> HIDE DEF c
<1>3. \A d \in Conn : (Subscribed(d) <=> Subscribed(d)') /\ (Open(d)' => Open(d))
                      /\ (connPc'[d] = "free" => connPc[d] = "free")
  BY <1>1, <1>2 DEF IInv, Types, Subscribed, Open, Reading
<1>4. ListIsRight'
  BY <1>1, <1>3 DEF IInv, ListIsRight
<1>5. CASE p = LoopPub
  <2> DEFINE n == note[LoopPub]
  <2>1. todo[LoopPub] \in Seq(Conn) /\ todo[LoopPub] # <<>> /\ c = Head(todo[LoopPub])
    BY <1>1, <1>5 DEF IInv, Types, c
  <2>2. /\ c \in Conn /\ todo'[LoopPub] = Tail(todo[LoopPub])
        /\ todo'[LoopPub] \in Seq(Conn)
        /\ \A d : Listed(d, todo[LoopPub]) => d = c \/ Listed(d, todo'[LoopPub])
        /\ DOMAIN todo' = Publisher /\ DOMAIN note' = Publisher
    <3>1. /\ todo'[LoopPub] = Tail(todo[LoopPub])
          /\ DOMAIN todo' = Publisher /\ DOMAIN note' = Publisher
      BY <1>1, <1>5 DEF IInv, Types, Publisher
    <3>2. c \in Conn /\ todo'[LoopPub] \in Seq(Conn)
      BY <2>1, <3>1, HeadTailProperties
    <3>3. \A d : Listed(d, todo[LoopPub]) => d = c \/ Listed(d, todo'[LoopPub])
      BY <2>1, <3>1, TailKeeps
    <3> QED BY <3>1, <3>2, <3>3
  <2>3. todo'[LoopPub] # <<>> => note'[LoopPub] = n
    <3>1. ASSUME Len(todo[LoopPub]) = 1 PROVE todo'[LoopPub] = <<>>
      <4>1. Len(todo'[LoopPub]) = 0
        BY <2>1, <2>2, <3>1, HeadTailProperties
      <4>2. todo'[LoopPub] \in Seq(Conn) BY <2>2
      <4> QED BY <4>1, <4>2, EmptySeq
    <3>2. ASSUME Len(todo[LoopPub]) # 1 PROVE note'[LoopPub] = n
      BY <1>1, <1>5, <3>2 DEF IInv, Types, Publisher
    <3> QED BY <3>1, <3>2
  <2>4. /\ n \in LoopNotes
        /\ loopPc = "ended" => n = TurnEnded
        /\ loopPc = "new" => n = NewTurn
        /\ loopPc \in {"ended", "new"}
    BY <2>1 DEF IInv, Types, LoopTells, UpToDate, LoopNotes
  <2>5. heard'[c] = n /\ \A d \in Conn : d # c => heard'[d] = heard[d]
    BY <1>1, <1>5, <2>2 DEF IInv, Types
  <2>6. Types'
    BY <1>1, <1>2, <1>5, <2>2, <2>4 DEF IInv, Types
  <2>7. FreshIsSilent'
    BY <1>1, <1>3, <1>2, <2>2, <2>5 DEF IInv, Types, FreshIsSilent, Open, Reading
  <2>8. \A d \in Conn : Open(d)' /\ heard'[d] # None
                        => heard'[d] = n \/ Listed(d, todo'[LoopPub])
    BY <1>3, <2>2, <2>4, <2>5 DEF IInv, LoopTells, UpToDate
  <2>9. LoopTells'
    BY <1>1, <2>3, <2>4, <2>8 DEF LoopTells, UpToDate, Open, Reading
  <2> QED BY <1>4, <2>6, <2>7, <2>9 DEF IInv
<1>6. CASE p # LoopPub
  <2>1. todo'[LoopPub] = todo[LoopPub] /\ note'[LoopPub] = note[LoopPub] /\ heard' = heard
    BY <1>1, <1>6 DEF IInv, Types, Publisher
  <2>2. Types'
    BY <1>1, <1>2, <2>1 DEF IInv, Types
  <2>3. FreshIsSilent' /\ LoopTells'
    BY <1>1, <1>3, <2>1 DEF IInv, FreshIsSilent, LoopTells, UpToDate
  <2> QED BY <1>4, <2>2, <2>3 DEF IInv
<1> QED BY <1>5, <1>6

\* Steps of a connection that is neither made nor cleaned up.
LEMMA ConnStep ==
  ASSUME IInv, NEW c \in Conn,
         Write(c) \/ GoAway(c) \/ ConnDone(c) \/ KickCheck(c) \/ KickWrite(c)
         \/ \E u \in User : ConnectFails(c, u)
  PROVE  IInv'
<1>1. /\ UNCHANGED <<subs, heard, loopPc, todo, note>>
      /\ \/ connPc' = connPc
         \/ \E from, to \in ConnPc :
              /\ <<from, to>> \in
                   {<<"select", "leave">>, <<"write", "select">>, <<"write", "leave">>,
                    <<"sleep", "done">>, <<"free", "done">>,
                    <<"sleep", "kick">>, <<"kick", "done">>, <<"kick", "failed">>}
              /\ connPc[c] = from /\ connPc' = [connPc EXCEPT ![c] = to]
  BY DEF Write, Fail, GoAway, ConnDone, KickCheck, KickWrite, ConnectFails, ConnGoto, ConnPc,
         pubVars
<1>2. \A d \in Conn : (Subscribed(d) <=> Subscribed(d)') /\ (Open(d)' => Open(d))
                      /\ (connPc'[d] = "free" => connPc[d] = "free")
  BY <1>1 DEF IInv, Types, Subscribed, Open, Reading
<1>3. Types' BY <1>1 DEF IInv, Types
<1>4. ListIsRight' /\ FreshIsSilent'
  BY <1>1, <1>2 DEF IInv, ListIsRight, FreshIsSilent
<1>5. LoopTells' BY <1>1, <1>2 DEF IInv, LoopTells, UpToDate
<1> QED BY <1>3, <1>4, <1>5 DEF IInv

\* A new subscription.
LEMMA ConnectStep ==
  ASSUME IInv, NEW c \in Conn, NEW u \in User, Connect(c, u)
  PROVE  IInv'
<1>1. /\ connPc[c] = "free" /\ connPc' = [connPc EXCEPT ![c] = "select"]
      /\ subs' = Append(subs, c)
      /\ UNCHANGED <<heard, loopPc, todo, note>>
  BY DEF Connect, ConnGoto, pubVars
<1>2. /\ Subscribed(c)' /\ ~Subscribed(c) /\ heard[c] = None
      /\ \A d \in Conn \ {c} : connPc'[d] = connPc[d]
  BY <1>1 DEF IInv, Types, FreshIsSilent, Subscribed, Open, Reading
<1>3. /\ subs' \in Seq(Conn) /\ Once(subs')
      /\ \A d : Listed(d, subs') <=> Listed(d, subs) \/ d = c
  BY <1>1, <1>2, AppendList DEF IInv, Types, ListIsRight
<1>4. Types' BY <1>1, <1>3 DEF IInv, Types
<1>5. ListIsRight'
  BY <1>2, <1>3 DEF IInv, ListIsRight, Subscribed, Open, Reading
<1>6. FreshIsSilent' BY <1>1, <1>2 DEF IInv, FreshIsSilent
<1>7. LoopTells' BY <1>1, <1>2 DEF IInv, LoopTells, UpToDate, Open, Reading
<1> QED BY <1>4, <1>5, <1>6, <1>7 DEF IInv

\* A subscription is removed.
LEMMA CleanupStep ==
  ASSUME IInv, NEW c \in Conn, Cleanup(c)
  PROVE  IInv'
<1>1. /\ connPc[c] = "leave" /\ connPc' = [connPc EXCEPT ![c] = "sleep"]
      /\ heard' = [heard EXCEPT ![c] = None]
      /\ UNCHANGED <<loopPc, todo, note>>
  BY DEF Cleanup, ConnGoto, pubVars
<1>2. PICK i \in DOMAIN subs : subs[i] = c /\ subs' = RemoveAt(subs, i)
  BY DEF Cleanup
<1>3. /\ subs' \in Seq(Conn) /\ Once(subs')
      /\ \A d : Listed(d, subs') <=> Listed(d, subs) /\ d # c
  BY <1>2, RemoveList DEF IInv, Types, ListIsRight
<1>4. /\ ~Subscribed(c)' /\ connPc'[c] # "free" /\ heard'[c] = None
      /\ \A d \in Conn \ {c} : connPc'[d] = connPc[d] /\ heard'[d] = heard[d]
  BY <1>1 DEF IInv, Types, Subscribed, Open, Reading
<1>5. Types' BY <1>1, <1>3 DEF IInv, Types
<1>6. ListIsRight'
  BY <1>3, <1>4 DEF IInv, ListIsRight, Subscribed, Open, Reading
<1>7. FreshIsSilent' BY <1>4 DEF IInv, FreshIsSilent
<1>8. LoopTells' BY <1>1, <1>4 DEF IInv, LoopTells, UpToDate, Open, Reading
<1> QED BY <1>5, <1>6, <1>7, <1>8 DEF IInv

\* The loop: what it publishes is still to be sent to every reader.
LEMMA LoopLemma ==
  ASSUME IInv, LoopStep \/ \E u \in User : JoinGame(u)
  PROVE  IInv'
<1>1. UNCHANGED <<subs, connPc, heard>>
  BY DEF LoopStep, TurnEndPublish, TurnEndWait, TurnEndCount, TurnEndStop, TurnEndNewTurn,
         TurnEndReturn, JoinGame, connVars
<1>2. ListIsRight' /\ FreshIsSilent'
  BY <1>1 DEF IInv, ListIsRight, FreshIsSilent, Subscribed, Open, Reading
<1>3. ASSUME NEW n \in LoopNotes, PubAll(LoopPub, n),
             \/ n = TurnEnded /\ loopPc' = "ended"
             \/ n = NewTurn /\ loopPc' = "new"
      PROVE  IInv'
  <2>1. /\ todo'[LoopPub] = subs
        /\ \A c \in Conn : Open(c) => Listed(c, todo'[LoopPub])
        /\ todo'[LoopPub] # <<>> => note'[LoopPub] = n
        /\ DOMAIN todo' = Publisher /\ DOMAIN note' = Publisher
    BY <1>3, PublishAll DEF IInv
  <2>2. Types' BY <1>1, <1>3, <2>1 DEF IInv, Types
  <2>3. UpToDate(n)' BY <1>1, <2>1 DEF UpToDate, Open, Reading
  <2>4. LoopTells' BY <1>3, <2>3 DEF LoopTells
  <2> QED BY <1>2, <2>2, <2>4 DEF IInv
<1>4. CASE TurnEndPublish
  BY <1>3, <1>4 DEF TurnEndPublish, LoopNotes
<1>5. CASE TurnEndNewTurn
  BY <1>3, <1>5 DEF TurnEndNewTurn, LoopNotes
<1>6. CASE \/ TurnEndWait \/ TurnEndCount \/ TurnEndStop \/ TurnEndReturn
           \/ \E u \in User : JoinGame(u)
  <2>1. UNCHANGED <<todo, note>>
    BY <1>6 DEF TurnEndWait, TurnEndCount, TurnEndStop, TurnEndReturn, JoinGame, pubVars
  <2>2. \/ loopPc' = loopPc
        \/ loopPc = "off" /\ loopPc' = "turn"
        \/ loopPc = "ended" /\ todo[LoopPub] = <<>> /\ loopPc' = "wait"
        \/ loopPc = "wait" /\ loopPc' = "seat"
        \/ loopPc \in {"wait", "seat"} /\ loopPc' = "off"
        \/ loopPc = "new" /\ todo[LoopPub] = <<>> /\ loopPc' = "turn"
    BY <1>6 DEF TurnEndWait, TurnEndCount, TurnEndStop, TurnEndReturn, JoinGame
  <2>3. Types' BY <1>1, <2>1, <2>2 DEF IInv, Types
  <2>4. LoopTells' BY <1>1, <2>1, <2>2 DEF IInv, LoopTells, UpToDate, Open, Reading
  <2> QED BY <1>2, <2>3, <2>4 DEF IInv
<1> QED BY <1>4, <1>5, <1>6 DEF LoopStep

LEMMA NextIInv == IInv /\ [Next]_vars => IInv'
<1> SUFFICES ASSUME IInv, [Next]_vars PROVE IInv'
  OBVIOUS
<1>1. CASE UNCHANGED vars
  <2>1. UNCHANGED <<subs, connPc, heard, loopPc, todo, note>>
    BY <1>1 DEF vars, connVars, pubVars
  <2> QED
    BY <2>1 DEF IInv, Types, ListIsRight, FreshIsSilent, LoopTells, UpToDate, Subscribed,
                Open, Reading
<1>2. ASSUME NEW p \in Publisher, Send(p) PROVE IInv' BY <1>2, SendStep
<1>3. ASSUME NEW p \in Poster, Post(p) PROVE IInv' BY <1>3, PostStep
<1>4. ASSUME NEW c \in Conn, NEW u \in User, Connect(c, u) \/ ConnectFails(c, u) PROVE IInv'
  BY <1>4, ConnectStep, ConnStep
<1>5. ASSUME NEW c \in Conn, Write(c) \/ GoAway(c) \/ LeaveStep(c) PROVE IInv'
  BY <1>5, ConnStep, CleanupStep DEF LeaveStep
<1>6. CASE LoopStep \/ \E u \in User : JoinGame(u) BY <1>6, LoopLemma
<1> QED BY <1>1, <1>2, <1>3, <1>4, <1>5, <1>6 DEF Next

LEMMA IInvHolds == FairSpec => []IInv
<1>1. Init => IInv BY InitIInv
<1>2. IInv /\ [Next]_vars => IInv' BY NextIInv
<1> QED BY <1>1, <1>2, PTL DEF FairSpec

-----------------------------------------------------------------------------
(* Theorems *)

\* Whatever tabs a user opens and closes and whoever publishes meanwhile, the list of
\* subscriptions holds each connection that has subscribed and not been cleaned up,
\* once (gamenotifier.go:76-97).
THEOREM SubscriptionsExact == FairSpec => []ReaderSubscribed
<1>1. IInv => ReaderSubscribed
  <2> SUFFICES ASSUME IInv PROVE ReaderSubscribed
    OBVIOUS
  <2>1. \A c : (\E i \in DOMAIN subs : subs[i] = c)
               <=> c \in {d \in Conn : Open(d) \/ connPc[d] = "leave"}
    <3>1. \A i \in DOMAIN subs : subs[i] \in Conn
      BY LenProperties, ElementOfSeq DEF IInv, Types
    <3> QED BY <3>1 DEF IInv, ListIsRight, Listed, Subscribed
  <2> QED BY <2>1 DEF IInv, ListIsRight, Once, ReaderSubscribed
<1> QED BY <1>1, IInvHolds, PTL

\* However the loop's notifications interleave with those of requests, when onTurnEnd
\* goes on every reader that has heard it before has heard what it published last
\* (emojix.go:689, :722, gamenotifier.go:115-129).
THEOREM LoopLeavesNobodyBehind == FairSpec => []NobodyLeftBehind
<1>1. IInv => NobodyLeftBehind
  <2> SUFFICES ASSUME IInv, NEW c \in Conn, Open(c), heard[c] # None
               PROVE  /\ loopPc \in {"wait", "seat"} => heard[c] = TurnEnded
                      /\ loopPc = "new" /\ todo[LoopPub] = <<>> => heard[c] = NewTurn
    BY DEF NobodyLeftBehind
  <2>1. todo[LoopPub] = <<>> => ~Listed(c, todo[LoopPub])
    BY DEF Listed
  <2> QED BY <2>1 DEF IInv, LoopTells, UpToDate
<1> QED BY <1>1, IInvHolds, PTL
-----------------------------------------------------------------------------
(* What is published, and to whom *)

\* A publisher's list names nobody twice.
SentOnce == \A p \in Publisher : Once(todo[p])

PubTypes ==
  /\ todo \in [Publisher -> Seq(Conn)]
  /\ note \in [Publisher -> Notes \cup {None}]
  /\ \A p \in Publisher : todo[p] # <<>> => note[p] # None

UserTypes ==
  /\ active \subseteq User
  /\ connUser \in [Conn -> User \cup {None}]
  /\ \A c \in Conn : connPc[c] \in {"free", "done"} \/ connUser[c] # None
  /\ gone \subseteq Conn

PInv == PubTypes /\ SentOnce /\ UserTypes

\* Publishing to a list that names nobody twice.
LEMMA BeginPublishes ==
  ASSUME PubTypes, SentOnce, NEW p \in Publisher, NEW targets \in Seq(Conn), Once(targets),
         NEW n \in Notes, Begin(p, targets, n)
  PROVE  PubTypes' /\ SentOnce'
<1>1. todo' \in [Publisher -> Seq(Conn)] /\ note' \in [Publisher -> Notes \cup {None}]
  BY DEF PubTypes, Begin
<1>2. ASSUME NEW q \in Publisher
      PROVE  Once(todo'[q]) /\ (todo'[q] # <<>> => note'[q] # None)
  BY NoneIsNoNote DEF PubTypes, SentOnce, Begin
<1> QED BY <1>1, <1>2 DEF PubTypes, SentOnce

\* What is left of a list after its first.
LEMMA TailOnce ==
  ASSUME NEW S, NEW s \in Seq(S), s # <<>>, Once(s)
  PROVE  /\ Head(s) \in S /\ Tail(s) \in Seq(S) /\ Once(Tail(s))
         /\ Len(s) = 1 => Tail(s) = <<>>
<1>1. /\ Len(s) \in Nat /\ DOMAIN s = 1..Len(s) /\ Head(s) \in S
      /\ Tail(s) \in Seq(S) /\ Len(Tail(s)) = Len(s) - 1
      /\ \A i \in 1..(Len(s) - 1) : Tail(s)[i] = s[i + 1]
  BY HeadTailProperties, LenProperties
<1>2. DOMAIN Tail(s) = 1..(Len(s) - 1) BY <1>1, LenProperties
<1>3. Once(Tail(s))
  <2> SUFFICES ASSUME NEW i \in 1..(Len(s) - 1), NEW j \in 1..(Len(s) - 1),
                      Tail(s)[i] = Tail(s)[j]
               PROVE  i = j
    BY <1>2 DEF Once
  <2>1. i + 1 \in DOMAIN s /\ j + 1 \in DOMAIN s /\ s[i + 1] = s[j + 1] BY <1>1
  <2>2. i + 1 = j + 1 BY <2>1 DEF Once
  <2> QED BY <1>1, <2>2
<1>4. ASSUME Len(s) = 1 PROVE Tail(s) = <<>>
  <2>1. Len(Tail(s)) = 0 /\ Tail(s) \in Seq(S) BY <1>1, <1>4
  <2> QED BY <2>1, EmptySeq
<1> QED BY <1>1, <1>3, <1>4

LEMMA AdvancePublishes ==
  ASSUME PubTypes, SentOnce, NEW p \in Publisher, todo[p] # <<>>, Advance(p)
  PROVE  PubTypes' /\ SentOnce'
<1>1. /\ Tail(todo[p]) \in Seq(Conn) /\ Once(Tail(todo[p]))
      /\ Len(todo[p]) = 1 => Tail(todo[p]) = <<>>
  <2>1. todo[p] \in Seq(Conn) /\ Once(todo[p]) BY DEF PubTypes, SentOnce
  <2> QED BY <2>1, TailOnce
<1>2. todo' \in [Publisher -> Seq(Conn)] /\ note' \in [Publisher -> Notes \cup {None}]
  BY <1>1 DEF PubTypes, Advance
<1>3. ASSUME NEW q \in Publisher
      PROVE  Once(todo'[q]) /\ (todo'[q] # <<>> => note'[q] # None)
  <2>1. CASE q = p BY <1>1, <2>1 DEF PubTypes, Advance
  <2>2. CASE q # p BY <2>2 DEF PubTypes, SentOnce, Advance
  <2> QED BY <2>1, <2>2
<1> QED BY <1>2, <1>3 DEF PubTypes, SentOnce

LEMMA NotesHave ==
  TurnEnded \in Notes /\ NewTurn \in Notes /\ Other \in Notes /\ Chats \subseteq Notes
BY DEF Notes

LEMMA PublishingStep ==
  ASSUME IInv, PubTypes, SentOnce, [Next]_vars
  PROVE  PubTypes' /\ SentOnce'
<1>1. CASE UNCHANGED pubVars BY <1>1 DEF pubVars, PubTypes, SentOnce
<1>2. ASSUME NEW p \in Publisher, Send(p) PROVE PubTypes' /\ SentOnce'
  BY <1>2, AdvancePublishes DEF Send
<1>3. subs \in Seq(Conn) /\ Once(subs) BY DEF IInv, Types, ListIsRight
<1>4. ASSUME NEW p \in Publisher, NEW n \in Notes, PubAll(p, n) PROVE PubTypes' /\ SentOnce'
  BY <1>3, <1>4, BeginPublishes DEF PubAll
<1>5. ASSUME NEW p \in Publisher, NEW u \in User, NEW n \in Notes, Pub(p, u, n)
      PROVE  PubTypes' /\ SentOnce'
  <2>1. Others(u) \in Seq(Conn) /\ Once(Others(u)) BY <1>3, OthersList
  <2> QED BY <1>5, <2>1, BeginPublishes DEF Pub
<1>6. ASSUME NEW p \in Poster, Post(p) PROVE PubTypes' /\ SentOnce'
  <2>1. p \in Publisher BY DEF Publisher
  <2>2. CASE PubAll(p, Other) BY <1>4, <2>1, <2>2, NotesHave
  <2>3. ASSUME NEW u \in Sender, NEW n \in Chats \cup {Other}, Pub(p, u, n)
        PROVE  PubTypes' /\ SentOnce'
    BY <1>5, <2>1, <2>3, NotesHave, StreamAssumption
  <2> QED BY <1>6, <2>2, <2>3 DEF Post
<1>7. CASE TurnEndPublish \/ TurnEndNewTurn
  BY <1>4, <1>7, NotesHave DEF TurnEndPublish, TurnEndNewTurn, Publisher
<1>8. CASE \/ TurnEndWait \/ TurnEndCount \/ TurnEndStop \/ TurnEndReturn
           \/ \E u \in User : JoinGame(u)
  BY <1>1, <1>8 DEF TurnEndWait, TurnEndCount, TurnEndStop, TurnEndReturn, JoinGame
<1>9. ASSUME NEW c \in Conn,
             \/ Write(c) \/ GoAway(c) \/ LeaveStep(c)
             \/ \E u \in User : Connect(c, u) \/ ConnectFails(c, u)
      PROVE  PubTypes' /\ SentOnce'
  BY <1>1, <1>9
     DEF Write, GoAway, LeaveStep, ConnDone, Cleanup, KickCheck, KickWrite, Connect,
         ConnectFails
<1>10. CASE UNCHANGED vars BY <1>1, <1>10 DEF vars, pubVars
<1> QED BY <1>2, <1>6, <1>7, <1>8, <1>9, <1>10 DEF Next, LoopStep

\* Who is on a connection.
LEMMA UserStep ==
  ASSUME IInv, UserTypes, [Next]_vars
  PROVE  UserTypes'
<1>1. connPc \in [Conn -> ConnPc] BY DEF IInv, Types
<1>2. ASSUME UNCHANGED <<active, connUser>>, gone' \subseteq Conn,
             \/ UNCHANGED connPc
             \/ \E c \in Conn, from, to \in ConnPc :
                  /\ connPc[c] = from /\ connPc' = [connPc EXCEPT ![c] = to]
                  /\ from # "free" \/ to = "done"
                  /\ from # "done"
      PROVE  UserTypes'
  BY <1>1, <1>2 DEF UserTypes
<1>3. ASSUME NEW p \in Publisher, Send(p) PROVE UserTypes'
  <2>1. UNCHANGED <<active, connUser, gone>> BY <1>3 DEF Send
  <2>2. \E c, to : connPc[c] = "select" /\ to \in {"write", "leave"}
                  /\ connPc' = [connPc EXCEPT ![c] = to]
    BY <1>3 DEF Send, Fail, ConnGoto
  <2> QED BY <1>1, <2>1, <2>2 DEF UserTypes
<1>4. ASSUME NEW c \in Conn, NEW u \in User, Connect(c, u) PROVE UserTypes'
  <2>1. /\ connPc' = [connPc EXCEPT ![c] = "select"]
        /\ connUser' = [connUser EXCEPT ![c] = u] /\ u # None
        /\ UNCHANGED <<active, gone>>
    BY <1>4, StreamAssumption DEF Connect, ConnGoto
  <2> QED BY <1>1, <2>1 DEF UserTypes
<1>5. ASSUME NEW c \in Conn, NEW u \in User, ConnectFails(c, u) PROVE UserTypes'
  BY <1>2, <1>5 DEF ConnectFails, ConnGoto, UserTypes
<1>6. ASSUME NEW c \in Conn,
             Write(c) \/ GoAway(c) \/ ConnDone(c) \/ Cleanup(c) \/ KickCheck(c)
      PROVE  UserTypes'
  <2>1. UNCHANGED <<active, connUser>> /\ gone' \subseteq Conn
    BY <1>6 DEF Write, GoAway, ConnDone, Cleanup, KickCheck, UserTypes
  <2>2. \/ UNCHANGED connPc
        \/ \E from, to \in ConnPc :
             /\ connPc[c] = from /\ connPc' = [connPc EXCEPT ![c] = to]
             /\ from \in {"select", "write", "leave", "sleep"}
    BY <1>6 DEF Write, Fail, GoAway, ConnDone, Cleanup, KickCheck, ConnGoto
  <2> QED BY <1>1, <2>1, <2>2 DEF UserTypes
<1>7. ASSUME NEW c \in Conn, KickWrite(c) PROVE UserTypes'
  <2>1. /\ UNCHANGED <<connUser, gone>> /\ active' \subseteq User
        /\ connPc[c] = "kick"
        /\ connPc' = [connPc EXCEPT ![c] = "done"] \/ connPc' = [connPc EXCEPT ![c] = "failed"]
    BY <1>7 DEF KickWrite, ConnGoto, UserTypes
  <2> QED BY <1>1, <2>1 DEF UserTypes
<1>8. CASE LoopStep \/ \E u \in User : JoinGame(u)
  <2>1. UNCHANGED <<connPc, connUser, gone>> /\ active' \subseteq User
    BY <1>8 DEF LoopStep, TurnEndPublish, TurnEndWait, TurnEndCount, TurnEndStop,
                TurnEndNewTurn, TurnEndReturn, JoinGame, connVars, UserTypes
  <2> QED BY <2>1 DEF UserTypes
<1>9. ASSUME NEW p \in Poster, Post(p) PROVE UserTypes'
  BY <1>9 DEF Post, connVars, UserTypes
<1>10. CASE UNCHANGED vars BY <1>10 DEF vars, connVars, UserTypes
<1> QED
  BY <1>3, <1>4, <1>5, <1>6, <1>7, <1>8, <1>9, <1>10 DEF Next, LeaveStep

LEMMA PInvHolds == FairSpec => [](IInv /\ PInv)
<1>1. Init => PInv
  <2> SUFFICES ASSUME Init PROVE PInv
    OBVIOUS
  <2>1. PubTypes BY EmptySeq DEF Init, PubTypes
  <2>2. SentOnce BY DEF Init, SentOnce, Once
  <2>3. UserTypes BY DEF Init, UserTypes
  <2> QED BY <2>1, <2>2, <2>3 DEF PInv
<1>2. IInv /\ PInv /\ [Next]_vars => PInv'
  BY PublishingStep, UserStep DEF PInv
<1> QED BY <1>1, <1>2, IInvHolds, PTL DEF FairSpec

\* Every variable keeps its type; a publisher with somebody left to send to has
\* something to send, and a connection that was made has a user.
THEOREM StreamTypes == FairSpec => []TypeOK
<1>1. IInv /\ PInv => TypeOK
  BY DEF IInv, PInv, Types, PubTypes, UserTypes, TypeOK, LoopNotes
<1> QED BY <1>1, PInvHolds, PTL

\* One publication reaches a connection once at most, however many tabs are opened and
\* closed while it is sent; the list Pub makes for a player names every connection
\* subscribed but the player's own (gamenotifier.go:99-129).
THEOREM NobodyToldTwice ==
  FairSpec => [](/\ SentOnce
                 /\ \A u \in User, c \in Conn :
                      Listed(c, Others(u)) <=> Listed(c, subs) /\ connUser[c] # u)
<1>1. IInv /\ PInv
        => /\ SentOnce
           /\ \A u \in User, c \in Conn :
                Listed(c, Others(u)) <=> Listed(c, subs) /\ connUser[c] # u
  BY OthersList DEF IInv, PInv, Types, ListIsRight
<1> QED BY <1>1, PInvHolds, PTL

\* A line without a comma of its own, however long, is shown as it was published and
\* ends nobody's stream (emojix.go:508-538).
THEOREM LinesShownAsSent == FairSpec => []ShownAsSent
<1>1. ASSUME NEW n \in Chats, ~Contains(Message(n).content, Comma)
      PROVE  Parses(GetData(Message(n))) /\ ParseData(GetData(Message(n))) = Message(n)
  <2> DEFINE All == Char \cup {Comma, "1"}
  <2>1. Name \in Plain(All)
    <3>1. Char \ {Comma} \subseteq All \ {Comma} OBVIOUS
    <3> QED BY <3>1, StreamAssumption, SeqMonotonic DEF Plain
  <2>2. n.content \in Seq(Char) /\ n.system \in BOOLEAN
    <3>1. Char \ {Comma} \subseteq Char OBVIOUS
    <3>2. Name \in Seq(Char) BY <3>1, StreamAssumption, SeqMonotonic
    <3>3. (n.content \in Content \/ n.content = Name) /\ n.system \in BOOLEAN
      <4>1. CASE \E text \in Content : n = Chat(text, FALSE) BY <4>1 DEF Chat
      <4>2. CASE n = Chat(Name, TRUE) BY <4>2 DEF Chat
      <4> QED BY <4>1, <4>2 DEF Chats
    <3> QED BY <3>2, <3>3, StreamAssumption
  <2>3. n.content \in Plain(All)
    <3>1. Len(n.content) \in Nat /\ n.content \in [1..Len(n.content) -> Char]
      BY <2>2, LenProperties
    <3>2. \A i \in 1..Len(n.content) : n.content[i] \in All \ {Comma}
      BY <1>1, <3>1 DEF Contains, Message
    <3> HIDE DEF All
    <3>3. n.content \in [1..Len(n.content) -> All \ {Comma}] BY <3>1, <3>2
    <3> QED BY <3>1, <3>3, SeqDef DEF Plain
  <2> HIDE DEF All
  <2>4. Comma \in All /\ "1" \in All BY DEF All
  <2> QED BY <2>1, <2>2, <2>3, <2>4, RoundTrip DEF Message
<1>2. ShownAsSent BY <1>1 DEF ShownAsSent
<1> QED BY <1>2, PTL
=============================================================================
