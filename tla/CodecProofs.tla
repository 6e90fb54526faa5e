---------------------------- MODULE CodecProofs ----------------------------
(***************************************************************************)
(* Theorems about MsgCodec.tla, for lines of any length, and the induction *)
(* they need.  The induction theorems of the library take the formula as   *)
(* an operator; here it is a set, and the theorem behind both is that less *)
(* than is well-founded on the natural numbers.                            *)
(***************************************************************************)
EXTENDS MsgCodec, FiniteSetTheorems, SequenceTheorems, WellFoundedInduction, TLAPS

-----------------------------------------------------------------------------
(* Induction *)

LEMMA SetInduction ==
  ASSUME NEW T, 0 \in T, \A n \in Nat : n \in T => n + 1 \in T
  PROVE  Nat \subseteq T
<1> DEFINE R == OpToRel(<, Nat)
           U == Nat \ T
<1>1. IsWellFoundedOn(R, Nat) BY NatLessThanWellFounded
<1>2. R = {p \in Nat \X Nat : p[1] < p[2]} BY DEF OpToRel
<1> HIDE DEF R
<1>3. ASSUME U # {} PROVE FALSE
  <2>1. PICK x \in U : \A y \in U : ~ (<<y, x>> \in R)
    BY <1>1, <1>3, WFMin
  <2>2. x \in Nat /\ x # 0 OBVIOUS
  <2>3. x - 1 \in Nat /\ (x - 1) + 1 = x BY <2>2
  <2>4. x - 1 \in U BY <2>2, <2>3
  <2>5. <<x - 1, x>> \in R BY <1>2, <2>2, <2>3
  <2> QED BY <2>1, <2>4, <2>5
<1> QED BY <1>3

\* Every set of positions has a last one.
LEMMA LastPosition ==
  ASSUME NEW n \in Nat, NEW T \in SUBSET (1..n), T # {}
  PROVE  Max(T) \in T /\ \A x \in T : x <= Max(T)
<1> DEFINE HasLast(U) == \E x \in U : \A y \in U : x >= y
           P == {k \in Nat : \A U \in SUBSET (1..k) : U # {} => HasLast(U)}
<1>1. 0 \in P
  <2>1. \A U \in SUBSET (1..0) : U = {} OBVIOUS
  <2> QED BY <2>1
<1>2. ASSUME NEW k \in Nat, k \in P PROVE k + 1 \in P
  <2> SUFFICES ASSUME NEW U \in SUBSET (1..(k + 1)), U # {} PROVE HasLast(U)
    OBVIOUS
  <2>1. CASE k + 1 \in U BY <2>1
  <2>2. CASE k + 1 \notin U
    <3>1. U \in SUBSET (1..k) BY <2>2
    <3> QED BY <1>2, <3>1
  <2> QED BY <2>1, <2>2
<1>3. n \in P
  <2> HIDE DEF P
  <2> QED BY <1>1, <1>2, SetInduction
<1>4. HasLast(T) BY <1>3
<1>5. \A y \in T : Max(T) >= y /\ Max(T) \in T
  BY <1>4, Zenon DEF Max
<1>6. Max(T) \in T BY <1>5
<1> QED BY <1>5, <1>6

\* The positions a fold from the left has still to visit.
LEMMA LastOfPrefix ==
  ASSUME NEW k \in Nat
  PROVE  /\ 1..(k + 1) # {} /\ Max(1..(k + 1)) = k + 1
         /\ (1..(k + 1)) \ {k + 1} = 1..k
<1>1. 1..(k + 1) # {} /\ k + 1 \in 1..(k + 1) OBVIOUS
<1> DEFINE D == 1..(k + 1)
<1>2. D \in SUBSET (1..(k + 1)) /\ D # {} /\ k + 1 \in Nat BY <1>1
<1>3. Max(D) \in D /\ \A x \in D : x <= Max(D)
  <2> HIDE DEF D
  <2> QED BY <1>2, LastPosition
<1>4. Max(D) = k + 1 BY <1>1, <1>3
<1> QED BY <1>1, <1>4

\* f maps a set of positions to the fold of step over them, in their order.
IsFold(f, n, base, step) ==
  \A T \in SUBSET (1..n) :
    f[T] = IF T = {} THEN base ELSE step[<<f[T \ {Max(T)}], Max(T)>>]

\* A fold over n elements with values in S has a result for every set of positions,
\* and hence the function that defines it exists.
LEMMA FoldExists ==
  ASSUME NEW n \in Nat, NEW S, NEW base \in S, NEW step \in [S \X (1..n) -> S]
  PROVE  \E f \in [SUBSET (1..n) -> S] : IsFold(f, n, base, step)
<1> DEFINE Folds(f, k) ==
             \A T \in SUBSET (1..k) :
               f[T] = IF T = {} THEN base ELSE step[<<f[T \ {Max(T)}], Max(T)>>]
           Has(k) == \E f \in [SUBSET (1..k) -> S] : Folds(f, k)
           P == {k \in Nat : k <= n => Has(k)}
<1>1. 0 \in P
  <2> DEFINE f == [T \in SUBSET (1..0) |-> base]
  <2>1. f \in [SUBSET (1..0) -> S] /\ \A T \in SUBSET (1..0) : T = {} OBVIOUS
  <2>2. Folds(f, 0) BY <2>1
  <2>3. Has(0) BY <2>1, <2>2
  <2> HIDE DEF Has
  <2> QED BY <2>3
<1>2. ASSUME NEW k \in Nat, k \in P PROVE k + 1 \in P
  <2> DEFINE D == 1..(k + 1)
  <2>0. ASSUME k + 1 <= n PROVE Has(k + 1)
    <3>0. Has(k)
      <4> HIDE DEF Has
      <4>1. k <= n BY <2>0
      <4> QED BY <1>2, <4>1
    <3>1. PICK g \in [SUBSET (1..k) -> S] : Folds(g, k)
      BY <3>0
    <3> DEFINE f == [T \in SUBSET D |-> IF k + 1 \in T THEN step[<<g[T \ {k + 1}], k + 1>>]
                                       ELSE g[T]]
    <3>2. \A T \in SUBSET D : T \ {k + 1} \in SUBSET (1..k)
      OBVIOUS
    <3>3. f \in [SUBSET D -> S]
      <4> SUFFICES ASSUME NEW T \in SUBSET D
                   PROVE  (IF k + 1 \in T THEN step[<<g[T \ {k + 1}], k + 1>>] ELSE g[T]) \in S
        OBVIOUS
      <4>1. g[T \ {k + 1}] \in S BY <3>2
      <4>2. k + 1 \in 1..n BY <2>0
      <4>3. <<g[T \ {k + 1}], k + 1>> \in S \X (1..n) BY <4>1, <4>2
      <4>4. k + 1 \notin T => T \ {k + 1} = T OBVIOUS
      <4> QED BY <4>1, <4>3, <4>4
    <3>4. \A T \in SUBSET D : f[T] = IF k + 1 \in T THEN step[<<g[T \ {k + 1}], k + 1>>]
                                     ELSE g[T]
      OBVIOUS
    <3> HIDE DEF f
    <3>5. ASSUME NEW T \in SUBSET D
          PROVE  f[T] = IF T = {} THEN base ELSE step[<<f[T \ {Max(T)}], Max(T)>>]
      <4>1. CASE k + 1 \in T
        <5>1. k + 1 \in Nat /\ T \in SUBSET (1..(k + 1)) /\ T # {} BY <4>1
        <5>2. Max(T) \in T /\ \A x \in T : x <= Max(T)
          <6> HIDE DEF D
          <6> QED BY <5>1, LastPosition
        <5>3. k + 1 <= Max(T) /\ Max(T) \in D BY <4>1, <5>2
        <5>3a. Max(T) = k + 1
          <6> DEFINE m == Max(T)
          <6> HIDE DEF m
          <6>1. k + 1 <= m /\ m \in D BY <5>3 DEF m
          <6> QED BY <6>1 DEF m
        <5>4. T \ {k + 1} \in SUBSET D /\ k + 1 \notin T \ {k + 1} OBVIOUS
        <5>5. f[T \ {k + 1}] = g[T \ {k + 1}] BY <3>4, <5>4
        <5> QED BY <3>4, <4>1, <5>3a, <5>5
      <4>2. CASE k + 1 \notin T
        <5>1. f[T] = g[T] BY <3>4, <4>2
        <5>1a. T \in SUBSET (1..k) BY <4>2
        <5>2. T \ {Max(T)} \in SUBSET D /\ k + 1 \notin T \ {Max(T)} BY <4>2
        <5>3. f[T \ {Max(T)}] = g[T \ {Max(T)}] BY <3>4, <5>2
        <5> QED BY <3>1, <5>1, <5>1a, <5>3
      <4> QED BY <4>1, <4>2
    <3>6. Folds(f, k + 1) BY <3>5
    <3> QED BY <3>3, <3>6
  <2> HIDE DEF Has
  <2> QED BY <2>0
<1>3. n \in P
  <2> HIDE DEF P
  <2> QED BY <1>1, <1>2, SetInduction
<1>4. Has(n)
  <2> HIDE DEF Has
  <2> QED BY <1>3
<1> QED BY <1>4 DEF IsFold

\* The same for sequences, which grow at their end.
LEMMA SequenceInduction ==
  ASSUME NEW S, NEW T, <<>> \in T,
         \A s \in Seq(S), e \in S : s \in T => Append(s, e) \in T
  PROVE  Seq(S) \subseteq T
<1> DEFINE P == {n \in Nat : \A s \in Seq(S) : Len(s) = n => s \in T}
<1>1. 0 \in P
  <2>1. \A s \in Seq(S) : Len(s) = 0 => s = <<>> BY EmptySeq
  <2> QED BY <2>1
<1>2. ASSUME NEW n \in Nat, n \in P PROVE n + 1 \in P
  <2> SUFFICES ASSUME NEW s \in Seq(S), Len(s) = n + 1 PROVE s \in T
    OBVIOUS
  <2>1. s # <<>> BY EmptySeq
  <2>2. PICK r \in Seq(S), e \in S : s = Append(r, e) BY <2>1, SequenceEmptyOrAppend
  <2>3. Len(r) = n BY <2>2, AppendProperties, LenProperties
  <2> QED BY <1>2, <2>2, <2>3
<1>3. Nat \subseteq P
  <2> HIDE DEF P
  <2> QED BY <1>1, <1>2, SetInduction
<1> QED BY <1>3, LenProperties
-----------------------------------------------------------------------------
(* Split, one character at a time *)

\* Split returns at least one field.
Lines(Char) == Seq(Seq(Char)) \ {<<>>}

LEMMA CutType ==
  ASSUME NEW Char, NEW items \in Lines(Char), NEW ch \in Char
  PROVE  Cut(items, ch) \in Lines(Char)
<1> DEFINE n == Len(items)
<1>1. n \in Nat /\ n > 0 /\ items \in [1..n -> Seq(Char)]
  BY LenProperties, EmptySeq DEF Lines
<1>2. CASE ch = Comma
  <2>1. Cut(items, ch) = Append(items, <<>>) BY <1>2 DEF Cut
  <2>2. items \in Seq(Seq(Char)) /\ <<>> \in Seq(Char) BY EmptySeq DEF Lines
  <2> QED BY <2>1, <2>2, AppendProperties DEF Lines
<1>3. CASE ch # Comma
  <2> DEFINE last == Append(items[n], ch)
             r == [items EXCEPT ![n] = last]
  <2>1. items[n] \in Seq(Char) BY <1>1
  <2>2. last \in Seq(Char) BY <2>1, AppendProperties
  <2>3. Cut(items, ch) = r BY <1>3 DEF Cut
  <2> HIDE DEF last
  <2>4. r \in Seq(Seq(Char)) /\ Len(r) = n BY <1>1, <2>2, ExceptSeq DEF Lines
  <2>5. r # <<>> BY <1>1, <2>4, EmptySeq
  <2> QED BY <2>3, <2>4, <2>5 DEF Lines
<1> QED BY <1>2, <1>3

\* What the fold in Split passes through.
LEMMA SplitSteps ==
  ASSUME NEW Char, NEW data \in Seq(Char)
  PROVE  \E p : /\ p[0] = << <<>> >> /\ p[Len(data)] = Split(data)
                /\ \A k \in 0..(Len(data) - 1) : p[k + 1] = Cut(p[k], data[k + 1])
<1> DEFINE n == Len(data)
           base == << <<>> >>
           S == Lines(Char)
           step == [q \in S \X (1..n) |-> Cut(q[1], data[q[2]])]
           Unfolds(f) == f = [T \in SUBSET (1..n) |->
                                IF T = {} THEN base ELSE Cut(f[T \ {Max(T)}], data[Max(T)])]
           it == CHOOSE f : Unfolds(f)
<1>1. n \in Nat /\ DOMAIN data = 1..n /\ \A i \in 1..n : data[i] \in Char
  BY LenProperties, ElementOfSeq
<1>2. base \in S BY EmptySeq, IsASeq DEF Lines
<1>3. step \in [S \X (1..n) -> S] BY <1>1, CutType
<1>4. \A s \in S, i \in 1..n : step[<<s, i>>] = Cut(s, data[i]) OBVIOUS
<1>5. \E f : Unfolds(f)
  <2> HIDE DEF base, S, step, n
  <2>1. PICK f \in [SUBSET (1..n) -> S] : IsFold(f, n, base, step)
    BY <1>1, <1>2, <1>3, FoldExists
  <2>2. ASSUME NEW T \in SUBSET (1..n), T # {}
        PROVE  step[<<f[T \ {Max(T)}], Max(T)>>] = Cut(f[T \ {Max(T)}], data[Max(T)])
    <3>1. Max(T) \in T BY <1>1, <2>2, LastPosition
    <3>2. f[T \ {Max(T)}] \in S BY <2>1
    <3> QED BY <1>4, <3>1, <3>2
  <2>3. Unfolds(f)
    <3>1. \A T \in SUBSET (1..n) :
            f[T] = IF T = {} THEN base ELSE Cut(f[T \ {Max(T)}], data[Max(T)])
      BY <2>1, <2>2 DEF IsFold
    <3> QED BY <3>1
  <2> QED BY <2>3
<1>6. Unfolds(it)
  <2> HIDE DEF Unfolds
  <2> QED BY <1>5, Zenon
<1>7. Split(data) = it[1..n]
  BY <1>1, Zenon DEF Split, FoldLeft, MapThenFoldSet
<1> HIDE DEF it
<1> DEFINE p == [k \in 0..n |-> it[1..k]]
<1>8. \A T \in SUBSET (1..n) :
        it[T] = IF T = {} THEN base ELSE Cut(it[T \ {Max(T)}], data[Max(T)])
  BY <1>6
<1>9. p[0] = base
  <2>1. 1..0 = {} /\ 1..0 \in SUBSET (1..n) OBVIOUS
  <2>2. it[1..0] = base BY <1>8, <2>1
  <2>3. 0 \in 0..n BY <1>1
  <2> HIDE DEF base, n
  <2> QED BY <2>2, <2>3
<1>10. p[n] = Split(data) BY <1>1, <1>7
<1>11. ASSUME NEW k \in 0..(n - 1) PROVE p[k + 1] = Cut(p[k], data[k + 1])
  <2>1. k \in Nat /\ k \in 0..n /\ k + 1 \in 0..n BY <1>1
  <2>2. /\ 1..(k + 1) # {} /\ Max(1..(k + 1)) = k + 1
        /\ (1..(k + 1)) \ {k + 1} = 1..k
    BY <2>1, LastOfPrefix
  <2>3. 1..(k + 1) \in SUBSET (1..n) BY <1>1
  <2>4. it[1..(k + 1)] = Cut(it[1..k], data[k + 1]) BY <1>8, <2>2, <2>3
  <2> QED BY <2>1, <2>4
<1> QED BY <1>9, <1>10, <1>11

LEMMA SplitEmpty == Split(<<>>) = << <<>> >>
<1>1. <<>> \in Seq({}) /\ Len(<<>>) = 0 BY EmptySeq
<1>2. \E p : p[0] = << <<>> >> /\ p[Len(<<>>)] = Split(<<>>) BY <1>1, SplitSteps
<1> QED BY <1>1, <1>2

LEMMA SplitAppend ==
  ASSUME NEW Char, NEW data \in Seq(Char), NEW ch \in Char
  PROVE  /\ Split(data) \in Lines(Char)
         /\ Split(Append(data, ch)) = Cut(Split(data), ch)
<1> DEFINE n == Len(data)
           more == Append(data, ch)
<1>1. /\ n \in Nat /\ more \in Seq(Char) /\ Len(more) = n + 1
      /\ \A i \in 1..n : more[i] = data[i] /\ data[i] \in Char
      /\ more[n + 1] = ch
  BY AppendProperties, LenProperties, ElementOfSeq
<1>2. PICK p : /\ p[0] = << <<>> >> /\ p[n] = Split(data)
               /\ \A k \in 0..(n - 1) : p[k + 1] = Cut(p[k], data[k + 1])
  BY SplitSteps
<1>3. PICK q : /\ q[0] = << <<>> >> /\ q[n + 1] = Split(more)
               /\ \A k \in 0..n : q[k + 1] = Cut(q[k], more[k + 1])
  <2>1. \E q : /\ q[0] = << <<>> >> /\ q[Len(more)] = Split(more)
               /\ \A k \in 0..(Len(more) - 1) : q[k + 1] = Cut(q[k], more[k + 1])
    BY <1>1, SplitSteps
  <2>2. Len(more) - 1 = n BY <1>1
  <2> QED BY <1>1, <2>1, <2>2
<1> HIDE DEF n, more
<1> DEFINE P == {k \in Nat : k <= n => p[k] = q[k] /\ p[k] \in Lines(Char)}
<1>4. 0 \in P
  <2>1. << <<>> >> \in Lines(Char) BY EmptySeq, IsASeq DEF Lines
  <2> QED BY <1>2, <1>3, <2>1
<1>5. ASSUME NEW k \in Nat, k \in P PROVE k + 1 \in P
  <2> SUFFICES ASSUME k + 1 <= n
               PROVE  p[k + 1] = q[k + 1] /\ p[k + 1] \in Lines(Char)
    OBVIOUS
  <2>1. k \in 0..(n - 1) /\ k \in 0..n /\ k + 1 \in 1..n BY <1>1
  <2>2. p[k + 1] = Cut(p[k], data[k + 1]) /\ q[k + 1] = Cut(q[k], more[k + 1])
    BY <1>2, <1>3, <2>1
  <2>3. p[k] = q[k] /\ p[k] \in Lines(Char) BY <1>1, <1>5, <2>1
  <2>4. more[k + 1] = data[k + 1] /\ data[k + 1] \in Char BY <1>1, <2>1
  <2> QED BY <2>2, <2>3, <2>4, CutType
<1>6. n \in P
  <2> HIDE DEF P
  <2> QED BY <1>1, <1>4, <1>5, SetInduction
<1>7. p[n] = q[n] /\ p[n] \in Lines(Char) BY <1>1, <1>6
<1>8. q[n + 1] = Cut(q[n], ch)
  <2>1. n \in 0..n BY <1>1
  <2> QED BY <1>1, <1>3, <2>1
<1> QED BY <1>2, <1>3, <1>7, <1>8 DEF more
-----------------------------------------------------------------------------
(* Split, one field at a time *)

\* Characters of the last field.
Extend(items, text) == [items EXCEPT ![Len(items)] = @ \o text]

LEMMA AppendConcat ==
  ASSUME NEW S, NEW a \in Seq(S), NEW b \in Seq(S), NEW e \in S
  PROVE  a \o Append(b, e) = Append(a \o b, e)
<1>1. a \o b \in Seq(S) BY ConcatProperties
<1>2. Append(a \o b, e) = (a \o b) \o <<e>> BY <1>1, AppendIsConcat
<1>3. Append(b, e) = b \o <<e>> BY AppendIsConcat
<1>4. <<e>> \in Seq(S) OBVIOUS
<1>5. (a \o b) \o <<e>> = a \o (b \o <<e>>) BY <1>4, ConcatAssociative
<1> QED BY <1>2, <1>3, <1>5

LEMMA ExtendEmpty ==
  ASSUME NEW Char, NEW items \in Lines(Char)
  PROVE  Extend(items, <<>>) = items
<1> DEFINE n == Len(items)
<1>1. n \in Nat /\ n > 0 /\ items \in [1..n -> Seq(Char)]
  BY LenProperties, EmptySeq DEF Lines
<1>2. items[n] \in Seq(Char) BY <1>1
<1>3. items[n] \o <<>> = items[n] BY <1>2, ConcatEmptySeq
<1> QED BY <1>1, <1>3 DEF Extend

LEMMA ExtendOnce ==
  ASSUME NEW Char, NEW items \in Lines(Char), NEW text \in Seq(Char), NEW ch \in Char,
         ch # Comma
  PROVE  Cut(Extend(items, text), ch) = Extend(items, Append(text, ch))
<1> DEFINE n == Len(items)
           last == items[n]
           r == Extend(items, text)
<1>1. n \in Nat /\ n > 0 /\ items \in [1..n -> Seq(Char)] /\ items \in Seq(Seq(Char))
  BY LenProperties, EmptySeq DEF Lines
<1>2. last \in Seq(Char) BY <1>1
<1>3. last \o text \in Seq(Char) BY <1>2, ConcatProperties
<1>4. r \in Seq(Seq(Char)) /\ Len(r) = n /\ r[n] = last \o text
  BY <1>1, <1>3, ExceptSeq DEF Extend
<1>5. last \o Append(text, ch) = Append(last \o text, ch)
  <2> HIDE DEF last
  <2> QED BY <1>2, AppendConcat
<1>6. Cut(r, ch) = [r EXCEPT ![n] = Append(last \o text, ch)] BY <1>4 DEF Cut
<1>7. [r EXCEPT ![n] = Append(last \o text, ch)] = Extend(items, Append(text, ch))
  BY <1>1, <1>5 DEF Extend
<1> QED BY <1>6, <1>7

LEMMA SplitType ==
  ASSUME NEW Char, NEW data \in Seq(Char)
  PROVE  Split(data) \in Lines(Char)
<1>1. CASE data = <<>>
  <2>1. << <<>> >> \in Lines(Char) BY EmptySeq, IsASeq DEF Lines
  <2> QED BY <1>1, <2>1, SplitEmpty
<1>2. CASE data # <<>>
  <2>1. PICK d \in Seq(Char), e \in Char : data = Append(d, e)
    BY <1>2, SequenceEmptyOrAppend
  <2> QED BY <2>1, SplitAppend, CutType
<1> QED BY <1>1, <1>2

\* Text without a comma belongs to the field that is being read.
LEMMA PlainRun ==
  ASSUME NEW Char, NEW data \in Seq(Char), NEW text \in Seq(Char \ {Comma})
  PROVE  Split(data \o text) = Extend(Split(data), text)
<1> DEFINE T == {t \in Seq(Char \ {Comma}) : Split(data \o t) = Extend(Split(data), t)}
<1>1. Split(data) \in Lines(Char) BY SplitType
<1>2. <<>> \in T
  <2>1. data \o <<>> = data BY ConcatEmptySeq
  <2>2. Extend(Split(data), <<>>) = Split(data) BY <1>1, ExtendEmpty
  <2> QED BY <2>1, <2>2, EmptySeq
<1>3. ASSUME NEW t \in Seq(Char \ {Comma}), NEW e \in Char \ {Comma}, t \in T
      PROVE  Append(t, e) \in T
  <2>1. t \in Seq(Char) /\ e \in Char /\ e # Comma
    <3>1. Char \ {Comma} \subseteq Char OBVIOUS
    <3> QED BY <3>1, SeqMonotonic
  <2>2. data \o t \in Seq(Char) BY <2>1, ConcatProperties
  <2>3. data \o Append(t, e) = Append(data \o t, e) BY <2>1, AppendConcat
  <2>4. Split(Append(data \o t, e)) = Cut(Split(data \o t), e) BY <2>1, <2>2, SplitAppend
  <2>5. Cut(Extend(Split(data), t), e) = Extend(Split(data), Append(t, e))
    BY <1>1, <2>1, ExtendOnce
  <2>6. Append(t, e) \in Seq(Char \ {Comma}) BY AppendProperties
  <2> QED BY <1>3, <2>3, <2>4, <2>5, <2>6
<1>4. text \in T
  <2> HIDE DEF T
  <2> QED BY <1>2, <1>3, SequenceInduction
<1> QED BY <1>4

LEMMA PlainField ==
  ASSUME NEW Char, NEW text \in Seq(Char \ {Comma})
  PROVE  Split(text) = <<text>>
<1>1. text \in Seq(Char)
  <2>1. Char \ {Comma} \subseteq Char OBVIOUS
  <2> QED BY <2>1, SeqMonotonic
<1>2. Split(<<>> \o text) = Extend(Split(<<>>), text) BY EmptySeq, PlainRun
<1>3. <<>> \o text = text BY <1>1, ConcatEmptySeq
<1>4. Extend(<< <<>> >>, text) = <<text>>
  <2>1. Extend(<< <<>> >>, text) = << <<>> \o text >> BY DEF Extend
  <2> QED BY <1>3, <2>1
<1> QED BY <1>2, <1>3, <1>4, SplitEmpty

LEMMA NextField ==
  ASSUME NEW Char, Comma \in Char, NEW data \in Seq(Char), NEW text \in Seq(Char \ {Comma})
  PROVE  /\ data \o <<Comma>> \o text \in Seq(Char)
         /\ Split(data \o <<Comma>> \o text) = Append(Split(data), text)
<1> DEFINE d == data \o <<Comma>>
<1>1. text \in Seq(Char)
  <2>1. Char \ {Comma} \subseteq Char OBVIOUS
  <2> QED BY <2>1, SeqMonotonic
<1>2. d = Append(data, Comma) BY AppendIsConcat
<1>3. d \in Seq(Char) BY <1>2, AppendProperties
<1>4. Split(d) = Append(Split(data), <<>>) BY <1>2, SplitAppend DEF Cut
<1>5. Split(d \o text) = Extend(Split(d), text)
  <2> HIDE DEF d
  <2> QED BY <1>3, PlainRun
<1>6. Extend(Append(Split(data), <<>>), text) = Append(Split(data), text)
  <2> DEFINE s == Split(data)
             n == Len(s)
             r == Append(s, <<>>)
  <2>1. s \in Seq(Seq(Char)) BY SplitType DEF Lines
  <2> HIDE DEF s
  <2>2. /\ n \in Nat /\ r \in Seq(Seq(Char)) /\ Len(r) = n + 1 /\ r[n + 1] = <<>>
        /\ \A i \in 1..n : r[i] = s[i]
    BY <2>1, EmptySeq, AppendProperties, LenProperties
  <2>3. <<>> \o text = text BY <1>1, ConcatEmptySeq
  <2> DEFINE e == Append(s, text)
             x == [r EXCEPT ![n + 1] = text]
  <2>4. /\ e \in Seq(Seq(Char)) /\ Len(e) = n + 1 /\ e[n + 1] = text
        /\ \A i \in 1..n : e[i] = s[i]
    BY <1>1, <2>1, AppendProperties
  <2>5. /\ x \in Seq(Seq(Char)) /\ Len(x) = n + 1 /\ x[n + 1] = text
        /\ \A i \in 1..n : x[i] = s[i]
    <3>1. n + 1 \in 1..Len(r) BY <2>2
    <3> HIDE DEF r
    <3> QED BY <1>1, <2>2, <3>1, ExceptSeq
  <2>6. Extend(r, text) = x BY <2>2, <2>3 DEF Extend
  <2> HIDE DEF e, x
  <2>7. ASSUME NEW i \in 1..(n + 1) PROVE x[i] = e[i]
    <3>1. CASE i = n + 1 BY <2>4, <2>5, <3>1
    <3>2. CASE i # n + 1
      <4>1. i \in 1..n BY <2>2, <3>2
      <4> QED BY <2>4, <2>5, <4>1
    <3> QED BY <3>1, <3>2
  <2>8. x = e BY <2>4, <2>5, <2>7, SeqEqual
  <2> QED BY <2>6, <2>8 DEF e, s
<1> QED BY <1>1, <1>3, <1>4, <1>5, <1>6, ConcatProperties
-----------------------------------------------------------------------------
(* What a reader makes of a line *)

\* Texts, those without a comma, and what GetData puts between two fields.
Text(Char) == Seq(Char)
Plain(Char) == Seq(Char \ {Comma})
Join(data, text) == data \o <<Comma>> \o text

LEMMA PlainIsText ==
  ASSUME NEW Char, NEW text \in Plain(Char)
  PROVE  text \in Text(Char)
<1>1. Char \ {Comma} \subseteq Char OBVIOUS
<1> QED BY <1>1, SeqMonotonic DEF Plain, Text

LEMMA JoinType ==
  ASSUME NEW Char, Comma \in Char, NEW data \in Text(Char), NEW text \in Text(Char)
  PROVE  Join(data, text) \in Text(Char)
<1>1. <<Comma>> \in Seq(Char) OBVIOUS
<1>2. data \o <<Comma>> \in Seq(Char) BY <1>1, ConcatProperties DEF Text
<1> QED BY <1>2, ConcatProperties DEF Text, Join

Concat(a, b) == a \o b

LEMMA ConcatText ==
  ASSUME NEW Char, NEW a \in Text(Char), NEW b \in Text(Char)
  PROVE  /\ Concat(a, b) \in Text(Char)
         /\ \A c \in Text(Char) : Concat(Concat(a, b), c) = Concat(a, Concat(b, c))
<1>1. Concat(a, b) \in Text(Char) BY ConcatProperties DEF Text, Concat
<1>2. ASSUME NEW c \in Text(Char)
      PROVE  Concat(Concat(a, b), c) = Concat(a, Concat(b, c))
  BY ConcatAssociative DEF Text, Concat
<1> QED BY <1>1, <1>2

LEMMA JoinAssociative ==
  ASSUME NEW Char, Comma \in Char,
         NEW a \in Text(Char), NEW b \in Text(Char), NEW c \in Text(Char)
  PROVE  Join(Join(a, b), c) = Join(a, Join(b, c))
<1> DEFINE k == <<Comma>>
<1>1. k \in Text(Char) BY DEF Text
<1>2. \A x, y : Join(x, y) = Concat(Concat(x, k), y) BY DEF Join, Concat
<1> HIDE DEF k
<1>3. Concat(a, k) \in Text(Char) /\ Concat(b, k) \in Text(Char)
  BY <1>1, ConcatText
<1>4. Concat(Concat(Concat(Concat(a, k), b), k), c)
        = Concat(Concat(Concat(a, k), Concat(b, k)), c)
  BY <1>1, <1>3, ConcatText
<1>5. Concat(Concat(Concat(a, k), Concat(b, k)), c)
        = Concat(Concat(a, k), Concat(Concat(b, k), c))
  BY <1>3, ConcatText
<1> QED BY <1>2, <1>4, <1>5

\* A joined field is one more field when it has no comma of its own.
OneMoreField(data, text) ==
  LET n == Len(Split(data))
      items == Split(Join(data, text))
  IN  /\ Len(items) = n + 1 /\ items[n + 1] = text
      /\ \A i \in 1..n : items[i] = Split(data)[i]

LEMMA OneMore ==
  ASSUME NEW Char, Comma \in Char, NEW data \in Text(Char), NEW text \in Plain(Char)
  PROVE  OneMoreField(data, text)
<1> DEFINE s == Split(data)
<1>1. s \in Seq(Seq(Char)) BY SplitType DEF Lines, Text
<1>2. text \in Seq(Char) BY PlainIsText DEF Text
<1>3. Split(Join(data, text)) = Append(s, text) BY NextField DEF Join, Text, Plain
<1> HIDE DEF s
<1>4. /\ Len(Append(s, text)) = Len(s) + 1 /\ Append(s, text)[Len(s) + 1] = text
      /\ \A i \in 1..Len(s) : Append(s, text)[i] = s[i]
  BY <1>1, <1>2, AppendProperties
<1> QED BY <1>3, <1>4 DEF s, OneMoreField

\* The three fields of an ordinary line.
LEMMA ThreeFields ==
  ASSUME NEW Char, Comma \in Char, NEW user \in Plain(Char),
         NEW nickname \in Plain(Char), NEW content \in Plain(Char)
  PROVE  LET data == Join(Join(user, nickname), content)
         IN  /\ data \in Text(Char) /\ Len(Split(data)) = 3
             /\ Split(data)[1] = user /\ Split(data)[2] = nickname
             /\ Split(data)[3] = content
<1>1. /\ user \in Text(Char) /\ nickname \in Text(Char) /\ content \in Text(Char)
      /\ Join(user, nickname) \in Text(Char)
      /\ Join(Join(user, nickname), content) \in Text(Char)
  BY PlainIsText, JoinType
<1>2. Len(Split(user)) = 1 /\ Split(user)[1] = user
  <2>1. Split(user) = <<user>> BY PlainField DEF Plain
  <2> QED BY <2>1
<1>3. /\ Len(Split(Join(user, nickname))) = 2 /\ Split(Join(user, nickname))[1] = user
      /\ Split(Join(user, nickname))[2] = nickname
  <2>1. OneMoreField(user, nickname) BY <1>1, OneMore
  <2> QED BY <1>2, <2>1 DEF OneMoreField
<1>4. OneMoreField(Join(user, nickname), content) BY <1>1, OneMore
<1> QED BY <1>1, <1>3, <1>4 DEF OneMoreField

\* The flag of a system line is one more field.
LEMMA FlagField ==
  ASSUME NEW Char, Comma \in Char, "1" \in Char, NEW data \in Text(Char)
  PROVE  /\ data \o (<<Comma>> \o SystemFlag) = Join(data, SystemFlag)
         /\ OneMoreField(data, SystemFlag)
<1>1. SystemFlag \in Plain(Char)
  <2>1. "1" \in Char \ {Comma} BY DEF Comma
  <2> QED BY <2>1 DEF SystemFlag, Plain
<1>2. <<Comma>> \in Seq(Char) /\ SystemFlag \in Seq(Char) /\ data \in Seq(Char)
  BY <1>1, PlainIsText DEF Text
<1>3. (data \o <<Comma>>) \o SystemFlag = data \o (<<Comma>> \o SystemFlag)
  BY <1>2, ConcatAssociative
<1> QED BY <1>1, <1>3, OneMore DEF Join

\* A line whose fields have no comma, system line or not, comes out of ParseData as it
\* went into GetData, however long the fields are (emojix.go:508-538).
THEOREM RoundTrip ==
  ASSUME NEW Char, Comma \in Char, "1" \in Char, NEW user \in Plain(Char),
         NEW nickname \in Plain(Char), NEW content \in Plain(Char), NEW system \in BOOLEAN,
         NEW msg, msg = [user |-> user, nickname |-> nickname,
                         content |-> content, system |-> system]
  PROVE  Parses(GetData(msg)) /\ ParseData(GetData(msg)) = msg
<1> DEFINE e == Join(Join(user, nickname), content)
           g == Join(e, SystemFlag)
<1>1. /\ e \in Text(Char) /\ Len(Split(e)) = 3 /\ Split(e)[1] = user
      /\ Split(e)[2] = nickname /\ Split(e)[3] = content
  BY ThreeFields
<1>2. CASE system
  <2>1. GetData(msg) = e \o (<<Comma>> \o SystemFlag) BY <1>2 DEF GetData, Join
  <2>2. e \o (<<Comma>> \o SystemFlag) = g /\ OneMoreField(e, SystemFlag)
    <3> HIDE DEF e
    <3> QED BY <1>1, FlagField
  <2>4. GetData(msg) = g BY <2>1, <2>2
  <2>5. /\ Len(Split(g)) = 4 /\ Split(g)[1] = user /\ Split(g)[2] = nickname
        /\ Split(g)[3] = content /\ Split(g)[4] = SystemFlag
    <3> HIDE DEF e
    <3> QED BY <1>1, <2>2 DEF OneMoreField
  <2> HIDE DEF g
  <2>6. Parses(g) /\ ParseData(g) = [user |-> user, nickname |-> nickname,
                                    content |-> content, system |-> TRUE]
    <3>1. (Len(Split(g)) = 4 /\ Split(g)[4] = SystemFlag) = TRUE BY <2>5
    <3>2. ParseData(g) = [user |-> user, nickname |-> nickname, content |-> content,
                          system |-> Len(Split(g)) = 4 /\ Split(g)[4] = SystemFlag]
      BY <2>5, Zenon DEF ParseData
    <3>3. Parses(g) BY <2>5 DEF Parses
    <3> QED BY <3>1, <3>2, <3>3, Zenon
  <2> QED BY <1>2, <2>4, <2>6
<1>3. CASE ~system
  <2>1. e \o <<>> = e
    <3> HIDE DEF e
    <3> QED BY <1>1, ConcatEmptySeq DEF Text
  <2>2. GetData(msg) = e \o <<>> BY <1>3 DEF GetData, Join
  <2>3. GetData(msg) = e BY <2>1, <2>2
  <2> HIDE DEF e
  <2>4. Parses(e) /\ ParseData(e) = [user |-> user, nickname |-> nickname,
                                    content |-> content, system |-> FALSE]
    <3>1. (Len(Split(e)) = 4 /\ Split(e)[4] = SystemFlag) = FALSE BY <1>1
    <3>2. ParseData(e) = [user |-> user, nickname |-> nickname, content |-> content,
                          system |-> Len(Split(e)) = 4 /\ Split(e)[4] = SystemFlag]
      BY <1>1, Zenon DEF ParseData
    <3>3. Parses(e) BY <1>1 DEF Parses
    <3> QED BY <3>1, <3>2, <3>3, Zenon
  <2> QED BY <1>3, <2>3, <2>4
<1> QED BY <1>2, <1>3

\* An ordinary line with one comma is no error: it is shown up to its comma, and as a
\* system line if the rest is "1" (emojix.go:522-538).
THEOREM OneCommaIsCut ==
  ASSUME NEW Char, Comma \in Char, NEW user \in Plain(Char), NEW nickname \in Plain(Char),
         NEW front \in Plain(Char), NEW rest \in Plain(Char),
         NEW msg, msg = [user |-> user, nickname |-> nickname,
                         content |-> Join(front, rest), system |-> FALSE]
  PROVE  /\ Parses(GetData(msg))
         /\ ParseData(GetData(msg)) = [user |-> user, nickname |-> nickname,
                                       content |-> front, system |-> rest = SystemFlag]
<1> DEFINE d == Join(user, nickname)
           e == Join(d, front)
           g == Join(e, rest)
           c == Join(front, rest)
<1>1. /\ e \in Text(Char) /\ Len(Split(e)) = 3 /\ Split(e)[1] = user
      /\ Split(e)[2] = nickname /\ Split(e)[3] = front
  BY ThreeFields
<1>2. /\ Len(Split(g)) = 4 /\ Split(g)[1] = user /\ Split(g)[2] = nickname
      /\ Split(g)[3] = front /\ Split(g)[4] = rest
  <2>1. OneMoreField(e, rest)
    <3> HIDE DEF e
    <3> QED BY <1>1, OneMore
  <2> HIDE DEF e
  <2> QED BY <1>1, <2>1 DEF OneMoreField
<1>3. d \in Text(Char) /\ c \in Text(Char) /\ Join(d, c) \in Text(Char)
  BY PlainIsText, JoinType
<1>4. Join(d, c) = g
  <2> HIDE DEF d
  <2> QED BY <1>3, PlainIsText, JoinAssociative
<1>5. GetData(msg) = Join(d, c) \o <<>> BY DEF GetData, Join
<1>6. Join(d, c) \o <<>> = Join(d, c)
  <2> HIDE DEF d, c
  <2> QED BY <1>3, ConcatEmptySeq DEF Text
<1>7. GetData(msg) = g BY <1>4, <1>5, <1>6
<1> HIDE DEF g
<1> QED BY <1>2, <1>7 DEF Parses, ParseData
-----------------------------------------------------------------------------
(* Which lines end the streams *)

Commas(text) == Cardinality({i \in 1..Len(text) : text[i] = Comma})

LEMMA CommasAppend ==
  ASSUME NEW Char, NEW text \in Seq(Char), NEW ch \in Char
  PROVE  /\ Commas(text) \in Nat
         /\ Commas(Append(text, ch)) = IF ch = Comma THEN Commas(text) + 1 ELSE Commas(text)
<1> DEFINE n == Len(text)
           more == Append(text, ch)
           P == {i \in 1..n : text[i] = Comma}
           Q == {i \in 1..(n + 1) : more[i] = Comma}
<1>1. /\ n \in Nat /\ Len(more) = n + 1 /\ more[n + 1] = ch
      /\ \A i \in 1..n : more[i] = text[i]
  BY LenProperties, AppendProperties
<1>2. IsFiniteSet(P)
  <2>1. IsFiniteSet(1..n) BY <1>1, FS_Interval
  <2> QED BY <2>1, FS_Subset
<1>3. Cardinality(P) \in Nat BY <1>2, FS_CardinalityType
<1>4. CASE ch = Comma
  <2>1. Q = P \cup {n + 1} /\ n + 1 \notin P
    <3> HIDE DEF more
    <3> QED BY <1>1, <1>4
  <2> HIDE DEF P, Q
  <2>2. Cardinality(P \cup {n + 1}) = Cardinality(P) + 1 BY <1>2, <2>1, FS_AddElement
  <2> QED BY <1>1, <1>3, <1>4, <2>1, <2>2 DEF Commas, P, Q
<1>5. CASE ch # Comma
  <2>1. Q = P
    <3> HIDE DEF more
    <3> QED BY <1>1, <1>5
  <2> QED BY <1>1, <1>3, <1>5, <2>1 DEF Commas
<1> QED BY <1>4, <1>5

\* Every comma of a text that is appended begins a field.
LEMMA FieldCount ==
  ASSUME NEW Char, NEW data \in Seq(Char), NEW text \in Seq(Char)
  PROVE  /\ Commas(text) \in Nat /\ Len(Split(data)) \in Nat
         /\ Len(Split(data \o text)) = Len(Split(data)) + Commas(text)
<1> DEFINE Counts(t) == /\ Commas(t) \in Nat
                        /\ Len(Split(data \o t)) = Len(Split(data)) + Commas(t)
           T == {t \in Seq(Char) : Counts(t)}
<1>1. Len(Split(data)) \in Nat
  <2>1. Split(data) \in Seq(Seq(Char)) BY SplitType DEF Lines
  <2> QED BY <2>1, LenProperties
<1>2. <<>> \in T
  <2>1. data \o <<>> = data BY ConcatEmptySeq
  <2>2. {i \in 1..Len(<<>>) : <<>>[i] = Comma} = {} BY EmptySeq
  <2>3. Commas(<<>>) = 0 BY <2>2, FS_EmptySet DEF Commas
  <2> QED BY <1>1, <2>1, <2>3, EmptySeq
<1>3. ASSUME NEW t \in Seq(Char), NEW e \in Char, t \in T PROVE Append(t, e) \in T
  <2>1. data \o t \in Seq(Char) BY ConcatProperties
  <2>2. data \o Append(t, e) = Append(data \o t, e) BY AppendConcat
  <2>3. Split(Append(data \o t, e)) = Cut(Split(data \o t), e) BY <2>1, SplitAppend
  <2> DEFINE s == Split(data \o t)
  <2>4. s \in Lines(Char) BY <2>1, SplitType
  <2> HIDE DEF s
  <2>5. Len(Cut(s, e)) = IF e = Comma THEN Len(s) + 1 ELSE Len(s)
    <3>1. /\ s \in Seq(Seq(Char)) /\ Len(s) \in Nat /\ Len(s) > 0
          /\ s \in [1..Len(s) -> Seq(Char)]
      BY <2>4, LenProperties, EmptySeq DEF Lines
    <3>2. CASE e = Comma BY <3>1, <3>2, EmptySeq, AppendProperties DEF Cut
    <3>3. CASE e # Comma
      <4>1. Append(s[Len(s)], e) \in Seq(Char) BY <3>1, AppendProperties
      <4> QED BY <3>1, <3>3, <4>1, ExceptSeq DEF Cut
    <3> QED BY <3>2, <3>3
  <2>6. Commas(Append(t, e)) = IF e = Comma THEN Commas(t) + 1 ELSE Commas(t)
    BY CommasAppend
  <2>7. Counts(t) /\ Append(t, e) \in Seq(Char) BY <1>3, AppendProperties
  <2>8. Len(Split(data \o Append(t, e))) = Len(Cut(s, e)) BY <2>2, <2>3 DEF s
  <2>9. Counts(Append(t, e))
    <3>1. Len(s) = Len(Split(data)) + Commas(t) BY <2>7 DEF s
    <3>2. Commas(t) \in Nat BY <2>7
    <3> QED BY <1>1, <2>5, <2>6, <2>8, <3>1, <3>2
  <2> HIDE DEF Counts
  <2> QED BY <2>7, <2>9
<1>4. text \in T
  <2> HIDE DEF T
  <2> QED BY <1>2, <1>3, SequenceInduction
<1> QED BY <1>1, <1>4

\* When ids and nicknames have no comma, ParseData returns an error, and GameUpdates with
\* it, for exactly the ordinary lines with two commas or more and the system lines with
\* one (emojix.go:515-527, :90-94).
THEOREM ParsesExactly ==
  ASSUME NEW Char, Comma \in Char, "1" \in Char, NEW user \in Plain(Char),
         NEW nickname \in Plain(Char), NEW content \in Text(Char), NEW system \in BOOLEAN,
         NEW msg, msg = [user |-> user, nickname |-> nickname,
                         content |-> content, system |-> system]
  PROVE  Parses(GetData(msg)) <=> Commas(content) <= (IF system THEN 0 ELSE 1)
<1> DEFINE d == Join(user, nickname)
           dc == d \o <<Comma>>
           e == Join(d, content)
<1>1. /\ user \in Text(Char) /\ nickname \in Text(Char) /\ content \in Seq(Char)
      /\ d \in Text(Char) /\ e \in Text(Char)
  BY PlainIsText, JoinType DEF Text
<1>2. Len(Split(d)) = 2
  <2>1. Split(user) = <<user>> BY PlainField DEF Plain
  <2>2. OneMoreField(user, nickname) BY <1>1, OneMore
  <2> QED BY <2>1, <2>2 DEF OneMoreField
<1>3. /\ Commas(content) \in Nat
      /\ Len(Split(e)) = 3 + Commas(content)
  <2>1. dc = Append(d, Comma) /\ dc \in Seq(Char) /\ d \in Seq(Char)
    <3> HIDE DEF d
    <3> QED BY <1>1, AppendIsConcat, AppendProperties DEF Text
  <2>2. Len(Split(dc)) = 3
    <3>1. Split(dc) = Append(Split(d), <<>>)
      <4> HIDE DEF d, dc
      <4> QED BY <2>1, SplitAppend DEF Cut
    <3>2. Split(d) \in Seq(Seq(Char))
      <4> HIDE DEF d
      <4> QED BY <2>1, SplitType DEF Lines
    <3> DEFINE s == Split(d)
    <3>3. s \in Seq(Seq(Char)) /\ Len(s) = 2 /\ Split(dc) = Append(s, <<>>)
      BY <1>2, <3>1, <3>2
    <3> HIDE DEF d, dc, s
    <3>4. Len(Append(s, <<>>)) = Len(s) + 1
      <4>1. <<>> \in Seq(Char) BY EmptySeq
      <4> QED BY <3>3, <4>1, AppendProperties
    <3> QED BY <3>3, <3>4
  <2>3. e = dc \o content BY DEF Join
  <2> HIDE DEF d, dc, e
  <2> QED BY <1>1, <2>1, <2>2, <2>3, FieldCount
<1>4. CASE system
  <2>1. GetData(msg) = e \o (<<Comma>> \o SystemFlag) BY <1>4 DEF GetData, Join
  <2>2. /\ e \o (<<Comma>> \o SystemFlag) = Join(e, SystemFlag)
        /\ OneMoreField(e, SystemFlag)
    <3> HIDE DEF e
    <3> QED BY <1>1, FlagField
  <2> HIDE DEF e
  <2>3. Len(Split(GetData(msg))) = 4 + Commas(content)
    <3>1. GetData(msg) = Join(e, SystemFlag) BY <2>1, <2>2, Zenon
    <3>2. Len(Split(Join(e, SystemFlag))) = Len(Split(e)) + 1 BY <2>2 DEF OneMoreField
    <3> QED BY <1>3, <3>1, <3>2
  <2>4. Parses(GetData(msg)) <=> 4 + Commas(content) \in 3..4 BY <2>3 DEF Parses
  <2>5. 4 + Commas(content) \in 3..4 <=> Commas(content) <= 0 BY <1>3
  <2> QED BY <1>4, <2>4, <2>5
<1>5. CASE ~system
  <2>1. e \o <<>> = e
    <3> HIDE DEF e
    <3> QED BY <1>1, ConcatEmptySeq DEF Text
  <2>2. GetData(msg) = e \o <<>> BY <1>5 DEF GetData, Join
  <2>3. GetData(msg) = e BY <2>1, <2>2
  <2> HIDE DEF e
  <2>4. Parses(GetData(msg)) <=> 3 + Commas(content) \in 3..4 BY <1>3, <2>3 DEF Parses
  <2>5. 3 + Commas(content) \in 3..4 <=> Commas(content) <= 1 BY <1>3
  <2> QED BY <1>5, <2>4, <2>5
<1> QED BY <1>4, <1>5
=============================================================================
