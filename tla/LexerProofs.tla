----------------------------- MODULE LexerProofs ------------------------------
(***************************************************************************)
(* Proofs about the scanner: what holds of its variables for any text, and *)
(* that it gives back the tokens of every file of lexemes.                 *)
(***************************************************************************)
EXTENDS LexicalGrammar, FiniteSetTheorems, SequenceTheorems, WellFoundedInduction, NaturalsInduction, TLAPS

\* A non-empty set of numbers has a least one.
LEMMA LeastNumber ==
    ASSUME NEW S \in SUBSET Nat, S # {}
    PROVE  \E i \in S : \A j \in S : i <= j
<1> DEFINE less == OpToRel(<, Nat)
<1>1. PICK i \in S : \A j \in S : ~ (<<j, i>> \in less)
  BY WFMin, NatLessThanWellFounded
<1>2. \A j \in S : j < i => <<j, i>> \in less
  BY DEF OpToRel
<1> HIDE DEF less
<1>3. ASSUME NEW j \in S PROVE i <= j
  <2>1. i \in Nat /\ j \in Nat /\ ~(j < i)
    BY <1>1, <1>2
  <2>. QED
    BY <2>1
<1>. QED
  BY <1>3

\* What holds of 0 and goes on from each number to the next holds up to n; the
\* numbers of which it holds are a set, for want of operators as parameters.
LEMMA UpTo ==
    ASSUME NEW n \in Nat, NEW S, 0 \in S, \A k \in 1..n : k - 1 \in S => k \in S
    PROVE  0..n \subseteq S
<1> SUFFICES ASSUME ~(0..n \subseteq S) PROVE FALSE
  OBVIOUS
<1> DEFINE out == {k \in 0..n : k \notin S}
<1>1. out \in SUBSET Nat /\ out # {}
  OBVIOUS
<1>2. PICK k \in out : \A j \in out : k <= j
  BY <1>1, LeastNumber
<1>3. k \in 0..n /\ k \notin S
  BY <1>2
<1>4. k # 0
  BY <1>3
<1>5. k \in 1..n /\ k - 1 \in 0..n /\ ~(k <= k - 1)
  BY <1>3, <1>4
<1>6. k - 1 \notin out
  BY <1>2, <1>5
<1>7. k - 1 \in S
  BY <1>5, <1>6
<1>. QED
  BY <1>3, <1>5, <1>7

\* f goes from s0 on, from each number to the next by g.
Steps(f, n, S, s0, g) ==
    f \in [0..n -> S] /\ f[0] = s0 /\ \A k \in 1..n : f[k] = g[<<k, f[k - 1]>>]

\* A recursion from one number to the next defines a function.
LEMMA StepByStep ==
    ASSUME NEW n \in Nat, NEW S, NEW s0 \in S, NEW g, g \in [(1..n) \X S -> S]
    PROVE  \E f : Steps(f, n, S, s0, g)
<1> DEFINE Fits(m, f) == f \in [0..m -> S] /\ f[0] = s0 /\ \A k \in 1..m : f[k] = g[<<k, f[k - 1]>>]
           done == {m \in 0..n : \E f : Fits(m, f)}
<1>1. 0 \in done
  <2> DEFINE f == [k \in 0..0 |-> s0]
  <2>1. f \in [0..0 -> S] /\ f[0] = s0
    OBVIOUS
  <2> HIDE DEF f
  <2>2. Fits(0, f)
    BY <2>1
  <2>3. 0 \in 0..n /\ \E h : Fits(0, h)
    BY <2>2
  <2>. QED
    BY <2>3
<1>2. ASSUME NEW m \in 1..n, m - 1 \in done PROVE m \in done
  <2>1. PICK f : Fits(m - 1, f)
    BY <1>2
  <2> DEFINE h == [k \in 0..m |-> IF k = m THEN g[<<m, f[m - 1]>>] ELSE f[k]]
  <2>2. f[m - 1] \in S /\ 0..(m - 1) \subseteq 0..m
    BY <2>1
  <2>3. g[<<m, f[m - 1]>>] \in S
    BY <2>2
  <2>4. h \in [0..m -> S]
    <3>1. ASSUME NEW k \in 0..m PROVE h[k] \in S
      <4>1. k = m \/ k \in 0..(m - 1)
        OBVIOUS
      <4>. QED
        BY <4>1, <2>1, <2>3
    <3>. QED
      BY <3>1
  <2>5. h[0] = s0
    BY <2>1
  <2>6. ASSUME NEW k \in 1..m PROVE h[k] = g[<<k, h[k - 1]>>]
    <3>1. k - 1 \in 0..m /\ k - 1 # m /\ h[k - 1] = f[k - 1]
      OBVIOUS
    <3>2. CASE k = m
      BY <3>1, <3>2
    <3>3. CASE k # m
      <4>1. k \in 1..(m - 1) /\ h[k] = f[k]
        BY <3>3
      <4>. QED
        BY <3>1, <4>1, <2>1
    <3>. QED
      BY <3>2, <3>3
  <2> HIDE DEF h
  <2>7. Fits(m, h)
    BY <2>4, <2>5, <2>6
  <2>. QED
    BY <2>7
<1> HIDE DEF done
<1>3. 0..n \subseteq done
  BY <1>1, <1>2, UpTo
<1>4. n \in done
  BY <1>3
<1>5. PICK f : Fits(n, f)
  BY <1>4 DEF done
<1>6. Steps(f, n, S, s0, g)
  BY <1>5 DEF Steps
<1>. QED
  BY <1>6

-----------------------------------------------------------------------------
(* Joining sequences. *)

\* A function that joins the sequences one after the other gives what FlattenSeq does.
LEMMA FlattenIsJoin ==
    ASSUME NEW T, NEW parts \in Seq(Seq(T)), NEW f \in [0..Len(parts) -> Seq(T)],
           f[0] = <<>>, \A k \in 1..Len(parts) : f[k] = f[k - 1] \o parts[k]
    PROVE  FlattenSeq(parts) = f[Len(parts)]
<1> DEFINE n == Len(parts)
           Joins(h) == h = [i \in 1..n |-> IF i = 1 THEN parts[i] ELSE h[i - 1] \o parts[i]]
           e == [i \in 1..n |-> f[i]]
           j == CHOOSE h : Joins(h)
<1>1. n \in Nat
  OBVIOUS
<1>2. CASE n = 0
  <2>1. parts = <<>>
    BY <1>2
  <2>. QED
    BY <1>2, <2>1 DEF FlattenSeq
<1>3. CASE n # 0
  <2>1. Joins(e)
    <3>1. ASSUME NEW i \in 1..n
          PROVE  f[i] = IF i = 1 THEN parts[i] ELSE e[i - 1] \o parts[i]
      <4>0. f[i] = f[i - 1] \o parts[i]
        OBVIOUS
      <4>1. parts[i] \in Seq(T)
        OBVIOUS
      <4>2. CASE i = 1
        <5>1. i - 1 = 0 /\ f[i - 1] = <<>>
          BY <4>2
        <5>2. <<>> \o parts[i] = parts[i]
          BY <4>1, ConcatEmptySeq
        <5>. QED
          BY <4>0, <4>2, <5>1, <5>2
      <4>3. CASE i # 1
        <5>1. i - 1 \in 1..n /\ e[i - 1] = f[i - 1]
          BY <4>3
        <5>. QED
          BY <4>3, <5>1
      <4>. QED
        BY <4>2, <4>3
    <3> DEFINE r == [i \in 1..n |-> IF i = 1 THEN parts[i] ELSE e[i - 1] \o parts[i]]
    <3>2. \A i \in 1..n : e[i] = r[i]
      BY <3>1
    <3>3. e = r
      BY <3>2
    <3>. QED
      BY <3>3
  <2>2. Joins(j)
    <3> HIDE DEF e, Joins
    <3>1. \E h : Joins(h)
      BY <2>1
    <3>. QED
      BY <3>1
  <2> HIDE DEF j
  <2> DEFINE same == {i \in 0..n : i = 0 \/ j[i] = f[i]}
  <2>3. ASSUME NEW k \in 1..n, k - 1 \in same PROVE k \in same
    <3>1. j[k] = IF k = 1 THEN parts[k] ELSE j[k - 1] \o parts[k]
      BY <2>2
    <3>2. parts[k] \in Seq(T) /\ <<>> \o parts[k] = parts[k]
      BY ConcatEmptySeq
    <3>3. k = 1 \/ j[k - 1] = f[k - 1]
      BY <2>3
    <3>4. f[k] = f[k - 1] \o parts[k]
      OBVIOUS
    <3>5. CASE k = 1
      <4>1. k - 1 = 0 /\ j[k] = parts[k]
        BY <3>1, <3>5
      <4>2. f[k - 1] = <<>>
        BY <4>1
      <4>. QED
        BY <3>2, <3>4, <4>1, <4>2
    <3>6. CASE k # 1
      <4>1. j[k] = j[k - 1] \o parts[k]
        BY <3>1, <3>6
      <4>2. j[k - 1] = f[k - 1] /\ k \in 0..n
        BY <3>3, <3>6
      <4>. QED
        BY <3>4, <4>1, <4>2
    <3>. QED
      BY <3>5, <3>6
  <2>4. 0 \in same
    OBVIOUS
  <2> HIDE DEF same
  <2>5. 0..n \subseteq same
    BY <1>1, <2>3, <2>4, UpTo
  <2>6. j[n] = f[n]
    <3>1. n \in 0..n
      BY <1>1
    <3>. QED
      BY <1>3, <2>5, <3>1 DEF same
  <2>7. FlattenSeq(parts) = j[n]
    BY <1>3 DEF FlattenSeq, j
  <2>. QED
    BY <2>6, <2>7
<1>. QED
  BY <1>2, <1>3

\* One more sequence is joined at the end.
LEMMA FlattenStep ==
    ASSUME NEW T, NEW parts \in Seq(Seq(T)), NEW i \in 1..Len(parts)
    PROVE  FlattenSeq(SubSeq(parts, 1, i)) = FlattenSeq(SubSeq(parts, 1, i - 1)) \o parts[i]
<1> DEFINE n == Len(parts)
           g == [x \in (1..n) \X Seq(T) |-> x[2] \o parts[x[1]]]
<1>1. n \in Nat /\ <<>> \in Seq(T)
  OBVIOUS
<1>2. g \in [(1..n) \X Seq(T) -> Seq(T)]
  <2>1. ASSUME NEW x \in (1..n) \X Seq(T) PROVE x[2] \o parts[x[1]] \in Seq(T)
    <3>1. x[2] \in Seq(T) /\ parts[x[1]] \in Seq(T)
      OBVIOUS
    <3>. QED
      BY <3>1
  <2>. QED
    BY <2>1
<1>3. PICK f \in [0..n -> Seq(T)] : f[0] = <<>> /\ \A k \in 1..n : f[k] = g[<<k, f[k - 1]>>]
  <2> DEFINE U == Seq(T)
  <2>1. <<>> \in U /\ g \in [(1..n) \X U -> U]
    BY <1>1, <1>2
  <2> HIDE DEF g, n, U
  <2>2. PICK f : Steps(f, n, U, <<>>, g)
    BY <1>1, <2>1, StepByStep, Zenon
  <2>3. f \in [0..n -> U] /\ f[0] = <<>> /\ \A k \in 1..n : f[k] = g[<<k, f[k - 1]>>]
    BY <2>2 DEF Steps
  <2>. QED
    BY <2>3 DEF U
<1>4. \A k \in 1..n : f[k] = f[k - 1] \o parts[k]
  <2>1. ASSUME NEW k \in 1..n PROVE f[k] = f[k - 1] \o parts[k]
    <3>1. k - 1 \in 0..n
      OBVIOUS
    <3>3. f[k - 1] \in Seq(T)
      BY <3>1
    <3>4. <<k, f[k - 1]>> \in (1..n) \X Seq(T)
      BY <3>3
    <3>2. g[<<k, f[k - 1]>>] = f[k - 1] \o parts[k]
      BY <3>4
    <3>. QED
      BY <1>3, <3>2
  <2>. QED
    BY <2>1
<1> HIDE DEF g
<1>5. ASSUME NEW m \in 0..n PROVE FlattenSeq(SubSeq(parts, 1, m)) = f[m]
  <2> DEFINE q == SubSeq(parts, 1, m)
             h == [k \in 0..m |-> f[k]]
  <2>1. q \in Seq(Seq(T)) /\ Len(q) = m /\ \A k \in 1..m : q[k] = parts[k]
    BY <1>1
  <2>2. h \in [0..m -> Seq(T)] /\ h[0] = <<>> /\ h[m] = f[m]
    BY <1>1, <1>3
  <2>3. ASSUME NEW k \in 1..m PROVE h[k] = h[k - 1] \o q[k]
    <3>1. k \in 0..m /\ k - 1 \in 0..m /\ k \in 1..n
      OBVIOUS
    <3>2. h[k] = f[k] /\ h[k - 1] = f[k - 1] /\ q[k] = parts[k]
      BY <2>1, <3>1
    <3>. QED
      BY <1>4, <3>1, <3>2
  <2> HIDE DEF q, h
  <2>. QED
    BY <2>1, <2>2, <2>3, FlattenIsJoin DEF q
<1>6. i \in 0..n /\ i - 1 \in 0..n
  OBVIOUS
<1>7. FlattenSeq(SubSeq(parts, 1, i)) = f[i] /\ FlattenSeq(SubSeq(parts, 1, i - 1)) = f[i - 1]
  BY <1>5, <1>6
<1>. QED
  BY <1>4, <1>7

\* Joining nothing gives nothing, and joining sequences a sequence.
LEMMA FlattenType ==
    ASSUME NEW T, NEW parts \in Seq(Seq(T))
    PROVE  /\ FlattenSeq(SubSeq(parts, 1, 0)) = <<>>
           /\ \A i \in 0..Len(parts) : FlattenSeq(SubSeq(parts, 1, i)) \in Seq(T)
           /\ SubSeq(parts, 1, Len(parts)) = parts
<1> DEFINE n == Len(parts)
           typed == {i \in 0..n : FlattenSeq(SubSeq(parts, 1, i)) \in Seq(T)}
<1>1. n \in Nat
  OBVIOUS
<1>2. FlattenSeq(SubSeq(parts, 1, 0)) = <<>>
  <2>1. SubSeq(parts, 1, 0) = <<>>
    OBVIOUS
  <2>2. FlattenSeq(<<>>) = <<>>
    BY DEF FlattenSeq
  <2>. QED
    BY <2>1, <2>2
<1>3. 0 \in typed
  <2>1. <<>> \in Seq(T) /\ 0 \in 0..n
    BY <1>1
  <2>. QED
    BY <1>2, <2>1
<1>4. ASSUME NEW k \in 1..n, k - 1 \in typed PROVE k \in typed
  <2>1. FlattenSeq(SubSeq(parts, 1, k)) = FlattenSeq(SubSeq(parts, 1, k - 1)) \o parts[k]
    BY FlattenStep
  <2>2. parts[k] \in Seq(T) /\ FlattenSeq(SubSeq(parts, 1, k - 1)) \in Seq(T)
    BY <1>4
  <2>3. FlattenSeq(SubSeq(parts, 1, k)) \in Seq(T)
    BY <2>1, <2>2, ConcatProperties
  <2>. QED
    BY <2>3
<1> HIDE DEF typed
<1>5. 0..n \subseteq typed
  BY <1>1, <1>3, <1>4, UpTo
<1>6. SubSeq(parts, 1, Len(parts)) = parts
  BY SubSeqFull
<1>. QED
  BY <1>2, <1>5, <1>6 DEF typed

-----------------------------------------------------------------------------
(* Counting newlines. *)

\* Numbers that are moved up by d are as many as before.
LEMMA ShiftCount ==
    ASSUME NEW A \in SUBSET Nat, IsFiniteSet(A), NEW d \in Nat
    PROVE  /\ IsFiniteSet({k + d : k \in A})
           /\ Cardinality({k + d : k \in A}) = Cardinality(A)
<1> DEFINE B == {k + d : k \in A}
           f == [k \in A |-> k + d]
<1>1. f \in [A -> B]
  OBVIOUS
<1>2. \A a, b \in A : f[a] = f[b] => a = b
  OBVIOUS
<1>3. \A b \in B : \E a \in A : f[a] = b
  OBVIOUS
<1> HIDE DEF f, B
<1>4. f \in Injection(A, B)
  BY <1>1, <1>2 DEF Injection, IsInjective
<1>5. f \in Surjection(A, B)
  BY <1>1, <1>3 DEF Surjection
<1>6. ExistsBijection(A, B)
  BY <1>4, <1>5 DEF ExistsBijection, Bijection
<1>7. IsFiniteSet(B) /\ Cardinality(B) = Cardinality(A)
  BY <1>6, FS_Bijection
<1>. QED
  BY <1>7 DEF B

\* The newlines of a text.
LEMMA NewlinesType ==
    ASSUME NEW T, NEW s \in Seq(T)
    PROVE  /\ IsFiniteSet({k \in 1..Len(s) : s[k] = "newline"})
           /\ NewlinesIn(s) \in Nat
<1> DEFINE N == {k \in 1..Len(s) : s[k] = "newline"}
<1>1. Len(s) \in Int /\ 1 \in Int
  OBVIOUS
<1>2. IsFiniteSet(1..Len(s))
  BY <1>1, FS_Interval
<1>3. N \in SUBSET (1..Len(s))
  OBVIOUS
<1> HIDE DEF N
<1>4. IsFiniteSet(N)
  BY <1>2, <1>3, FS_Subset
<1>5. Cardinality(N) \in Nat
  BY <1>4, FS_CardinalityType
<1>. QED
  BY <1>4, <1>5 DEF N, NewlinesIn

\* The newlines of two texts joined.
LEMMA NewlinesJoined ==
    ASSUME NEW T, NEW s \in Seq(T), NEW t \in Seq(T)
    PROVE  NewlinesIn(s \o t) = NewlinesIn(s) + NewlinesIn(t)
<1> DEFINE A == {k \in 1..Len(s) : s[k] = "newline"}
           B == {k \in 1..Len(t) : t[k] = "newline"}
           C == {k + Len(s) : k \in B}
           J == {k \in 1..Len(s \o t) : (s \o t)[k] = "newline"}
<1>1. IsFiniteSet(A) /\ IsFiniteSet(B) /\ Cardinality(A) = NewlinesIn(s) /\ Cardinality(B) = NewlinesIn(t)
  BY NewlinesType DEF NewlinesIn
<1>2. B \in SUBSET Nat /\ Len(s) \in Nat /\ Len(t) \in Nat
  OBVIOUS
<1>3. Len(s \o t) = Len(s) + Len(t)
  OBVIOUS
<1>4. ASSUME NEW k \in 1..Len(s) PROVE (s \o t)[k] = s[k] /\ k \in 1..Len(s \o t)
  OBVIOUS
<1>5. ASSUME NEW k \in 1..Len(t)
      PROVE  (s \o t)[k + Len(s)] = t[k] /\ k + Len(s) \in 1..Len(s \o t)
  OBVIOUS
<1>6. ASSUME NEW k \in 1..Len(s \o t), k \notin 1..Len(s)
      PROVE  k - Len(s) \in 1..Len(t) /\ (k - Len(s)) + Len(s) = k
  BY <1>2, <1>3, <1>6
<1>7. A \cup C \subseteq J
  BY <1>4, <1>5
<1>8. J \subseteq A \cup C
  <2>1. ASSUME NEW k \in J PROVE k \in A \cup C
    <3>1. CASE k \in 1..Len(s)
      BY <1>4, <3>1
    <3>2. CASE k \notin 1..Len(s)
      <4>1. k - Len(s) \in 1..Len(t) /\ (k - Len(s)) + Len(s) = k
        BY <1>6, <3>2
      <4>2. t[k - Len(s)] = "newline"
        BY <1>5, <4>1
      <4>. QED
        BY <4>1, <4>2
    <3>. QED
      BY <3>1, <3>2
  <2>. QED
    BY <2>1
<1>9. A \cap C = {}
  BY <1>2
<1>10. J = A \cup C
  BY <1>7, <1>8
<1> HIDE DEF A, B
<1>11. IsFiniteSet(C) /\ Cardinality(C) = Cardinality(B)
  BY <1>1, <1>2, ShiftCount
<1> HIDE DEF C, J
<1>12. Cardinality(J) = Cardinality(A) + Cardinality(C) - Cardinality(A \cap C)
  BY <1>1, <1>10, <1>11, FS_Union
<1>13. Cardinality(A \cap C) = 0
  BY <1>9, FS_EmptySet
<1>14. Cardinality(A) \in Nat /\ Cardinality(C) \in Nat
  BY <1>1, <1>11, FS_CardinalityType
<1>15. Cardinality(J) = Cardinality(A) + Cardinality(B)
  BY <1>11, <1>12, <1>13, <1>14
<1>. QED
  BY <1>1, <1>15 DEF J, NewlinesIn

-----------------------------------------------------------------------------
(* The text of a file. *)

\* The text of the first i lexemes of p.
Upto(lexemes, i) == TextOf(SubSeq(lexemes, 1, i))

\* The text grows by one lexeme at a time.
LEMMA TextGrows ==
    ASSUME NEW lexemes \in Seq(DOMAIN LexemeOf)
    PROVE  /\ \A i \in 0..Len(lexemes) : Upto(lexemes, i) \in Seq(Cell)
           /\ \A i \in 1..Len(lexemes) :
                  /\ CellsOf(lexemes[i]) \in Seq(Cell) \ {<<>>}
                  /\ Upto(lexemes, i) = Upto(lexemes, i - 1) \o CellsOf(lexemes[i])
           /\ Upto(lexemes, 0) = <<>>
           /\ Upto(lexemes, Len(lexemes)) = TextOf(lexemes)
<1> DEFINE n == Len(lexemes)
           parts == [i \in DOMAIN lexemes |-> LexemeOf[lexemes[i]].cells]
<1>1. n \in Nat /\ DOMAIN lexemes = 1..n
  OBVIOUS
<1>2. ASSUME NEW i \in 1..n PROVE LexemeOf[lexemes[i]].cells \in Seq(Cell) \ {<<>>}
  <2>1. lexemes[i] \in DOMAIN LexemeOf
    OBVIOUS
  <2>. QED
    BY <2>1, GrammarAssumption
<1>3. parts \in Seq(Seq(Cell)) /\ Len(parts) = n
  BY <1>1, <1>2
<1>4. ASSUME NEW i \in 0..n PROVE Upto(lexemes, i) = FlattenSeq(SubSeq(parts, 1, i))
  <2> DEFINE q == SubSeq(lexemes, 1, i)
             r == [j \in DOMAIN q |-> LexemeOf[q[j]].cells]
             u == SubSeq(parts, 1, i)
  <2>1. Len(q) = i /\ DOMAIN q = 1..i /\ \A j \in 1..i : q[j] = lexemes[j]
    BY <1>1
  <2>2. u \in Seq(Seq(Cell)) /\ Len(u) = i /\ \A j \in 1..i : u[j] = parts[j]
    <3> HIDE DEF parts
    <3>. QED
      BY <1>1, <1>3
  <2>3. \A j \in 1..i : r[j] = u[j]
    BY <1>1, <2>1, <2>2
  <2>4. DOMAIN u = 1..i /\ u = [j \in 1..i |-> u[j]]
    <3> HIDE DEF u
    <3>. QED
      BY <2>2
  <2>5. r = u
    <3> HIDE DEF u
    <3>1. r = [j \in 1..i |-> u[j]]
      BY <2>1, <2>3
    <3>. QED
      BY <2>4, <3>1
  <2>. QED
    BY <2>5 DEF Upto, TextOf
<1>5. TextOf(lexemes) = FlattenSeq(parts)
  BY DEF TextOf
<1> HIDE DEF parts
<1>6. SubSeq(parts, 1, n) = parts /\ FlattenSeq(SubSeq(parts, 1, 0)) = <<>>
  BY <1>3, FlattenType
<1>7. \A i \in 0..n : Upto(lexemes, i) \in Seq(Cell)
  BY <1>3, <1>4, FlattenType
<1>8. ASSUME NEW i \in 1..n
      PROVE  /\ CellsOf(lexemes[i]) \in Seq(Cell) \ {<<>>}
             /\ Upto(lexemes, i) = Upto(lexemes, i - 1) \o CellsOf(lexemes[i])
  <2>1. i \in 0..n /\ i - 1 \in 0..n /\ i \in 1..Len(parts)
    BY <1>1, <1>3
  <2>2. FlattenSeq(SubSeq(parts, 1, i)) = FlattenSeq(SubSeq(parts, 1, i - 1)) \o parts[i]
    BY <1>3, <2>1, FlattenStep
  <2>3. parts[i] = CellsOf(lexemes[i])
    BY <1>1 DEF parts, CellsOf
  <2>4. Upto(lexemes, i) = FlattenSeq(SubSeq(parts, 1, i)) /\ Upto(lexemes, i - 1) = FlattenSeq(SubSeq(parts, 1, i - 1))
    BY <1>4, <2>1
  <2>5. CellsOf(lexemes[i]) \in Seq(Cell) \ {<<>>}
    BY <1>2 DEF CellsOf
  <2>. QED
    BY <2>2, <2>3, <2>4, <2>5
<1>9. 0 \in 0..n /\ n \in 0..n
  BY <1>1
<1>10. Upto(lexemes, 0) = <<>> /\ Upto(lexemes, n) = TextOf(lexemes)
  BY <1>4, <1>5, <1>6, <1>9
<1>. QED
  BY <1>7, <1>8, <1>10

\* The text of fewer lexemes is a prefix of that of more.
LEMMA TextPrefix ==
    ASSUME NEW lexemes \in Seq(DOMAIN LexemeOf), NEW i \in 0..Len(lexemes), NEW j \in i..Len(lexemes)
    PROVE  /\ Len(Upto(lexemes, i)) <= Len(Upto(lexemes, j))
           /\ \A k \in 1..Len(Upto(lexemes, i)) : Upto(lexemes, j)[k] = Upto(lexemes, i)[k]
<1> DEFINE n == Len(lexemes) - i
           U(m) == Upto(lexemes, m)
           Extends(m) == Len(U(i)) <= Len(U(m)) /\ \A k \in 1..Len(U(i)) : U(m)[k] = U(i)[k]
           good == {d \in 0..n : Extends(i + d)}
<1>1. n \in Nat
  OBVIOUS
<1>2. 0 \in good
  <2>1. U(i) \in Seq(Cell) /\ i + 0 = i
    BY TextGrows
  <2>2. Len(U(i)) <= Len(U(i))
    BY <2>1
  <2>. QED
    BY <1>1, <2>1, <2>2
<1>3. ASSUME NEW d \in 1..n, d - 1 \in good PROVE d \in good
  <2> DEFINE m == i + d
  <2>1. m \in 1..Len(lexemes) /\ m - 1 \in 0..Len(lexemes) /\ m - 1 = i + (d - 1)
    BY <1>1
  <2>2. Extends(m - 1)
    BY <1>3, <2>1
  <2>3. /\ U(m) = U(m - 1) \o CellsOf(lexemes[m])
        /\ U(m - 1) \in Seq(Cell) /\ CellsOf(lexemes[m]) \in Seq(Cell) /\ U(i) \in Seq(Cell)
    BY <2>1, TextGrows
  <2>4. \A a, b \in Seq(Cell) :
            Len(a) <= Len(a \o b) /\ Len(a) \in Nat /\ Len(a \o b) \in Nat
            /\ \A k \in 1..Len(a) : (a \o b)[k] = a[k]
    BY ConcatProperties
  <2> HIDE DEF m, U
  <2>5. /\ Len(U(m - 1)) <= Len(U(m)) /\ Len(U(m)) \in Nat /\ Len(U(m - 1)) \in Nat
        /\ \A k \in 1..Len(U(m - 1)) : U(m)[k] = U(m - 1)[k]
    BY <2>3, <2>4
  <2>6. Len(U(i)) \in Nat
    BY <2>3
  <2>7. Extends(m)
    BY <2>2, <2>5, <2>6
  <2>. QED
    BY <2>7 DEF m
<1> HIDE DEF good
<1>4. 0..n \subseteq good
  BY <1>1, <1>2, <1>3, UpTo
<1>5. j - i \in 0..n /\ i + (j - i) = j
  OBVIOUS
<1>6. Extends(j)
  BY <1>4, <1>5 DEF good
<1>. QED
  BY <1>6

-----------------------------------------------------------------------------
(* One lexeme. *)

\* The scanner is about to take the cells c, and the cell next comes after them.
Before(c, next) ==
    /\ source \in Seq(Cell) /\ current \in Nat /\ status = "SUCCESS"
    /\ c \in Seq(Cell) \ {<<>>}
    /\ current + Len(c) <= Len(source)
    /\ \A j \in 1..Len(c) : lex_peek(j) = c[j]
    /\ lex_peek(Len(c) + 1) = next

\* Between two lexemes of a file the scanner is about to take the second.
LEMMA BeforeEach ==
    ASSUME NEW lexemes \in Seq(DOMAIN LexemeOf), source = TextOf(lexemes), status = "SUCCESS",
           NEW i \in 1..Len(lexemes), current = Len(Upto(lexemes, i - 1))
    PROVE  /\ Before(CellsOf(lexemes[i]), NextCell(lexemes, i))
           /\ current + Len(CellsOf(lexemes[i])) = Len(Upto(lexemes, i))
           /\ i = Len(lexemes) <=> Len(Upto(lexemes, i)) >= Len(source)
<1> DEFINE n == Len(lexemes)
           U(m) == Upto(lexemes, m)
           c == CellsOf(lexemes[i])
<1>1. i \in 0..n /\ i - 1 \in 0..n /\ n \in i..n /\ n \in Nat /\ n \in 0..n
  OBVIOUS
<1>2. /\ U(i) = U(i - 1) \o c /\ source = U(n)
      /\ U(i - 1) \in Seq(Cell) /\ c \in Seq(Cell) \ {<<>>} /\ U(i) \in Seq(Cell) /\ U(n) \in Seq(Cell)
  BY <1>1, TextGrows
<1>3. /\ Len(U(i)) <= Len(source)
      /\ \A k \in 1..Len(U(i)) : source[k] = U(i)[k]
  <2>1. /\ Len(U(i)) <= Len(U(n))
        /\ \A k \in 1..Len(U(i)) : U(n)[k] = U(i)[k]
    BY <1>1, TextPrefix
  <2>. QED
    BY <1>2, <2>1
<1> HIDE DEF U, c
<1>4. /\ Len(U(i)) = current + Len(c) /\ current \in Nat /\ Len(c) \in Nat /\ Len(source) \in Nat
      /\ \A j \in 1..Len(c) : U(i)[current + j] = c[j] /\ current + j \in 1..Len(U(i))
  <2>1. \A a, b \in Seq(Cell) :
            /\ Len(a \o b) = Len(a) + Len(b) /\ Len(a) \in Nat /\ Len(b) \in Nat
            /\ \A j \in 1..Len(b) : (a \o b)[Len(a) + j] = b[j] /\ Len(a) + j \in 1..Len(a \o b)
    OBVIOUS
  <2>2. current = Len(U(i - 1)) /\ Len(source) \in Nat
    BY <1>2 DEF U
  <2>3. /\ Len(U(i - 1) \o c) = Len(U(i - 1)) + Len(c) /\ Len(U(i - 1)) \in Nat /\ Len(c) \in Nat
        /\ \A j \in 1..Len(c) : /\ (U(i - 1) \o c)[Len(U(i - 1)) + j] = c[j]
                                /\ Len(U(i - 1)) + j \in 1..Len(U(i - 1) \o c)
    BY <1>2, <2>1
  <2>. QED
    BY <1>2, <2>2, <2>3
<1>5. \A j \in 1..Len(c) : lex_peek(j) = c[j]
  <2>1. ASSUME NEW j \in 1..Len(c) PROVE lex_peek(j) = c[j]
    <3>1. current + j \in 1..Len(U(i)) /\ U(i)[current + j] = c[j]
      BY <1>4
    <3>2. current + j <= Len(source) /\ source[current + j] = c[j]
      BY <1>3, <1>4, <3>1
    <3>. QED
      BY <3>2 DEF lex_peek
  <2>. QED
    BY <2>1
<1>6. CASE i = n
  <2>1. Len(U(i)) = Len(source) /\ ~(current + (Len(c) + 1) <= Len(source))
    BY <1>2, <1>4, <1>6
  <2>2. lex_peek(Len(c) + 1) = ""
    BY <2>1 DEF lex_peek
  <2>3. NextCell(lexemes, i) = ""
    <3>1. ~(i < Len(lexemes))
      BY <1>1, <1>6
    <3>. QED
      BY <3>1 DEF NextCell
  <2>4. Before(c, "")
    BY <1>2, <1>3, <1>4, <1>5, <2>2 DEF Before
  <2>5. Len(U(i)) >= Len(source)
    BY <1>4, <2>1
  <2>. QED
    BY <1>4, <1>6, <2>3, <2>4, <2>5 DEF U, c
<1>7. CASE i # n
  <2> DEFINE d == CellsOf(lexemes[i + 1])
  <2>1. i + 1 \in 1..n /\ (i + 1) - 1 = i /\ i + 1 \in 0..n /\ n \in (i + 1)..n /\ i < n
    BY <1>1, <1>7
  <2>2. U(i + 1) = U(i) \o d /\ d \in Seq(Cell) \ {<<>>} /\ U(i + 1) \in Seq(Cell)
    <3>1. U((i + 1) - 1) = U(i)
      BY <2>1
    <3>. QED
      BY <2>1, <3>1, TextGrows DEF U
  <2>3. /\ Len(U(i + 1)) <= Len(source)
        /\ \A k \in 1..Len(U(i + 1)) : source[k] = U(i + 1)[k]
    BY <1>2, <2>1, TextPrefix DEF U
  <2> HIDE DEF d
  <2>4. Len(U(i)) + 1 \in 1..Len(U(i + 1)) /\ U(i + 1)[Len(U(i)) + 1] = d[1] /\ Len(U(i + 1)) \in Nat
    <3>1. \A a, b \in Seq(Cell) : b # <<>> =>
            /\ Len(a) + 1 \in 1..Len(a \o b) /\ (a \o b)[Len(a) + 1] = b[1] /\ Len(a \o b) \in Nat
      OBVIOUS
    <3>. QED
      BY <1>2, <2>2, <3>1
  <2>5. current + (Len(c) + 1) = Len(U(i)) + 1 /\ Len(U(i)) + 1 <= Len(source) /\ Len(U(i)) \in Nat
    BY <1>4, <2>3, <2>4
  <2>6. source[current + (Len(c) + 1)] = d[1]
    BY <2>3, <2>4, <2>5
  <2>7. lex_peek(Len(c) + 1) = d[1]
    BY <2>5, <2>6 DEF lex_peek
  <2>8. NextCell(lexemes, i) = d[1]
    BY <2>1 DEF NextCell, d
  <2>9. ~(Len(U(i)) >= Len(source))
    BY <1>4, <2>5
  <2>10. Before(c, d[1])
    BY <1>2, <1>3, <1>4, <1>5, <2>7 DEF Before
  <2>. QED
    BY <1>4, <1>7, <2>8, <2>9, <2>10 DEF U, c
<1>. QED
  BY <1>6, <1>7

\* The cells that the tables of the scanner are about.
LEMMA Tables ==
    /\ DOMAIN Single = {"(", ")", "[", "]", "{", "}", ",", "+", "-", "*", "%", "|", "&", "~", "^", ":", "#"}
    /\ DOMAIN Short = {"\\", ".", "!", "=", ">", "<"}
    /\ DOMAIN Long = {<<"\\", ".">>, <<".", ".">>, <<"!", "=">>, <<"=", "=">>, <<">", "=">>, <<">", ">">>,
                      <<"<", "=">>, <<"<", "<">>}
<1>1. DOMAIN Single = {"(", ")", "[", "]", "{", "}", ",", "+", "-", "*", "%", "|", "&", "~", "^", ":", "#"}
  BY Zenon DEF Single
<1>2. DOMAIN Short = {"\\", ".", "!", "=", ">", "<"}
  BY Zenon DEF Short
<1>3. DOMAIN Long = {<<"\\", ".">>, <<".", ".">>, <<"!", "=">>, <<"=", "=">>, <<">", "=">>, <<">", ">">>,
                     <<"<", "=">>, <<"<", "<">>}
  BY Zenon DEF Long
<1>. QED
  BY <1>1, <1>2, <1>3

\* A cell begins lexemes of one sort only.
LEMMA Apart ==
    ASSUME NEW a
    PROVE  /\ a \in DOMAIN Single => a \notin DOMAIN Short \cup {"/"} \cup Quotes \cup Digits \cup Words
           /\ a \in DOMAIN Short => a \notin {"/"} \cup Quotes \cup Digits \cup Words
           /\ a = "/" => a \notin Quotes \cup Digits \cup Words
           /\ a \in Quotes => a \notin Digits \cup Words
           /\ a \in Digits => a \notin Words
<1>1. a \in DOMAIN Single => a \notin DOMAIN Short \cup {"/"} \cup Quotes
  BY Tables DEF Quotes
<1>2. a \in DOMAIN Short => a \notin {"/"} \cup Quotes
  BY Tables DEF Quotes
<1>3. a = "/" => a \notin Quotes
  BY DEF Quotes
<1>4. a \in Marks => a \notin Digits \cup Words
  <2> HIDE DEF Marks
  <2>. QED
    BY LexerAssumption DEF Digits
<1>5. a \in DOMAIN Single \cup DOMAIN Short \cup {"/"} \cup Quotes => a \in Marks
  BY DEF Marks
<1>6. a \in Digits => a \notin Words
  BY LexerAssumption DEF Digits
<1>. QED
  BY <1>1, <1>2, <1>3, <1>4, <1>5, <1>6

\* The scanner looks at the first of the cells it is about to take.
LEMMA FirstCell ==
    ASSUME NEW c, NEW next, Before(c, next)
    PROVE  /\ Len(c) \in Nat \ {0} /\ lex_peek(1) = c[1] /\ ~lex_isEof
           /\ \A S : At(S) <=> c[1] \in S
<1>1. Len(c) \in Nat \ {0} /\ 1 \in 1..Len(c)
  BY DEF Before
<1>2. lex_peek(1) = c[1]
  BY <1>1 DEF Before
<1>3. ~lex_isEof
  <2>1. current \in Nat /\ Len(source) \in Nat /\ current + Len(c) <= Len(source)
    BY DEF Before
  <2>. QED
    BY <1>1, <2>1 DEF lex_isEof
<1>4. status = "SUCCESS"
  BY DEF Before
<1>. QED
  BY <1>1, <1>2, <1>3, <1>4 DEF At

\* What it sees first decides what it does.
LEMMA FirstCellDecides ==
    ASSUME NEW c, NEW next, Before(c, next), lex_scanToken
    PROVE  /\ c[1] \in DOMAIN Single => Punctuation
           /\ c[1] \in DOMAIN Short => OneOrTwo
           /\ c[1] = "/" => lex_handleComment \/ Division \/ lex_handleString
           /\ c[1] \in Quotes => lex_handleString
           /\ c[1] \in Digits => lex_handleInteger
           /\ c[1] \in Words => lex_handleIdentifier
           /\ c[1] \notin Marks \cup Digits \cup Words => Ignored
<1>1. \A S : At(S) <=> c[1] \in S
  BY FirstCell
<1>2. lex_peek(1) = c[1]
  BY FirstCell
<1>3. /\ Punctuation => c[1] \in DOMAIN Single
      /\ OneOrTwo => c[1] \in DOMAIN Short
      /\ lex_handleComment => c[1] = "/"
      /\ Division => c[1] = "/"
      /\ lex_handleString => c[1] = "/" \/ c[1] \in Quotes
      /\ lex_handleInteger => c[1] \in Digits
      /\ lex_handleIdentifier => c[1] \in Words
      /\ Ignored => c[1] \notin Marks \cup Digits \cup Words
  <2>1. Punctuation => c[1] \in DOMAIN Single
    BY <1>1 DEF Punctuation
  <2>2. OneOrTwo => c[1] \in DOMAIN Short
    BY <1>1 DEF OneOrTwo
  <2>3. lex_handleComment => c[1] = "/"
    BY <1>1 DEF lex_handleComment, AtComment
  <2>4. Division => c[1] = "/"
    BY <1>1 DEF Division
  <2>5. lex_handleString => c[1] = "/" \/ c[1] \in Quotes
    BY <1>1 DEF lex_handleString
  <2>6. lex_handleInteger => c[1] \in Digits
    BY <1>1 DEF lex_handleInteger
  <2>7. lex_handleIdentifier => c[1] \in Words
    BY <1>1 DEF lex_handleIdentifier
  <2>8. Ignored => c[1] \notin Marks \cup Digits \cup Words
    BY <1>2 DEF Ignored
  <2>. QED
    BY <2>1, <2>2, <2>3, <2>4, <2>5, <2>6, <2>7, <2>8
<1>4. DOMAIN Single \cup DOMAIN Short \cup {"/"} \cup Quotes = Marks
  BY DEF Marks
<1>5. Punctuation \/ OneOrTwo \/ lex_handleComment \/ Division \/ lex_handleString \/ lex_handleInteger
      \/ lex_handleIdentifier \/ Ignored
  BY DEF lex_scanToken
<1> DEFINE a == c[1]
<1>6. /\ a \in DOMAIN Single => a \notin DOMAIN Short \cup {"/"} \cup Quotes \cup Digits \cup Words
      /\ a \in DOMAIN Short => a \notin {"/"} \cup Quotes \cup Digits \cup Words
      /\ a = "/" => a \notin Quotes \cup Digits \cup Words
      /\ a \in Quotes => a \notin Digits \cup Words
      /\ a \in Digits => a \notin Words
  BY Apart
<1>. QED
  BY <1>3, <1>4, <1>5, <1>6, Zenon

\* A sign is taken as what it is.
LEMMA SignIsTaken ==
    ASSUME NEW c, NEW new, NEW next, Before(c, next), lex_scanToken, IsSign(c, new, next)
    PROVE  Take(Len(c), new)
<1>1. Len(c) \in Nat \ {0} /\ lex_peek(1) = c[1] /\ c \in Seq(Cell)
  BY FirstCell DEF Before
<1>2. ASSUME Len(c) = 1, c[1] \in DOMAIN Single, new = <<Token(Single[c[1]], <<>>)>>
      PROVE  Take(Len(c), new)
  BY <1>1, <1>2, FirstCellDecides DEF Punctuation
<1>3. ASSUME Len(c) = 1, c[1] \in DOMAIN Short, <<c[1], next>> \notin DOMAIN Long,
             new = <<Token(Short[c[1]], <<>>)>>
      PROVE  Take(Len(c), new)
  <2>1. lex_peek(2) = next
    BY <1>3 DEF Before
  <2>2. OneOrTwo
    BY <1>3, FirstCellDecides
  <2>. QED
    BY <1>1, <1>3, <2>1, <2>2, Zenon DEF OneOrTwo
<1>4. ASSUME c \in DOMAIN Long, new = <<Token(Long[c], <<>>)>>
      PROVE  Take(Len(c), new)
  <2>1. c = <<c[1], c[2]>> /\ Len(c) = 2 /\ c[1] \in DOMAIN Short
    <3>1. c \in {<<"\\", ".">>, <<".", ".">>, <<"!", "=">>, <<"=", "=">>, <<">", "=">>, <<">", ">">>,
                 <<"<", "=">>, <<"<", "<">>}
      BY <1>4, Tables
    <3>2. c = <<c[1], c[2]>> /\ Len(c) = 2 /\ c[1] \in {"\\", ".", "!", "=", ">", "<"}
      BY <3>1
    <3>. QED
      BY <3>2, Tables
  <2>2. lex_peek(2) = c[2]
    BY <2>1 DEF Before
  <2>3. OneOrTwo
    BY <2>1, FirstCellDecides
  <2>4. c = <<lex_peek(1), lex_peek(2)>>
    BY <1>1, <2>1, <2>2
  <2>5. OneOrTwo => Take(2, <<Token(Long[c], <<>>)>>)
    BY <1>4, <2>4, Zenon DEF OneOrTwo
  <2>. QED
    BY <1>4, <2>1, <2>3, <2>5
<1>. QED
  BY <1>2, <1>3, <1>4 DEF IsSign

\* A slash that divides.
LEMMA DivisionIsTaken ==
    ASSUME NEW c, NEW new, NEW next, Before(c, next), lex_scanToken,
           IsDivision(c, new, next, lex_last_token_type = "MATCHES")
    PROVE  Take(Len(c), new)
<1>1. c = <<"/">> /\ Len(c) = 1 /\ c[1] = "/" /\ next \notin {"/", "*"} /\ new = <<Token("DIV", <<>>)>>
      /\ lex_last_token_type # "MATCHES"
  BY DEF IsDivision
<1>2. lex_peek(2) = next
  BY <1>1 DEF Before
<1>3. ~AtComment
  BY <1>1, <1>2 DEF AtComment
<1>4. ~At(Quotes)
  <2>1. At(Quotes) <=> c[1] \in Quotes
    BY FirstCell
  <2>2. c[1] \notin Quotes
    BY <1>1 DEF Quotes
  <2>. QED
    BY <2>1, <2>2
<1>5. Division
  BY <1>1, <1>3, <1>4, FirstCellDecides DEF lex_handleComment, lex_handleString
<1>. QED
  BY <1>1, <1>5 DEF Division

\* A blank, or another cell that begins nothing.
LEMMA BlankIsTaken ==
    ASSUME NEW c, NEW new, NEW next, Before(c, next), lex_scanToken, IsBlank(c, new)
    PROVE  Take(Len(c), new)
  BY FirstCellDecides DEF IsBlank, Ignored

\* The least member of a set of numbers is its first.
LEMMA FirstIs ==
    ASSUME NEW S \in SUBSET Nat, NEW m \in S, \A j \in S : m <= j
    PROVE  FirstOf(S) = m
<1>1. \A k \in S : (\A j \in S : k <= j) => k = m
  BY SMT
<1>. QED
  BY <1>1 DEF FirstOf

\* The cells of a lexeme from number k on, when all of them are in S.
LEMMA RunIs ==
    ASSUME NEW c, NEW next, Before(c, next), NEW k \in 1..(Len(c) + 1), NEW S,
           \A j \in k..Len(c) : c[j] \in S, next \notin S
    PROVE  RunOf(k, S) = Len(c) + 1 - k
<1> DEFINE others == {j \in Rest : j >= k /\ lex_peek(j) \notin S}
<1>1. current \in Nat /\ Len(source) \in Nat /\ Len(c) \in Nat /\ current + Len(c) <= Len(source)
  BY DEF Before
<1>2. ASSUME NEW j \in others PROVE j \in Nat /\ Len(c) + 1 <= j
  <2>1. j \in 1..(Len(source) - current) /\ j >= k /\ lex_peek(j) \notin S
    BY DEF Rest
  <2>2. j \notin k..Len(c)
    <3>1. ASSUME j \in k..Len(c) PROVE FALSE
      <4>1. c[j] \in S /\ j \in 1..Len(c)
        BY <3>1
      <4>2. lex_peek(j) = c[j]
        BY <4>1 DEF Before
      <4>. QED
        BY <2>1, <4>1, <4>2
    <3>. QED
      BY <3>1
  <2>. QED
    BY <1>1, <2>1, <2>2
<1>3. CASE current + Len(c) = Len(source)
  <2>1. others = {}
    <3>1. ASSUME NEW j \in others PROVE FALSE
      <4>1. j \in 1..(Len(source) - current)
        BY DEF Rest
      <4>. QED
        BY <1>1, <1>2, <1>3, <4>1
    <3>. QED
      BY <3>1
  <2>2. RunOf(k, S) = (Len(source) - current + 1) - k
    BY <2>1 DEF RunOf
  <2>. QED
    BY <1>1, <1>3, <2>2
<1>4. CASE current + Len(c) # Len(source)
  <2>1. Len(c) + 1 \in Rest /\ Len(c) + 1 >= k
    BY <1>1, <1>4 DEF Rest
  <2>2. lex_peek(Len(c) + 1) \notin S
    BY DEF Before
  <2>3. Len(c) + 1 \in others
    BY <2>1, <2>2
  <2>4. others \in SUBSET Nat /\ \A j \in others : Len(c) + 1 <= j
    BY <1>2
  <2>5. FirstOf(others) = Len(c) + 1
    <3> HIDE DEF others
    <3>. QED
      BY <2>3, <2>4, FirstIs
  <2>6. RunOf(k, S) = FirstOf(others) - k
    BY <2>3 DEF RunOf
  <2>. QED
    BY <2>5, <2>6
<1>. QED
  BY <1>3, <1>4

\* The cells of the source from number k on are those of the lexeme.
LEMMA CellsAre ==
    ASSUME NEW c, NEW next, Before(c, next), NEW k \in 1..Len(c), NEW n \in Nat, k + n - 1 <= Len(c)
    PROVE  Cells(k, n) = SubSeq(c, k, k + n - 1)
<1> DEFINE a == current + k
           s == SubSeq(source, a, a + n - 1)
           t == SubSeq(c, k, k + n - 1)
<1>1. /\ current \in Nat /\ Len(source) \in Nat /\ Len(c) \in Nat /\ current + Len(c) <= Len(source)
      /\ source \in Seq(Cell) /\ c \in Seq(Cell)
  BY DEF Before
<1>2. ASSUME NEW j \in 1..n PROVE source[a + j - 1] = c[k + j - 1]
  <2>1. k + j - 1 \in 1..Len(c) /\ current + (k + j - 1) <= Len(source) /\ current + (k + j - 1) = a + j - 1
    BY <1>1
  <2>2. lex_peek(k + j - 1) = c[k + j - 1]
    BY <2>1 DEF Before
  <2>3. lex_peek(k + j - 1) = source[current + (k + j - 1)]
    BY <2>1 DEF lex_peek
  <2>. QED
    BY <2>1, <2>2, <2>3
<1>3. a \in Int /\ a + n - 1 \in Int /\ a + n - 1 <= Len(source) /\ a >= 1
  BY <1>1
<1>4. s \in Seq(Cell) /\ Len(s) = n /\ \A j \in 1..n : s[j] = source[a + j - 1]
  <2>1. \A i \in a..(a + n - 1) : source[i] \in Cell
    BY <1>1, <1>3
  <2> HIDE DEF a
  <2>. QED
    BY <1>3, <2>1, SubSeqProperties
<1>5. t \in Seq(Cell) /\ Len(t) = n /\ \A j \in 1..n : t[j] = c[k + j - 1]
  <2>1. \A i \in k..(k + n - 1) : c[i] \in Cell
    BY <1>1
  <2>. QED
    BY <2>1, SubSeqProperties
<1>6. s = t
  <2> HIDE DEF s, t
  <2>. QED
    BY <1>2, <1>4, <1>5, SeqEqual
<1>. QED
  BY <1>6 DEF Cells

\* All cells of a lexeme.
LEMMA AllCells ==
    ASSUME NEW c, NEW next, Before(c, next)
    PROVE  Cells(1, Len(c)) = c
<1>1. c \in Seq(Cell) /\ Len(c) \in Nat /\ 1 \in 1..Len(c) /\ 1 + Len(c) - 1 = Len(c)
  BY DEF Before
<1>2. Cells(1, Len(c)) = SubSeq(c, 1, 1 + Len(c) - 1)
  BY <1>1, CellsAre
<1>3. SubSeq(c, 1, Len(c)) = c
  BY <1>1, SubSeqFull
<1>. QED
  BY <1>1, <1>2, <1>3

\* An identifier or a keyword.
LEMMA WordIsTaken ==
    ASSUME NEW c, NEW new, NEW next, Before(c, next), lex_scanToken, IsWord(c, new, next)
    PROVE  Take(Len(c), new)
<1>1. Len(c) \in Nat \ {0} /\ c \in Seq(Cell) /\ DOMAIN c = 1..Len(c)
  BY FirstCell DEF Before
<1>2. c[1] \in Words /\ next \notin Words \cup Digits /\ \A k \in 1..Len(c) : c[k] \in Words \cup Digits
  BY <1>1 DEF IsWord, Only
<1>3. lex_handleIdentifier
  BY <1>2, FirstCellDecides
<1>4. RunOf(1, Words \cup Digits) = Len(c)
  <2>1. RunOf(1, Words \cup Digits) = Len(c) + 1 - 1
    BY <1>1, <1>2, RunIs
  <2>. QED
    BY <1>1, <2>1
<1>5. Cells(1, Len(c)) = c
  BY AllCells
<1>. QED
  BY <1>3, <1>4, <1>5, Zenon DEF lex_handleIdentifier, IsWord

\* A decimal number.
LEMMA DecimalIsTaken ==
    ASSUME NEW c, NEW new, NEW next, Before(c, next), lex_scanToken, IsDecimal(c, new, next)
    PROVE  Take(Len(c), new)
<1> DEFINE S == Digits \cup UpperHex
           hex == lex_peek(1) = "0" /\ lex_peek(2) = "x"
<1>1. Len(c) \in Nat \ {0} /\ c \in Seq(Cell) /\ DOMAIN c = 1..Len(c) /\ lex_peek(1) = c[1]
  BY FirstCell DEF Before
<1>2. /\ c[1] \in Digits /\ next \notin S /\ \A k \in 1..Len(c) : c[k] \in S
      /\ ~(c = <<"0">> /\ next = "x")
      /\ Numeral(10, c) # LongMax /\ new = <<Token("NUMBER", Numeral(10, c))>>
  BY <1>1 DEF IsDecimal, Only
<1>3. "x" \notin S
  BY LexerAssumption DEF Digits
<1>4. ~hex
  <2>1. SUFFICES ASSUME c[1] = "0", lex_peek(2) = "x" PROVE FALSE
    BY <1>1
  <2>2. CASE Len(c) = 1
    <3>1. c = <<"0">>
      BY <1>1, <2>1, <2>2
    <3>2. lex_peek(2) = next
      BY <2>2 DEF Before
    <3>. QED
      BY <1>2, <2>1, <3>1, <3>2
  <2>3. CASE Len(c) # 1
    <3>1. 2 \in 1..Len(c)
      BY <1>1, <2>3
    <3>2. lex_peek(2) = c[2]
      BY <3>1 DEF Before
    <3>3. c[2] \in S
      BY <1>2, <3>1
    <3>. QED
      BY <1>3, <2>1, <3>2, <3>3
  <2>. QED
    BY <2>2, <2>3
<1>5. RunOf(1, S) = Len(c)
  <2>1. RunOf(1, S) = Len(c) + 1 - 1
    <3> HIDE DEF S
    <3>. QED
      BY <1>1, <1>2, RunIs
  <2>. QED
    BY <1>1, <2>1
<1>6. Cells(1, Len(c)) = c
  BY AllCells
<1>7. lex_handleInteger
  BY <1>2, FirstCellDecides
<1>8. S \cup {} = S
  OBVIOUS
<1>9. lex_handleInteger => IF Len(c) = 0 THEN Panic(2, "CRASHED")
                           ELSE IF Numeral(10, Cells(1, Len(c))) = LongMax
                           THEN Panic(1 - 1 + Len(c), "UNSUCCESSFUL")
                           ELSE Take(1 - 1 + Len(c), <<Token("NUMBER", Numeral(10, Cells(1, Len(c))))>>)
  BY <1>4, <1>5, <1>8, Zenon DEF lex_handleInteger
<1>10. 1 - 1 + Len(c) = Len(c) /\ Len(c) # 0
  BY <1>1
<1>. QED
  BY <1>2, <1>6, <1>7, <1>9, <1>10

\* A hexadecimal number.
LEMMA HexadecimalIsTaken ==
    ASSUME NEW c, NEW new, NEW next, Before(c, next), lex_scanToken, IsHexadecimal(c, new, next)
    PROVE  Take(Len(c), new)
<1> DEFINE S == Digits \cup UpperHex \cup LowerHex
           hex == lex_peek(1) = "0" /\ lex_peek(2) = "x"
           n == Len(c) - 2
           digits == SubSeq(c, 3, Len(c))
<1>1. Len(c) \in Nat \ {0} /\ c \in Seq(Cell) /\ DOMAIN c = 1..Len(c) /\ lex_peek(1) = c[1]
  BY FirstCell DEF Before
<1>2. /\ c[1] = "0" /\ c[1] \in Digits /\ Len(c) > 2 /\ c[2] = "x" /\ next \notin S
      /\ Only(digits, S)
      /\ Numeral(16, digits) # LongMax /\ new = <<Token("NUMBER", Numeral(16, digits))>>
  BY DEF IsHexadecimal
<1>3. hex
  <2>1. 2 \in 1..Len(c)
    BY <1>1, <1>2
  <2>2. lex_peek(2) = c[2]
    BY <2>1 DEF Before
  <2>. QED
    BY <1>1, <1>2, <2>2
<1>4. n \in Nat \ {0} /\ 3 + n - 1 = Len(c) /\ 3 \in 1..Len(c)
  BY <1>1, <1>2
<1>5. \A j \in 3..Len(c) : c[j] \in S
  <2>1. \A q \in Seq(Cell) : \A j \in 3..Len(q) :
            j - 2 \in DOMAIN SubSeq(q, 3, Len(q)) /\ SubSeq(q, 3, Len(q))[j - 2] = q[j]
    OBVIOUS
  <2>2. ASSUME NEW j \in 3..Len(c) PROVE c[j] \in S
    <3>1. j - 2 \in DOMAIN digits /\ digits[j - 2] = c[j]
      BY <1>1, <2>1
    <3>. QED
      BY <1>2, <3>1 DEF Only
  <2>. QED
    BY <2>2
<1>6. RunOf(3, S) = n
  <2>1. RunOf(3, S) = Len(c) + 1 - 3
    <3>1. 3 \in 1..(Len(c) + 1)
      BY <1>4, <1>1
    <3> HIDE DEF S
    <3>. QED
      BY <1>2, <1>5, <3>1, RunIs
  <2>. QED
    BY <1>1, <2>1
<1>7. Cells(3, n) = digits
  <2>1. Cells(3, n) = SubSeq(c, 3, 3 + n - 1)
    <3>1. n \in Nat /\ 3 + n - 1 <= Len(c) /\ 3 \in 1..Len(c)
      BY <1>1, <1>4
    <3> HIDE DEF n
    <3>. QED
      BY <3>1, CellsAre
  <2>. QED
    BY <1>4, <2>1
<1>8. lex_handleInteger
  BY <1>2, FirstCellDecides
<1>9. lex_handleInteger => IF n = 0 THEN Panic(2, "CRASHED")
                           ELSE IF Numeral(16, Cells(3, n)) = LongMax
                           THEN Panic(3 - 1 + n, "UNSUCCESSFUL")
                           ELSE Take(3 - 1 + n, <<Token("NUMBER", Numeral(16, Cells(3, n)))>>)
  <2> HIDE DEF n
  <2>. QED
    BY <1>3, <1>6, Zenon DEF lex_handleInteger
<1>10. 3 - 1 + n = Len(c) /\ n # 0
  BY <1>1, <1>4
<1> HIDE DEF n, digits
<1>. QED
  BY <1>2, <1>7, <1>8, <1>9, <1>10

\* A comment.
LEMMA CommentIsTaken ==
    ASSUME NEW c, NEW new, NEW next, Before(c, next), lex_scanToken, IsComment(c, new)
    PROVE  Take(Len(c), new)
<1> DEFINE last == Len(c)
<1>1. last \in Nat \ {0} /\ lex_peek(1) = c[1] /\ last > 2 /\ c[1] = "/" /\ new = <<>>
  BY FirstCell DEF IsComment
<1>2. /\ current \in Nat /\ Len(source) \in Nat /\ current + last <= Len(source)
      /\ \A j \in 1..last : lex_peek(j) = c[j]
  BY DEF Before
<1>3. lex_peek(2) = c[2] /\ c[2] \in {"/", "*"}
  BY <1>1, <1>2 DEF IsComment
<1>4. AtComment
  <2>1. At({"/"}) <=> c[1] \in {"/"}
    BY FirstCell
  <2>. QED
    BY <1>1, <1>3, <2>1 DEF AtComment
<1>5. lex_handleComment
  <2>1. ~At(Quotes)
    <3>1. At(Quotes) <=> c[1] \in Quotes
      BY FirstCell
    <3>2. c[1] \notin Quotes
      BY <1>1 DEF Quotes
    <3>. QED
      BY <3>1, <3>2
  <2>. QED
    BY <1>1, <1>4, <2>1, FirstCellDecides DEF Division, lex_handleString
<1>6. last \in CommentEnds
  <2>1. last \in Rest
    BY <1>1, <1>2 DEF Rest
  <2>2. last - 1 \in 1..last /\ last \in 1..last
    BY <1>1
  <2>3. lex_peek(last) = c[last] /\ lex_peek(last - 1) = c[last - 1]
    BY <1>2, <2>2
  <2>4. CASE c[2] = "/"
    <3>1. c[last] = "newline"
      BY <2>4 DEF IsComment
    <3>. QED
      BY <1>1, <1>3, <2>1, <2>3, <2>4, <3>1 DEF CommentEnds
  <2>5. CASE c[2] = "*"
    <3>1. last > 3 /\ c[last - 1] = "*" /\ c[last] = "/"
      BY <2>5 DEF IsComment
    <3>. QED
      BY <1>1, <1>3, <2>1, <2>3, <2>5, <3>1 DEF CommentEnds
  <2>. QED
    BY <1>3, <2>4, <2>5
<1>7. ASSUME NEW j \in CommentEnds PROVE j \in Nat /\ last <= j
  <2>1. j \in 1..(Len(source) - current) /\ j > 2
    BY DEF CommentEnds, Rest
  <2>2. ASSUME j < last PROVE FALSE
    <3>1. j \in 1..last /\ j - 1 \in 1..last /\ j \in 3..(last - 1)
      BY <1>1, <2>1, <2>2
    <3>2. lex_peek(j) = c[j] /\ lex_peek(j - 1) = c[j - 1]
      BY <1>2, <3>1
    <3>3. CASE c[2] = "/"
      <4>1. c[j] # "newline"
        BY <3>1, <3>3 DEF IsComment
      <4>. QED
        BY <1>3, <3>2, <3>3, <4>1 DEF CommentEnds
    <3>4. CASE c[2] = "*"
      <4>1. j > 3 /\ c[j - 1] = "*" /\ c[j] = "/"
        BY <1>3, <3>2, <3>4 DEF CommentEnds
      <4>2. j \in 4..(last - 1)
        BY <3>1, <4>1
      <4>. QED
        BY <3>4, <4>1, <4>2 DEF IsComment
    <3>. QED
      BY <1>3, <3>3, <3>4
  <2>. QED
    BY <1>1, <2>1, <2>2
<1>8. FirstOf(CommentEnds) = last
  <2>1. CommentEnds \in SUBSET Nat /\ \A j \in CommentEnds : last <= j
    BY <1>7
  <2> HIDE DEF last
  <2>. QED
    BY <1>6, <2>1, FirstIs
<1>. QED
  BY <1>1, <1>5, <1>6, <1>8 DEF lex_handleComment

-----------------------------------------------------------------------------
(* Literals. *)

\* A cell begins an escape sequence if it is a backslash and the cell before it
\* does not.
LEMMA EscapesStep ==
    ASSUME NEW T, NEW c \in Seq(T)
    PROVE  \A k \in 1..Len(c) :
               Escapes(c)[k] = (k > 1 /\ c[1] # "/" /\ c[k] = "\\" /\ ~Escapes(c)[k - 1])
<1> DEFINE n == Len(c)
           Fits(h) == h = [k \in 1..n |-> k > 1 /\ c[1] # "/" /\ c[k] = "\\" /\ ~h[k - 1]]
           g == [x \in (1..n) \X BOOLEAN |-> x[1] > 1 /\ c[1] # "/" /\ c[x[1]] = "\\" /\ ~x[2]]
           j == CHOOSE h : Fits(h)
<1>1. n \in Nat /\ FALSE \in BOOLEAN
  OBVIOUS
<1>2. g \in [(1..n) \X BOOLEAN -> BOOLEAN]
  OBVIOUS
<1>3. PICK f : Steps(f, n, BOOLEAN, FALSE, g)
  <2> HIDE DEF g, n
  <2>. QED
    BY <1>1, <1>2, StepByStep, Zenon
<1>4. f \in [0..n -> BOOLEAN] /\ f[0] = FALSE /\ \A k \in 1..n : f[k] = g[<<k, f[k - 1]>>]
  BY <1>3, Zenon DEF Steps
<1>5. ASSUME NEW k \in 1..n
      PROVE  f[k] = (k > 1 /\ c[1] # "/" /\ c[k] = "\\" /\ ~f[k - 1])
  <2>1. k - 1 \in 0..n
    OBVIOUS
  <2>2. f[k - 1] \in BOOLEAN
    BY <1>4, <2>1
  <2>3. <<k, f[k - 1]>> \in (1..n) \X BOOLEAN
    BY <2>2
  <2>4. g[<<k, f[k - 1]>>] = (k > 1 /\ c[1] # "/" /\ c[k] = "\\" /\ ~f[k - 1])
    BY <2>3
  <2>5. f[k] = g[<<k, f[k - 1]>>]
    BY <1>4
  <2>. QED
    BY <2>4, <2>5
<1> DEFINE e == [k \in 1..n |-> f[k]]
<1>6. Fits(e)
  <2>1. ASSUME NEW k \in 1..n
        PROVE  f[k] = (k > 1 /\ c[1] # "/" /\ c[k] = "\\" /\ ~e[k - 1])
    <3>1. CASE k = 1
      <4>1. ~(k > 1)
        BY <3>1
      <4>. QED
        BY <1>5, <4>1
    <3>2. CASE k # 1
      <4>1. k - 1 \in 1..n
        BY <3>2
      <4>2. e[k - 1] = f[k - 1]
        BY <4>1
      <4>. QED
        BY <1>5, <4>2
    <3>. QED
      BY <3>1, <3>2
  <2>2. [k \in 1..n |-> f[k]] = [k \in 1..n |-> k > 1 /\ c[1] # "/" /\ c[k] = "\\" /\ ~e[k - 1]]
    BY <2>1
  <2>. QED
    BY <2>2
<1>7. Fits(j)
  <2> HIDE DEF e, Fits
  <2>1. \E h : Fits(h)
    BY <1>6
  <2>. QED
    BY <2>1
<1>8. Escapes(c) = j
  BY DEF Escapes
<1> HIDE DEF j
<1>9. \A k \in 1..n : j[k] = (k > 1 /\ c[1] # "/" /\ c[k] = "\\" /\ ~j[k - 1])
  BY <1>7
<1>. QED
  BY <1>8, <1>9

\* Whether a cell begins an escape sequence depends on the cells up to it only.
LEMMA EscapesOfPrefix ==
    ASSUME NEW T, NEW p \in Seq(T), NEW q \in Seq(T), Len(p) <= Len(q),
           \A k \in 1..Len(p) : q[k] = p[k]
    PROVE  \A k \in 1..Len(p) : Escapes(q)[k] = Escapes(p)[k]
<1> DEFINE n == Len(p)
           same == {k \in 0..n : k = 0 \/ Escapes(q)[k] = Escapes(p)[k]}
<1>1. n \in Nat /\ Len(q) \in Nat /\ n <= Len(q)
  OBVIOUS
<1>2. 0 \in same
  BY <1>1
<1>3. ASSUME NEW k \in 1..n, k - 1 \in same PROVE k \in same
  <2>1. k \in 1..Len(q) /\ 1 \in 1..n /\ k \in 0..n
    BY <1>1
  <2>2. q[k] = p[k] /\ q[1] = p[1]
    BY <2>1
  <2>3. Escapes(p)[k] = (k > 1 /\ p[1] # "/" /\ p[k] = "\\" /\ ~Escapes(p)[k - 1])
    BY EscapesStep
  <2>4. Escapes(q)[k] = (k > 1 /\ q[1] # "/" /\ q[k] = "\\" /\ ~Escapes(q)[k - 1])
    BY <2>1, EscapesStep
  <2>5. k = 1 \/ Escapes(q)[k - 1] = Escapes(p)[k - 1]
    BY <1>3
  <2>6. CASE k = 1
    <3>1. ~(k > 1)
      BY <2>6
    <3>2. Escapes(q)[k] = Escapes(p)[k]
      BY <2>3, <2>4, <3>1
    <3>. QED
      BY <2>1, <3>2
  <2>7. CASE k # 1
    <3>1. Escapes(q)[k] = Escapes(p)[k]
      BY <2>2, <2>3, <2>4, <2>5, <2>7
    <3>. QED
      BY <2>1, <3>1
  <2>. QED
    BY <2>6, <2>7
<1> HIDE DEF same
<1>4. 0..n \subseteq same
  BY <1>1, <1>2, <1>3, UpTo
<1>5. ASSUME NEW k \in 1..n PROVE Escapes(q)[k] = Escapes(p)[k]
  <2>1. k \in 0..n /\ k # 0
    OBVIOUS
  <2>2. k \in same
    BY <1>4, <2>1
  <2>. QED
    BY <2>1, <2>2 DEF same
<1>. QED
  BY <1>5

\* The cells ahead of the scanner.
LEMMA AheadIs ==
    ASSUME source \in Seq(Cell), current \in Nat, current <= Len(source)
    PROVE  /\ Ahead \in Seq(Cell) /\ Len(Ahead) = Len(source) - current
           /\ \A k \in 1..Len(Ahead) : Ahead[k] = lex_peek(k)
<1> DEFINE n == Len(source) - current
           a == current + 1
<1>1. n \in Nat /\ a \in Int /\ a + n - 1 \in Int /\ a + n - 1 = Len(source) /\ Len(source) \in Nat
  OBVIOUS
<1>2. \A i \in a..(a + n - 1) : source[i] \in Cell
  BY <1>1
<1>3. Ahead = SubSeq(source, a, a + n - 1)
  BY DEF Ahead, Cells
<1> DEFINE s == SubSeq(source, a, a + n - 1)
<1>4. s \in Seq(Cell) /\ Len(s) = n /\ \A k \in 1..n : s[k] = source[a + k - 1]
  <2>1. \A x, y \in Int : y - x + 1 = (IF x <= y THEN y - x + 1 ELSE 0) \/ x > y
    OBVIOUS
  <2>2. Len(s) = IF a <= a + n - 1 THEN (a + n - 1) - a + 1 ELSE 0
    BY <1>1, <1>2, SubSeqProperties
  <2>3. s \in Seq(Cell) /\ \A k \in 1..((a + n - 1) - a + 1) : s[k] = source[a + k - 1]
    BY <1>1, <1>2, SubSeqProperties
  <2> HIDE DEF s
  <2>4. (a + n - 1) - a + 1 = n
    BY <1>1
  <2>. QED
    BY <1>1, <2>2, <2>3, <2>4
<1> HIDE DEF s
<1>5. ASSUME NEW k \in 1..n PROVE s[k] = lex_peek(k)
  <2>1. a + k - 1 = current + k /\ current + k <= Len(source)
    BY <1>1
  <2>. QED
    BY <1>4, <2>1 DEF lex_peek
<1>. QED
  BY <1>3, <1>4, <1>5 DEF s

\* Where a literal ends.
LEMMA LiteralIsFound ==
    ASSUME NEW c, NEW next, Before(c, next), c[1] # "newline",
           NEW m \in 1..Len(c), IsLiteral(SubSeq(c, 1, m))
    PROVE  m \in LiteralEnds /\ FirstOf(LiteralEnds) = m /\ ~Refused(m)
<1> DEFINE p == SubSeq(c, 1, m)
<1>1. /\ current \in Nat /\ Len(source) \in Nat /\ Len(c) \in Nat /\ current + Len(c) <= Len(source)
      /\ source \in Seq(Cell) /\ c \in Seq(Cell) /\ m \in Nat /\ 1 \in 1..Len(c)
      /\ \A j \in 1..Len(c) : lex_peek(j) = c[j]
  BY DEF Before
<1>2. p \in Seq(Cell) /\ Len(p) = m /\ \A k \in 1..m : p[k] = c[k]
  BY <1>1
<1>3. /\ m > 1 /\ p[m] = p[1] /\ ~Escapes(p)[m - 1]
      /\ \A k \in 2..(m - 1) : IF Escapes(p)[k - 1] THEN p[k] \in DOMAIN Escape
                               ELSE p[k] \notin {"newline", p[1]}
  <2> HIDE DEF p
  <2>1. IsLiteral(p)
    BY DEF p
  <2>. QED
    BY <1>2, <2>1 DEF IsLiteral
<1> HIDE DEF p
<1>4. Ahead \in Seq(Cell) /\ Len(Ahead) = Len(source) - current /\ \A k \in 1..Len(Ahead) : Ahead[k] = lex_peek(k)
  BY <1>1, AheadIs
<1>5. \A k \in 1..m : k \in 1..Len(c) /\ k \in Rest /\ lex_peek(k) = p[k] /\ Escapes(Ahead)[k] = Escapes(p)[k]
  <2>1. m <= Len(Ahead)
    BY <1>1, <1>4
  <2>2. \A k \in 1..m : k \in 1..Len(c) /\ k \in 1..Len(Ahead) /\ k \in Rest
    BY <1>1, <1>4, <2>1 DEF Rest
  <2>3. \A k \in 1..m : Ahead[k] = p[k]
    BY <1>1, <1>2, <1>4, <2>2
  <2>4. \A k \in 1..m : Escapes(Ahead)[k] = Escapes(p)[k]
    BY <1>2, <1>4, <2>1, <2>3, EscapesOfPrefix
  <2>. QED
    BY <1>1, <1>2, <2>2, <2>4
<1>6. p[1] = c[1] /\ lex_peek(1) = c[1]
  BY <1>1, <1>2, <1>3
<1>7. m \in 1..m /\ m - 1 \in 1..m
  BY <1>3
<1>8. ~Escapes(Ahead)[m - 1] /\ lex_peek(m) = c[1] /\ m \in Rest /\ m # 1
  BY <1>3, <1>5, <1>6, <1>7
<1>9. ~Refused(m)
  BY <1>8 DEF Refused
<1>10. m \in LiteralEnds
  BY <1>6, <1>8 DEF LiteralEnds
<1>11. ASSUME NEW j \in LiteralEnds PROVE j \in Nat /\ m <= j
  <2>1. j \in Rest /\ j # 1 /\ (Refused(j) \/ (~Escapes(Ahead)[j - 1] /\ lex_peek(j) = lex_peek(1)))
    BY DEF LiteralEnds
  <2>2. j \in Nat \ {0}
    BY <2>1 DEF Rest
  <2>3. ASSUME j < m PROVE FALSE
    <3>1. j \in 2..(m - 1) /\ j \in 1..m /\ j - 1 \in 1..m
      BY <1>7, <2>1, <2>2, <2>3
    <3>2. lex_peek(j) = p[j] /\ Escapes(Ahead)[j - 1] = Escapes(p)[j - 1]
      BY <1>5, <3>1
    <3>3. CASE Escapes(p)[j - 1]
      <4>1. p[j] \in DOMAIN Escape
        BY <1>3, <3>1, <3>3
      <4>. QED
        BY <2>1, <3>2, <3>3, <4>1 DEF Refused
    <3>4. CASE ~Escapes(p)[j - 1]
      <4>1. p[j] # "newline" /\ p[j] # p[1]
        BY <1>3, <3>1, <3>4
      <4>. QED
        BY <1>6, <2>1, <3>2, <3>4, <4>1 DEF Refused
    <3>. QED
      BY <3>3, <3>4
  <2>. QED
    BY <2>2, <2>3
<1>12. FirstOf(LiteralEnds) = m
  <2>1. LiteralEnds \in SUBSET Nat /\ \A j \in LiteralEnds : m <= j
    BY <1>11
  <2>. QED
    BY <1>10, <2>1, FirstIs
<1>. QED
  BY <1>9, <1>10, <1>12

\* A string.
LEMMA StringIsTaken ==
    ASSUME NEW c, NEW new, NEW next, Before(c, next), lex_scanToken, IsString(c, new)
    PROVE  Take(Len(c), new)
<1>1. Len(c) \in Nat \ {0} /\ lex_peek(1) = c[1] /\ c \in Seq(Cell) /\ Len(c) \in 1..Len(c)
  BY FirstCell DEF Before
<1>2. c[1] \in Quotes /\ IsLiteral(c) /\ new = <<Token("STRING", Content(c))>>
  BY DEF IsString
<1>3. SubSeq(c, 1, Len(c)) = c
  BY <1>1, SubSeqFull
<1>4. c[1] # "newline" /\ c[1] # "/"
  BY <1>2 DEF Quotes
<1>5. Len(c) \in LiteralEnds /\ FirstOf(LiteralEnds) = Len(c) /\ ~Refused(Len(c))
  BY <1>1, <1>2, <1>3, <1>4, LiteralIsFound
<1>6. Cells(1, Len(c)) = c
  BY AllCells
<1>7. lex_handleString
  BY <1>2, FirstCellDecides
<1>8. LiteralEnds # {} /\ lex_peek(1) # "/"
  BY <1>1, <1>4, <1>5
<1>9. lex_handleString => Take(Len(c), <<Token("STRING", Content(Cells(1, Len(c))))>>)
  BY <1>5, <1>8, Zenon DEF lex_handleString
<1>. QED
  BY <1>2, <1>6, <1>7, <1>9

\* A regex with its modifiers.
LEMMA RegexIsTaken ==
    ASSUME NEW c, NEW new, NEW next, Before(c, next), lex_scanToken,
           IsRegex(c, new, next, lex_last_token_type = "MATCHES")
    PROVE  Take(Len(c), new)
<1>1. /\ Len(c) \in Nat \ {0} /\ lex_peek(1) = c[1] /\ c \in Seq(Cell)
      /\ current \in Nat /\ Len(source) \in Nat /\ current + Len(c) <= Len(source)
      /\ \A j \in 1..Len(c) : lex_peek(j) = c[j]
  BY FirstCell DEF Before
<1>2. c[1] = "/" /\ lex_last_token_type = "MATCHES"
  BY DEF IsRegex
<1>3. PICK n \in 3..Len(c) :
          /\ IsLiteral(SubSeq(c, 1, n)) /\ c[2] # "*"
          /\ \A k \in (n + 1)..Len(c) : c[k] \in Modifiers
          /\ next \notin Modifiers \cup {""}
          /\ new = <<[type |-> "REGEX", value |-> Content(SubSeq(c, 1, n)),
                      flags |-> {c[k] : k \in (n + 1)..Len(c)}]>>
  BY DEF IsRegex
<1>4. n \in 1..Len(c) /\ n \in Nat /\ 2 \in 1..Len(c) /\ n + 1 \in 1..(Len(c) + 1) /\ 1 \in 1..Len(c)
      /\ 1 + n - 1 = n /\ n > 2
  BY <1>1
<1>5. n \in LiteralEnds /\ FirstOf(LiteralEnds) = n /\ ~Refused(n)
  BY <1>2, <1>3, <1>4, LiteralIsFound
<1>6. ~AtComment
  <2> DEFINE p == SubSeq(c, 1, n)
  <2>1. Len(p) = n /\ p[1] = c[1] /\ p[2] = c[2] /\ p \in Seq(Cell)
    BY <1>1, <1>4
  <2>2. IsLiteral(p)
    BY <1>3
  <2> HIDE DEF p
  <2>3. Escapes(p)[1] = (1 > 1 /\ p[1] # "/" /\ p[1] = "\\" /\ ~Escapes(p)[1 - 1])
    <3>1. 1 \in 1..Len(p)
      BY <1>4, <2>1
    <3>. QED
      BY <2>1, <3>1, EscapesStep
  <2>4. ~Escapes(p)[1]
    <3>1. ~(1 > 1)
      OBVIOUS
    <3>. QED
      BY <2>3, <3>1, Zenon
  <2>5. 2 \in 2..(Len(p) - 1) /\ 2 - 1 = 1
    BY <1>4, <2>1
  <2>6. \A k \in 2..(Len(p) - 1) : IF Escapes(p)[k - 1] THEN p[k] \in DOMAIN Escape
                                   ELSE p[k] \notin {"newline", p[1]}
    BY <2>2 DEF IsLiteral
  <2>7. p[2] \notin {"newline", p[1]}
    BY <2>4, <2>5, <2>6
  <2>8. lex_peek(2) = c[2] /\ c[2] # "/" /\ c[2] # "*"
    BY <1>1, <1>2, <1>3, <1>4, <2>1, <2>7
  <2>. QED
    BY <2>8 DEF AtComment
<1>7. lex_handleString
  BY <1>2, <1>6, FirstCellDecides DEF lex_handleComment, Division
<1>8. lex_handleString => RegexTakes(n)
  <2>1. lex_peek(1) = "/" /\ LiteralEnds # {}
    BY <1>1, <1>2, <1>5
  <2>. QED
    BY <1>5, <2>1, Zenon DEF lex_handleString
<1> DEFINE l == RunOf(n + 1, Modifiers)
<1>9. l = Len(c) - n
  <2>1. RunOf(n + 1, Modifiers) = Len(c) + 1 - (n + 1)
    BY <1>3, <1>4, RunIs
  <2>. QED
    BY <1>1, <1>4, <2>1
<1>10. Cells(1, n) = SubSeq(c, 1, n)
  <2>1. Cells(1, n) = SubSeq(c, 1, 1 + n - 1)
    BY <1>1, <1>4, CellsAre
  <2>. QED
    BY <1>4, <2>1
<1>11. n + l = Len(c) /\ current + n + l = current + Len(c) /\ ~(current + Len(c) >= Len(source))
  <2>1. next # ""
    BY <1>3
  <2>2. lex_peek(Len(c) + 1) # ""
    BY <2>1 DEF Before
  <2>3. current + (Len(c) + 1) <= Len(source)
    BY <2>2 DEF lex_peek
  <2>. QED
    BY <1>1, <1>4, <1>9, <2>3
<1>12. {lex_peek(n + j) : j \in 1..l} = {c[k] : k \in (n + 1)..Len(c)}
  <2>1. ASSUME NEW j \in 1..l PROVE n + j \in (n + 1)..Len(c) /\ lex_peek(n + j) = c[n + j]
    <3>1. n + j \in (n + 1)..Len(c) /\ n + j \in 1..Len(c)
      BY <1>1, <1>4, <1>9
    <3>. QED
      BY <1>1, <3>1
  <2>2. ASSUME NEW k \in (n + 1)..Len(c) PROVE k - n \in 1..l /\ n + (k - n) = k /\ lex_peek(k) = c[k]
    <3>1. k - n \in 1..l /\ n + (k - n) = k /\ k \in 1..Len(c)
      BY <1>1, <1>4, <1>9
    <3>. QED
      BY <1>1, <3>1
  <2> HIDE DEF l
  <2>3. \A x \in {lex_peek(n + j) : j \in 1..l} : x \in {c[k] : k \in (n + 1)..Len(c)}
    BY <2>1
  <2>4. \A x \in {c[k] : k \in (n + 1)..Len(c)} : x \in {lex_peek(n + j) : j \in 1..l}
    BY <2>2
  <2>. QED
    BY <2>3, <2>4
<1> DEFINE f == {lex_peek(n + j) : j \in 1..l}
<1>13. RegexTakes(n) => Take(n + l, IF current + n + l >= Len(source) THEN <<>>
                                    ELSE <<[type |-> "REGEX", value |-> Content(Cells(1, n)), flags |-> f]>>)
  BY Zenon DEF RegexTakes
<1> HIDE DEF l, f
<1>14. f = {c[k] : k \in (n + 1)..Len(c)}
  BY <1>12 DEF f
<1>15. Take(Len(c), <<[type |-> "REGEX", value |-> Content(Cells(1, n)), flags |-> f]>>)
  BY <1>7, <1>8, <1>11, <1>13
<1>. QED
  BY <1>3, <1>10, <1>14, <1>15

\* A lexeme is taken as what it is; it adds a token or none.
LEMMA LexemeIsTaken ==
    ASSUME NEW c, NEW new, NEW next, Before(c, next), lex_scanToken,
           IsLexeme(c, new, next, lex_last_token_type = "MATCHES")
    PROVE  Take(Len(c), new)
<1> DEFINE after == lex_last_token_type = "MATCHES"
<1>1. CASE IsSign(c, new, next)
  BY <1>1, SignIsTaken
<1>2. CASE IsDivision(c, new, next, after)
  BY <1>2, DivisionIsTaken
<1>3. CASE IsWord(c, new, next)
  BY <1>3, WordIsTaken
<1>4. CASE IsDecimal(c, new, next)
  BY <1>4, DecimalIsTaken
<1>5. CASE IsHexadecimal(c, new, next)
  BY <1>5, HexadecimalIsTaken
<1>6. CASE IsString(c, new)
  BY <1>6, StringIsTaken
<1>7. CASE IsRegex(c, new, next, after)
  BY <1>7, RegexIsTaken
<1>8. CASE IsComment(c, new)
  BY <1>8, CommentIsTaken
<1>9. CASE IsBlank(c, new)
  BY <1>9, BlankIsTaken
<1>. QED
  BY <1>1, <1>2, <1>3, <1>4, <1>5, <1>6, <1>7, <1>8, <1>9, Zenon DEF IsLexeme

\* A lexeme adds one token or none.
LEMMA TokenOrNone ==
    ASSUME NEW c, NEW new, NEW next, NEW after, IsLexeme(c, new, next, after)
    PROVE  new = <<>> \/ \E t : new = <<t>>
<1>1. IsSign(c, new, next) => \E t : new = <<t>>
  BY Zenon DEF IsSign
<1>2. IsDivision(c, new, next, after) => \E t : new = <<t>>
  BY Zenon DEF IsDivision
<1>3. IsWord(c, new, next) => \E t : new = <<t>>
  BY Zenon DEF IsWord
<1>4. IsDecimal(c, new, next) => \E t : new = <<t>>
  BY Zenon DEF IsDecimal
<1>5. IsHexadecimal(c, new, next) => \E t : new = <<t>>
  BY Zenon DEF IsHexadecimal
<1>6. IsString(c, new) => \E t : new = <<t>>
  BY Zenon DEF IsString
<1>7. IsRegex(c, new, next, after) => \E t : new = <<t>>
  BY Zenon DEF IsRegex
<1>8. IsComment(c, new) => new = <<>>
  BY Zenon DEF IsComment
<1>9. IsBlank(c, new) => new = <<>>
  BY Zenon DEF IsBlank
<1>. QED
  BY <1>1, <1>2, <1>3, <1>4, <1>5, <1>6, <1>7, <1>8, <1>9, Zenon DEF IsLexeme

\* The last token before the next lexeme: what this one adds, if it adds one.
LEMMA AfterMatchesStep ==
    ASSUME NEW lexemes, NEW i \in Nat \ {0}
    PROVE  /\ ~AfterMatches(lexemes, 1)
           /\ New(lexemes[i]) = <<>> => (AfterMatches(lexemes, i + 1) <=> AfterMatches(lexemes, i))
           /\ New(lexemes[i]) # <<>> =>
                  (AfterMatches(lexemes, i + 1) <=> New(lexemes[i])[1].type = "MATCHES")
<1> DEFINE Matches(j) == New(lexemes[j]) # <<>> /\ New(lexemes[j])[1].type = "MATCHES"
           Latest(j, m) == j \in 1..m /\ Matches(j) /\ \A k \in (j + 1)..m : New(lexemes[k]) = <<>>
<1>1. \A m \in Nat : AfterMatches(lexemes, m + 1) <=> \E j \in 1..m : Latest(j, m)
  <2>1. ASSUME NEW m \in Nat PROVE (m + 1) - 1 = m
    OBVIOUS
  <2>. QED
    BY <2>1 DEF AfterMatches
<1>2. ~AfterMatches(lexemes, 1)
  <2>1. 1..(1 - 1) = {}
    OBVIOUS
  <2>. QED
    BY <2>1, Zenon DEF AfterMatches
<1>3. i - 1 \in Nat /\ (i - 1) + 1 = i
  OBVIOUS
<1>4. AfterMatches(lexemes, i) <=> \E j \in 1..(i - 1) : Latest(j, i - 1)
  BY <1>1, <1>3
<1>5. AfterMatches(lexemes, i + 1) <=> \E j \in 1..i : Latest(j, i)
  BY <1>1
<1>6. ASSUME New(lexemes[i]) = <<>>, NEW j \in 1..(i - 1) PROVE Latest(j, i) <=> Latest(j, i - 1)
  <2>1. j \in 1..i /\ \A k \in (j + 1)..i : k = i \/ k \in (j + 1)..(i - 1)
    OBVIOUS
  <2>2. \A k \in (j + 1)..(i - 1) : k \in (j + 1)..i
    OBVIOUS
  <2>. QED
    BY <1>6, <2>1, <2>2
<1>7. ASSUME New(lexemes[i]) = <<>> PROVE ~Latest(i, i)
  BY <1>7
<1>8. \A j \in 1..i : j = i \/ j \in 1..(i - 1)
  OBVIOUS
<1>9. \A j \in 1..(i - 1) : j \in 1..i
  OBVIOUS
<1>10. ASSUME New(lexemes[i]) # <<>>, NEW j \in 1..(i - 1) PROVE ~Latest(j, i)
  <2>1. i \in (j + 1)..i
    OBVIOUS
  <2>. QED
    BY <1>10, <2>1
<1>11. ASSUME New(lexemes[i]) # <<>>
       PROVE  Latest(i, i) <=> New(lexemes[i])[1].type = "MATCHES"
  <2>1. i \in 1..i /\ (i + 1)..i = {}
    OBVIOUS
  <2>. QED
    BY <1>11, <2>1
<1>12. i \in 1..i
  OBVIOUS
<1> HIDE DEF Latest
<1>13. ASSUME New(lexemes[i]) = <<>> PROVE AfterMatches(lexemes, i + 1) <=> AfterMatches(lexemes, i)
  BY <1>4, <1>5, <1>6, <1>7, <1>8, <1>9, <1>13
<1>14. ASSUME New(lexemes[i]) # <<>>
       PROVE  AfterMatches(lexemes, i + 1) <=> New(lexemes[i])[1].type = "MATCHES"
  BY <1>5, <1>8, <1>10, <1>11, <1>12, <1>14
<1>. QED
  BY <1>2, <1>13, <1>14


-----------------------------------------------------------------------------
(* A whole file. *)

\* The tokens of lexeme number i, and EOF if it is the last one.
Part(lexemes, i) == Placed(New(lexemes[i]), lexemes, i)
PartsOf(lexemes) == [i \in DOMAIN lexemes |-> Part(lexemes, i)]
Ending(lexemes, i) == IF i = Len(lexemes) THEN Placed(<<Token("EOF", <<>>)>>, lexemes, i) ELSE <<>>

\* The first i lexemes have been taken, each as what it is.
Scanned(lexemes, i) ==
    /\ current = Len(Upto(lexemes, i))
    /\ line = 1 + NewlinesIn(Upto(lexemes, i))
    /\ tokens = FlattenSeq(SubSeq(PartsOf(lexemes), 1, i)) \o Ending(lexemes, i)
    /\ i < Len(lexemes) => (lex_last_token_type = "MATCHES" <=> AfterMatches(lexemes, i + 1))

\* The inductive invariant: the scanner stands between two lexemes.
BetweenLexemes ==
    /\ program \in Programs /\ source = TextOf(program.lexemes)
    /\ Lexical(program.lexemes) =>
           status = "SUCCESS" /\ \E i \in 0..Len(program.lexemes) : Scanned(program.lexemes, i)

\* What is placed are the tokens of the lexeme.
LEMMA PlacedIs ==
    ASSUME NEW lexemes, NEW i, NEW t
    PROVE  /\ Placed(<<>>, lexemes, i) = <<>>
           /\ Placed(<<t>>, lexemes, i) = <<[type |-> t.type, value |-> t.value, flags |-> t.flags,
                                             line |-> 1 + NewlinesIn(Upto(lexemes, i))]>>
<1> DEFINE l == 1 + NewlinesIn(Upto(lexemes, i))
           u == [type |-> t.type, value |-> t.value, flags |-> t.flags, line |-> l]
<1>1. \A new : Placed(new, lexemes, i) =
          [k \in DOMAIN new |-> [type |-> new[k].type, value |-> new[k].value,
                                 flags |-> new[k].flags, line |-> l]]
  BY DEF Placed, Upto
<1> HIDE DEF l
<1>2. Placed(<<>>, lexemes, i) = <<>>
  <2>1. DOMAIN <<>> = {}
    OBVIOUS
  <2>2. Placed(<<>>, lexemes, i) = [k \in {} |-> [type |-> <<>>[k].type, value |-> <<>>[k].value,
                                                  flags |-> <<>>[k].flags, line |-> l]]
    BY <1>1, <2>1, Zenon
  <2>. QED
    BY <2>2
<1>3. Placed(<<t>>, lexemes, i) = <<u>>
  <2>1. Placed(<<t>>, lexemes, i) = [k \in 1..1 |-> [type |-> <<t>>[k].type, value |-> <<t>>[k].value,
                                                  flags |-> <<t>>[k].flags, line |-> l]]
    BY <1>1
  <2>2. [k \in 1..1 |-> [type |-> <<t>>[k].type, value |-> <<t>>[k].value,
                         flags |-> <<t>>[k].flags, line |-> l]] = <<u>>
    OBVIOUS
  <2>. QED
    BY <2>1, <2>2
<1>. QED
  BY <1>2, <1>3 DEF l

\* One token is placed as one.
LEMMA PlacedOne ==
    ASSUME NEW lexemes, NEW i, NEW t
    PROVE  \E u : Placed(<<t>>, lexemes, i) = <<u>>
<1> DEFINE l == NewlinesIn(Upto(lexemes, i))
           v == [type |-> t.type, value |-> t.value, flags |-> t.flags, line |-> 1 + l]
<1>1. Placed(<<t>>, lexemes, i) = <<v>>
  BY PlacedIs
<1> HIDE DEF v
<1>. QED
  BY <1>1, Zenon

\* The parts of a file of lexemes are sequences of tokens.
LEMMA PartsType ==
    ASSUME NEW lexemes \in Seq(DOMAIN LexemeOf), Lexical(lexemes)
    PROVE  \E T : /\ PartsOf(lexemes) \in Seq(Seq(T)) /\ Len(PartsOf(lexemes)) = Len(lexemes)
                  /\ \A i \in 1..Len(lexemes) : PartsOf(lexemes)[i] = Part(lexemes, i)
                  /\ Placed(<<Token("EOF", <<>>)>>, lexemes, Len(lexemes)) \in Seq(T)
<1> DEFINE n == Len(lexemes)
           P(i) == Part(lexemes, i)
           E == Placed(<<Token("EOF", <<>>)>>, lexemes, n)
           T == {P(i)[1] : i \in 1..n} \cup {E[1]}
<1>1. n \in Nat /\ DOMAIN lexemes = 1..n
  OBVIOUS
<1>2. ASSUME NEW i \in 1..n PROVE P(i) = <<>> \/ \E t : P(i) = <<t>>
  <2>1. New(lexemes[i]) = <<>> \/ \E t : New(lexemes[i]) = <<t>>
    BY <1>1, TokenOrNone, Zenon DEF Lexical
  <2>2. CASE New(lexemes[i]) = <<>>
    BY <2>2, PlacedIs DEF Part
  <2>3. ASSUME NEW t, New(lexemes[i]) = <<t>> PROVE \E u : P(i) = <<u>>
    <3>1. \E u : Placed(<<t>>, lexemes, i) = <<u>>
      <4>1. \A l, j, v : \E u : Placed(<<v>>, l, j) = <<u>>
        BY PlacedOne
      <4>. QED
        BY <4>1
    <3>. QED
      BY <2>3, <3>1, Zenon DEF Part
  <2>. QED
    BY <2>1, <2>2, <2>3, Zenon
<1>3. \E t : E = <<t>>
  <2> DEFINE eof == Token("EOF", <<>>)
  <2>1. \E u : Placed(<<eof>>, lexemes, n) = <<u>>
    <3> HIDE DEF eof, n
    <3>. QED
      <4>1. \A l, j, v : \E u : Placed(<<v>>, l, j) = <<u>>
        BY PlacedOne
      <4>. QED
        BY <4>1
  <2>. QED
    BY <2>1
<1> HIDE DEF E
<1>4. E \in Seq(T)
  <2>1. PICK t : E = <<t>>
    BY <1>3
  <2>2. E[1] = t /\ t \in T
    BY <2>1
  <2> HIDE DEF T
  <2>. QED
    BY <2>1, <2>2
<1>5. ASSUME NEW i \in 1..n PROVE P(i) \in Seq(T)
  <2>1. P(i)[1] \in T
    OBVIOUS
  <2> HIDE DEF T, P
  <2>2. CASE P(i) = <<>>
    BY <2>2
  <2>3. ASSUME NEW t, P(i) = <<t>> PROVE P(i) \in Seq(T)
    <3>1. t \in T
      BY <2>1, <2>3
    <3>. QED
      BY <2>3, <3>1
  <2>. QED
    BY <1>2, <2>2, <2>3
<1> HIDE DEF T
<1>6. PartsOf(lexemes) = [i \in 1..n |-> P(i)]
  BY <1>1 DEF PartsOf
<1> HIDE DEF P
<1>7. PartsOf(lexemes) \in Seq(Seq(T)) /\ Len(PartsOf(lexemes)) = n /\ \A i \in 1..n : PartsOf(lexemes)[i] = P(i)
  BY <1>1, <1>5, <1>6
<1>. QED
  BY <1>4, <1>7 DEF P, E

\* Joining one or two.
LEMMA ShortSequences ==
    ASSUME NEW t, NEW u
    PROVE  /\ Append(<<t>>, u) = <<t, u>> /\ Append(<<>>, u) = <<u>>
           /\ <<t>> \o <<u>> = <<t, u>> /\ <<t>> \o <<>> = <<t>> /\ <<>> \o <<t>> = <<t>>
           /\ <<>> \o <<>> = <<>>
<1> DEFINE S == {t, u}
<1>1. t \in S /\ u \in S
  OBVIOUS
<1> HIDE DEF S
<1>2. <<t>> \in Seq(S) /\ <<u>> \in Seq(S) /\ <<>> \in Seq(S)
  BY <1>1
<1> DEFINE b == <<t, u>>
<1>0. b \in Seq(S) /\ Len(b) = 2 /\ b[1] = t /\ b[2] = u
  BY <1>1
<1> HIDE DEF b
<1>3. Append(<<t>>, u) = b
  <2> DEFINE a == Append(<<t>>, u)
  <2>1. a \in Seq(S) /\ Len(a) = 2 /\ a[1] = t /\ a[2] = u
    BY <1>1, <1>2, AppendProperties
  <2> HIDE DEF a
  <2>2. \A k \in 1..2 : a[k] = b[k]
    BY <1>0, <2>1
  <2>3. a = b
    BY <1>0, <2>1, <2>2, SeqEqual
  <2>. QED
    BY <2>3 DEF a
<1>4. Append(<<>>, u) = <<u>>
  BY <1>1, <1>2
<1>5. <<t>> \o <<u>> = b
  <2> DEFINE a == <<t>> \o <<u>>
  <2>1. a \in Seq(S) /\ Len(a) = 2 /\ a[1] = t /\ a[2] = u
    BY <1>1, <1>2, ConcatProperties
  <2> HIDE DEF a
  <2>2. \A k \in 1..2 : a[k] = b[k]
    BY <1>0, <2>1
  <2>3. a = b
    BY <1>0, <2>1, <2>2, SeqEqual
  <2>. QED
    BY <2>3 DEF a
<1>6. <<t>> \o <<>> = <<t>> /\ <<>> \o <<t>> = <<t>> /\ <<>> \o <<>> = <<>>
  BY <1>2, ConcatEmptySeq
<1>. QED
  BY <1>3, <1>4, <1>5, <1>6 DEF b

\* The line after a lexeme.
LEMMA LineIs ==
    ASSUME NEW c, NEW next, Before(c, next)
    PROVE  LineAfter(Len(c)) = line + NewlinesIn(c)
<1>1. \A k \in 1..Len(c) : lex_peek(k) = c[k]
  BY DEF Before
<1>2. {k \in 1..Len(c) : lex_peek(k) = "newline"} = {k \in 1..Len(c) : c[k] = "newline"}
  BY <1>1
<1>. QED
  BY <1>2 DEF LineAfter, Newlines, NewlinesIn

\* The tokens added for a lexeme are its own and, if it is the last one, EOF.
LEMMA AddedIs ==
    ASSUME NEW lexemes, NEW i, NEW n \in Nat,
           New(lexemes[i]) = <<>> \/ \E t : New(lexemes[i]) = <<t>>,
           LineAfter(n) = 1 + NewlinesIn(Upto(lexemes, i)),
           i = Len(lexemes) <=> current + n >= Len(source)
    PROVE  AddTokens(New(lexemes[i]), n) = Part(lexemes, i) \o Ending(lexemes, i)
<1> DEFINE new == New(lexemes[i])
           l == 1 + NewlinesIn(Upto(lexemes, i))
           eof == Token("EOF", <<>>)
           R(t) == [type |-> t.type, value |-> t.value, flags |-> t.flags, line |-> l]
           Added(all) == [k \in 1..Len(all) |-> [type |-> all[k].type, value |-> all[k].value,
                                                 flags |-> all[k].flags, line |-> l]]
<1>1. AddTokens(new, n) = Added(IF i = Len(lexemes) THEN Append(new, eof) ELSE new)
  <2>1. CASE current + n >= Len(source)
    <3>1. i = Len(lexemes)
      BY <2>1
    <3>. QED
      BY <2>1, <3>1, Zenon DEF AddTokens
  <2>2. CASE ~(current + n >= Len(source))
    <3>1. i # Len(lexemes)
      BY <2>2
    <3>. QED
      BY <2>2, <3>1, Zenon DEF AddTokens
  <2>. QED
    BY <2>1, <2>2
<1>2. /\ Part(lexemes, i) = Placed(new, lexemes, i)
      /\ \A t : Placed(<<t>>, lexemes, i) = <<R(t)>>
      /\ Placed(<<>>, lexemes, i) = <<>>
  <2>1. Part(lexemes, i) = Placed(new, lexemes, i)
    BY DEF Part
  <2>2. ASSUME NEW t PROVE Placed(<<t>>, lexemes, i) = <<R(t)>>
    BY PlacedIs
  <2>3. Placed(<<>>, lexemes, i) = <<>>
    BY PlacedIs
  <2> HIDE DEF new, R
  <2>. QED
    BY <2>1, <2>2, <2>3
<1>3. Ending(lexemes, i) = IF i = Len(lexemes) THEN <<R(eof)>> ELSE <<>>
  <2> HIDE DEF R
  <2>. QED
    BY <1>2, Zenon DEF Ending
<1> HIDE DEF l, eof
<1>4. /\ Added(<<>>) = <<>>
      /\ \A t : Added(<<t>>) = <<R(t)>>
      /\ \A t, u : Added(<<t, u>>) = <<R(t), R(u)>>
  <2>1. Added(<<>>) = <<>>
    OBVIOUS
  <2>2. \A t : Added(<<t>>) = <<R(t)>>
    OBVIOUS
  <2>3. \A t, u : Added(<<t, u>>) = <<R(t), R(u)>>
    OBVIOUS
  <2> HIDE DEF Added, R
  <2>. QED
    BY <2>1, <2>2, <2>3
<1> HIDE DEF Added, R
<1>5. \A t : Append(<<t>>, eof) = <<t, eof>> /\ Append(<<>>, eof) = <<eof>>
  BY ShortSequences
<1>6. \A t, u : /\ <<t>> \o <<u>> = <<t, u>> /\ <<t>> \o <<>> = <<t>> /\ <<>> \o <<t>> = <<t>>
                /\ <<>> \o <<>> = <<>>
  BY ShortSequences
<1>7. CASE new = <<>>
  <2>1. AddTokens(new, n) = Added(IF i = Len(lexemes) THEN <<eof>> ELSE <<>>)
    <3>1. Append(<<>>, eof) = <<eof>>
      BY <1>5
    <3> HIDE DEF new
    <3>. QED
      BY <1>1, <1>7, <3>1
  <2>2. CASE i = Len(lexemes)
    BY <1>2, <1>3, <1>4, <1>6, <1>7, <2>1, <2>2
  <2>3. CASE i # Len(lexemes)
    BY <1>2, <1>3, <1>4, <1>6, <1>7, <2>1, <2>3
  <2>. QED
    BY <2>2, <2>3
<1>8. ASSUME NEW t, new = <<t>> PROVE AddTokens(new, n) = Part(lexemes, i) \o Ending(lexemes, i)
  <2>1. CASE i = Len(lexemes)
    <3>1. AddTokens(new, n) = Added(<<t, eof>>)
      BY <1>1, <1>5, <1>8, <2>1
    <3>2. Part(lexemes, i) = <<R(t)>> /\ Ending(lexemes, i) = <<R(eof)>>
      BY <1>2, <1>3, <1>8, <2>1
    <3>. QED
      BY <1>4, <1>6, <3>1, <3>2
  <2>2. CASE i # Len(lexemes)
    <3>1. AddTokens(new, n) = Added(<<t>>)
      BY <1>1, <1>8, <2>2
    <3>2. Part(lexemes, i) = <<R(t)>> /\ Ending(lexemes, i) = <<>>
      BY <1>2, <1>3, <1>8, <2>2
    <3>. QED
      BY <1>4, <1>6, <3>1, <3>2
  <2>. QED
    BY <2>1, <2>2
<1>. QED
  BY <1>7, <1>8

\* Nothing is scanned at the end of the source, nor after an error.
LEMMA OnlyBeforeTheEnd ==
    ASSUME lex_scanToken
    PROVE  status = "SUCCESS" /\ ~lex_isEof
<1>1. \A S : At(S) => status = "SUCCESS" /\ ~lex_isEof
  BY DEF At
<1>. QED
  BY <1>1 DEF lex_scanToken, Punctuation, OneOrTwo, lex_handleComment, AtComment, Division,
              lex_handleString, lex_handleInteger, lex_handleIdentifier, Ignored

\* At the beginning no lexeme has been taken.
LEMMA NothingScanned ==
    ASSUME NEW lexemes \in Seq(DOMAIN LexemeOf), Lexical(lexemes), current = 0, line = 1, tokens = <<>>
    PROVE  Scanned(lexemes, 0)
<1>1. Len(lexemes) \in Nat \ {0}
  BY DEF Lexical
<1>2. PICK T : PartsOf(lexemes) \in Seq(Seq(T))
  BY PartsType
<1>3. FlattenSeq(SubSeq(PartsOf(lexemes), 1, 0)) = <<>>
  BY <1>2, FlattenType
<1>4. Ending(lexemes, 0) = <<>>
  BY <1>1 DEF Ending
<1>5. Upto(lexemes, 0) = <<>>
  BY TextGrows
<1>6. NewlinesIn(<<>>) = 0
  <2>1. 1..Len(<<>>) = {}
    OBVIOUS
  <2>2. {k \in 1..Len(<<>>) : <<>>[k] = "newline"} = {}
    BY <2>1
  <2>. QED
    BY <2>2, FS_EmptySet DEF NewlinesIn
<1>7. lex_last_token_type = "EOF" /\ ~AfterMatches(lexemes, 0 + 1)
  <2>1. lex_last_token_type = "EOF"
    BY DEF lex_last_token_type
  <2>2. ~AfterMatches(lexemes, 1)
    <3>1. 1 \in Nat \ {0}
      OBVIOUS
    <3>. QED
      BY <3>1, AfterMatchesStep
  <2>. QED
    BY <2>1, <2>2
<1>8. <<>> \o <<>> = <<>> /\ Len(<<>>) = 0 /\ 1 + 0 = 1
  BY ShortSequences
<1>. QED
  BY <1>3, <1>4, <1>5, <1>6, <1>7, <1>8, Zenon DEF Scanned

\* One step takes one more lexeme.
LEMMA OneMoreScanned ==
    ASSUME NEW lexemes \in Seq(DOMAIN LexemeOf), Lexical(lexemes), source = TextOf(lexemes),
           status = "SUCCESS", NEW i \in 0..Len(lexemes), Scanned(lexemes, i), lex_scanToken
    PROVE  /\ source' = source /\ status' = "SUCCESS"
           /\ \E j \in 0..Len(lexemes) : Scanned(lexemes, j)'
<1> DEFINE n == Len(lexemes)
           j == i + 1
           parts == PartsOf(lexemes)
<1>1. n \in Nat /\ DOMAIN lexemes = 1..n
  OBVIOUS
<1>2. i # n
  <2>1. SUFFICES ASSUME i = n PROVE lex_isEof
    BY OnlyBeforeTheEnd
  <2>2. current = Len(source)
    <3>1. Upto(lexemes, n) = TextOf(lexemes)
      BY TextGrows
    <3>. QED
      BY <2>1, <3>1 DEF Scanned
  <2>3. source \in Seq(Cell)
    <3>1. n \in 0..n
      BY <1>1
    <3>. QED
      BY <3>1, TextGrows
  <2>4. Len(source) \in Nat
    BY <2>3
  <2>. QED
    BY <2>2, <2>4 DEF lex_isEof
<1>3. j \in 1..n /\ j - 1 = i /\ j \in Nat \ {0} /\ i < n /\ j \in 0..n /\ i \in 0..n
  <2>1. \A m \in Nat : \A x \in 0..m :
            x # m => /\ x + 1 \in 1..m /\ (x + 1) - 1 = x /\ x + 1 \in Nat \ {0}
                     /\ x < m /\ x + 1 \in 0..m
    OBVIOUS
  <2>2. n \in Nat /\ i \in 0..n /\ i # n
    BY <1>1, <1>2
  <2> HIDE DEF n
  <2>. QED
    BY <2>1, <2>2
<1> HIDE DEF j
<1> DEFINE c == CellsOf(lexemes[j])
           new == New(lexemes[j])
           next == NextCell(lexemes, j)
<1>4. current = Len(Upto(lexemes, j - 1))
  BY <1>3 DEF Scanned
<1>5. /\ Before(c, next)
      /\ current + Len(c) = Len(Upto(lexemes, j))
      /\ j = Len(lexemes) <=> Len(Upto(lexemes, j)) >= Len(source)
  BY <1>3, <1>4, BeforeEach
<1>6. lex_last_token_type = "MATCHES" <=> AfterMatches(lexemes, j)
  BY <1>3 DEF Scanned, j
<1>7. IsLexeme(c, new, next, AfterMatches(lexemes, j))
  BY <1>1, <1>3, Zenon DEF Lexical
<1>8. (lex_last_token_type = "MATCHES") = AfterMatches(lexemes, j)
  <2>1. AfterMatches(lexemes, j) \in BOOLEAN
    BY Zenon DEF AfterMatches
  <2>2. (lex_last_token_type = "MATCHES") \in BOOLEAN
    OBVIOUS
  <2>. QED
    BY <1>6, <2>1, <2>2
<1>9. IsLexeme(c, new, next, lex_last_token_type = "MATCHES")
  BY <1>7, <1>8
<1> HIDE DEF c, new, next
<1>10. Take(Len(c), new)
  BY <1>5, <1>9, LexemeIsTaken
<1>11. new = <<>> \/ \E t : new = <<t>>
  BY <1>7, TokenOrNone, Zenon
<1>12. Len(c) \in Nat /\ c \in Seq(Cell)
  BY <1>5, FirstCell DEF Before
<1>13. LineAfter(Len(c)) = 1 + NewlinesIn(Upto(lexemes, j))
  <2>1. LineAfter(Len(c)) = line + NewlinesIn(c)
    BY <1>5, LineIs
  <2>2. line = 1 + NewlinesIn(Upto(lexemes, i))
    BY DEF Scanned
  <2>3. Upto(lexemes, j) = Upto(lexemes, i) \o c /\ Upto(lexemes, i) \in Seq(Cell)
    <3>1. Upto(lexemes, j) = Upto(lexemes, j - 1) \o CellsOf(lexemes[j])
      BY <1>3, TextGrows
    <3>2. Upto(lexemes, i) \in Seq(Cell)
      BY <1>3, TextGrows
    <3>. QED
      BY <1>3, <3>1, <3>2 DEF c
  <2>4. NewlinesIn(Upto(lexemes, j)) = NewlinesIn(Upto(lexemes, i)) + NewlinesIn(c)
    BY <1>12, <2>3, NewlinesJoined
  <2>5. NewlinesIn(Upto(lexemes, i)) \in Nat /\ NewlinesIn(c) \in Nat
    BY <1>12, <2>3, NewlinesType
  <2>. QED
    BY <2>1, <2>2, <2>4, <2>5
<1>14. AddTokens(new, Len(c)) = Part(lexemes, j) \o Ending(lexemes, j)
  <2>1. j = Len(lexemes) <=> current + Len(c) >= Len(source)
    BY <1>5
  <2>2. AddTokens(New(lexemes[j]), Len(c)) = Part(lexemes, j) \o Ending(lexemes, j)
    BY <1>11, <1>12, <1>13, <2>1, AddedIs DEF new
  <2>. QED
    BY <2>2 DEF new
<1>15. PICK T : /\ parts \in Seq(Seq(T)) /\ Len(parts) = n
                /\ \A k \in 1..n : parts[k] = Part(lexemes, k)
                /\ Placed(<<Token("EOF", <<>>)>>, lexemes, n) \in Seq(T)
  BY PartsType, Zenon
<1> HIDE DEF parts
<1> DEFINE before == FlattenSeq(SubSeq(parts, 1, i))
<1>16. before \in Seq(T) /\ Part(lexemes, j) \in Seq(T) /\ Ending(lexemes, j) \in Seq(T)
  <2>1. before \in Seq(T)
    BY <1>3, <1>15, FlattenType
  <2>2. Part(lexemes, j) \in Seq(T)
    BY <1>3, <1>15
  <2>3. Ending(lexemes, j) \in Seq(T)
    <3>1. <<>> \in Seq(T)
      OBVIOUS
    <3>2. CASE j = n
      BY <1>15, <3>2 DEF Ending
    <3>3. CASE j # n
      BY <3>1, <3>3 DEF Ending
    <3>. QED
      BY <3>2, <3>3
  <2>. QED
    BY <2>1, <2>2, <2>3
<1>17. tokens = before
  <2>1. tokens = FlattenSeq(SubSeq(PartsOf(lexemes), 1, i)) \o Ending(lexemes, i)
    BY DEF Scanned
  <2>2. Ending(lexemes, i) = <<>>
    BY <1>2 DEF Ending
  <2>3. before \o <<>> = before
    BY <1>16, ConcatEmptySeq
  <2>. QED
    BY <2>1, <2>2, <2>3 DEF parts
<1>18. FlattenSeq(SubSeq(parts, 1, j)) = before \o Part(lexemes, j)
  <2>1. j \in 1..Len(parts) /\ parts[j] = Part(lexemes, j)
    BY <1>3, <1>15
  <2>2. FlattenSeq(SubSeq(parts, 1, j)) = FlattenSeq(SubSeq(parts, 1, j - 1)) \o parts[j]
    BY <1>15, <2>1, FlattenStep
  <2>. QED
    BY <1>3, <2>1, <2>2
<1> HIDE DEF before
<1>19. tokens' = FlattenSeq(SubSeq(parts, 1, j)) \o Ending(lexemes, j)
  <2>1. tokens' = tokens \o AddTokens(new, Len(c))
    BY <1>10 DEF Take
  <2>2. \A x, y, z \in Seq(T) : x \o (y \o z) = (x \o y) \o z
    OBVIOUS
  <2>3. before \o (Part(lexemes, j) \o Ending(lexemes, j)) = (before \o Part(lexemes, j)) \o Ending(lexemes, j)
    BY <1>16, <2>2
  <2>. QED
    BY <1>14, <1>17, <1>18, <2>1, <2>3
<1>20. current' = Len(Upto(lexemes, j)) /\ line' = 1 + NewlinesIn(Upto(lexemes, j))
  BY <1>5, <1>10, <1>13 DEF Take
<1>21. ASSUME j < n PROVE lex_last_token_type' = "MATCHES" <=> AfterMatches(lexemes, j + 1)
  <2>1. tokens' = tokens \o Part(lexemes, j)
    <3>1. Ending(lexemes, j) = <<>>
      <4>1. j # Len(lexemes)
        <5>1. \A x, m \in Nat : x < m => x # m
          OBVIOUS
        <5>2. j < n /\ j \in Nat /\ n \in Nat
          BY <1>1, <1>3, <1>21
        <5> HIDE DEF n
        <5>3. j # n
          BY <5>1, <5>2
        <5>. QED
          BY <5>3 DEF n
      <4>. QED
        BY <4>1 DEF Ending
    <3>2. before \o Part(lexemes, j) \in Seq(T)
      BY <1>16, ConcatProperties
    <3>3. (before \o Part(lexemes, j)) \o <<>> = before \o Part(lexemes, j)
      BY <3>2, ConcatEmptySeq
    <3>. QED
      BY <1>17, <1>18, <1>19, <3>1, <3>3
  <2>2. tokens \in Seq(T)
    BY <1>16, <1>17
  <2>3. CASE new = <<>>
    <3>1. Part(lexemes, j) = <<>>
      BY <2>3, PlacedIs DEF Part, new
    <3>2. tokens' = tokens
      <4>1. tokens \o <<>> = tokens
        BY <2>2, ConcatEmptySeq
      <4>. QED
        BY <2>1, <3>1, <4>1
    <3>3. lex_last_token_type' = lex_last_token_type
      BY <3>2 DEF lex_last_token_type
    <3>4. AfterMatches(lexemes, j + 1) <=> AfterMatches(lexemes, j)
      BY <1>3, <2>3, AfterMatchesStep DEF new
    <3>. QED
      BY <1>6, <3>3, <3>4
  <2>4. ASSUME NEW t, new = <<t>>
        PROVE  lex_last_token_type' = "MATCHES" <=> AfterMatches(lexemes, j + 1)
    <3> DEFINE u == [type |-> t.type, value |-> t.value, flags |-> t.flags,
                     line |-> 1 + NewlinesIn(Upto(lexemes, j))]
    <3>1. Part(lexemes, j) = <<u>>
      BY <2>4, PlacedIs DEF Part, new
    <3>2. u.type = t.type
      OBVIOUS
    <3> HIDE DEF u
    <3>3. u \in T
      <4>1. <<u>> \in Seq(T) /\ 1 \in 1..Len(<<u>>) /\ <<u>>[1] = u
        BY <1>16, <3>1
      <4>. QED
        BY <4>1, ElementOfSeq
    <3>4. tokens' = Append(tokens, u)
      <4>1. \A x \in Seq(T) : x \o <<u>> = Append(x, u)
        BY <3>3, AppendIsConcat
      <4>. QED
        BY <2>1, <2>2, <3>1, <4>1
    <3>5. tokens' # <<>> /\ tokens'[Len(tokens')] = u
      <4>1. Len(tokens') = Len(tokens) + 1 /\ tokens'[Len(tokens) + 1] = u
        BY <2>2, <3>3, <3>4, AppendProperties
      <4>2. tokens' # <<>>
        BY <2>2, <3>3, <3>4, AppendProperties
      <4>. QED
        BY <4>1, <4>2
    <3>6. lex_last_token_type' = t.type
      BY <3>2, <3>5 DEF lex_last_token_type
    <3>7. new # <<>> /\ new[1].type = t.type
      BY <2>4
    <3>8. AfterMatches(lexemes, j + 1) <=> New(lexemes[j])[1].type = "MATCHES"
      BY <1>3, <3>7, AfterMatchesStep DEF new
    <3>. QED
      BY <3>6, <3>7, <3>8 DEF new
  <2>. QED
    BY <1>11, <2>3, <2>4
<1>22. Scanned(lexemes, j)'
  BY <1>19, <1>20, <1>21 DEF Scanned, parts
<1>23. source' = source /\ status' = "SUCCESS"
  BY <1>10 DEF Take
<1>. QED
  BY <1>3, <1>22, <1>23

\* The invariant holds at first.
LEMMA BetweenLexemesInit ==
    ASSUME ScanInit
    PROVE  BetweenLexemes
<1>1. program \in Programs /\ source = TextOf(program.lexemes) /\ status = "SUCCESS"
      /\ current = 0 /\ line = 1 /\ tokens = <<>>
  BY DEF ScanInit, LexInit
<1>2. program.lexemes \in Seq(DOMAIN LexemeOf)
  BY <1>1, GrammarAssumption
<1>3. PICK lexemes : lexemes = program.lexemes
  OBVIOUS
<1>4. ASSUME Lexical(lexemes) PROVE \E i \in 0..Len(lexemes) : Scanned(lexemes, i)
  <2>1. lexemes \in Seq(DOMAIN LexemeOf)
    BY <1>2, <1>3
  <2>2. Scanned(lexemes, 0)
    BY <1>1, <1>4, <2>1, NothingScanned
  <2>3. 0 \in 0..Len(lexemes)
    BY <2>1
  <2>. QED
    BY <2>2, <2>3
<1>. QED
  BY <1>1, <1>3, <1>4 DEF BetweenLexemes

\* Every step of the scanner, and what leaves it alone, preserves it.
LEMMA BetweenLexemesStep ==
    ASSUME BetweenLexemes, [ScanNext]_scanner
    PROVE  BetweenLexemes'
<1>1. PICK lexemes : lexemes = program.lexemes
  OBVIOUS
<1>2. program \in Programs /\ source = TextOf(lexemes) /\ lexemes \in Seq(DOMAIN LexemeOf)
  BY <1>1, GrammarAssumption DEF BetweenLexemes
<1>3. program' = program
  BY DEF ScanNext, scanner
<1>4. program'.lexemes = lexemes
  BY <1>1, <1>3
<1>5. Lexical(lexemes) =>
          status = "SUCCESS" /\ \E i \in 0..Len(lexemes) : Scanned(lexemes, i)
  BY <1>1 DEF BetweenLexemes
<1>6. source' = source
  BY DEF ScanNext, scanner, lexer, lex_scanToken, Punctuation, OneOrTwo, lex_handleComment, Division,
         lex_handleString, RegexTakes, lex_handleInteger, lex_handleIdentifier, Ignored, Take, Panic
<1>7. ASSUME Lexical(lexemes)
      PROVE  status' = "SUCCESS" /\ \E j \in 0..Len(lexemes) : Scanned(lexemes, j)'
  <2>1. PICK i \in 0..Len(lexemes) : Scanned(lexemes, i)
    BY <1>5, <1>7
  <2>2. status = "SUCCESS"
    BY <1>5, <1>7
  <2>3. CASE ScanNext
    <3>1. lex_scanToken
      BY <2>3 DEF ScanNext
    <3>. QED
      BY <1>2, <1>7, <2>1, <2>2, <3>1, OneMoreScanned
  <2>4. CASE UNCHANGED scanner
    <3>1. Scanned(lexemes, i)'
      BY <2>1, <2>4 DEF scanner, lexer, Scanned, lex_last_token_type
    <3>2. status' = "SUCCESS"
      BY <2>2, <2>4 DEF scanner, lexer
    <3>. QED
      BY <3>1, <3>2
  <2>. QED
    BY <2>3, <2>4
<1>8. program' \in Programs /\ source' = TextOf(lexemes)
  BY <1>2, <1>3, <1>6
<1>9. BetweenLexemes' <=>
          /\ program' \in Programs /\ source' = TextOf(program'.lexemes)
          /\ Lexical(program'.lexemes) =>
                 status' = "SUCCESS" /\ \E j \in 0..Len(program'.lexemes) :
                     /\ current' = Len(Upto(program'.lexemes, j))
                     /\ line' = 1 + NewlinesIn(Upto(program'.lexemes, j))
                     /\ tokens' = FlattenSeq(SubSeq(PartsOf(program'.lexemes), 1, j))
                                      \o Ending(program'.lexemes, j)
                     /\ j < Len(program'.lexemes) =>
                            (lex_last_token_type' = "MATCHES" <=> AfterMatches(program'.lexemes, j + 1))
  BY DEF BetweenLexemes, Scanned
<1>10. \A j \in 0..Len(lexemes) : Scanned(lexemes, j)' <=>
          /\ current' = Len(Upto(lexemes, j))
          /\ line' = 1 + NewlinesIn(Upto(lexemes, j))
          /\ tokens' = FlattenSeq(SubSeq(PartsOf(lexemes), 1, j)) \o Ending(lexemes, j)
          /\ j < Len(lexemes) => (lex_last_token_type' = "MATCHES" <=> AfterMatches(lexemes, j + 1))
  BY DEF Scanned
<1>. QED
  BY <1>4, <1>7, <1>8, <1>9, <1>10

\* At the end of a file of lexemes all of them have been taken.
LEMMA BetweenLexemesSuffices ==
    ASSUME BetweenLexemes
    PROVE  LexemesComeBack
<1> SUFFICES ASSUME status # "SUCCESS" \/ lex_isEof, Lexical(program.lexemes)
             PROVE  status = "SUCCESS" /\ tokens = Written(program.lexemes)
  BY DEF LexemesComeBack
<1>1. PICK lexemes : lexemes = program.lexemes
  OBVIOUS
<1> DEFINE n == Len(lexemes)
<1>2. /\ lexemes \in Seq(DOMAIN LexemeOf) /\ Lexical(lexemes) /\ source = TextOf(lexemes)
      /\ status = "SUCCESS" /\ lex_isEof
  BY <1>1, GrammarAssumption DEF BetweenLexemes
<1>3. PICK i \in 0..n : Scanned(lexemes, i)
  BY <1>1 DEF BetweenLexemes
<1>4. n \in Nat
  BY <1>2
<1>5. i = n
  <2>1. SUFFICES ASSUME i # n PROVE FALSE
    OBVIOUS
  <2>2. i + 1 \in 1..n /\ (i + 1) - 1 = i
    BY <1>4, <2>1
  <2> DEFINE c == CellsOf(lexemes[i + 1])
             next == NextCell(lexemes, i + 1)
  <2>3. current = Len(Upto(lexemes, (i + 1) - 1))
    BY <1>3, <2>2 DEF Scanned
  <2>4. Before(c, next)
    BY <1>2, <2>2, <2>3, BeforeEach
  <2> HIDE DEF c, next
  <2>5. ~lex_isEof
    BY <2>4, FirstCell
  <2>. QED
    BY <1>2, <2>5
<1>6. PICK T : PartsOf(lexemes) \in Seq(Seq(T)) /\ Len(PartsOf(lexemes)) = n
  BY <1>2, PartsType
<1>7. SubSeq(PartsOf(lexemes), 1, n) = PartsOf(lexemes)
  BY <1>6, FlattenType
<1>8. tokens = FlattenSeq(PartsOf(lexemes)) \o Ending(lexemes, n)
  BY <1>3, <1>5, <1>7 DEF Scanned
<1>9. Ending(lexemes, n) = Placed(<<Token("EOF", <<>>)>>, lexemes, n)
  BY DEF Ending
<1>10. PartsOf(lexemes) = [k \in DOMAIN lexemes |-> Placed(New(lexemes[k]), lexemes, k)]
  BY DEF PartsOf, Part
<1>11. tokens = Written(lexemes)
  BY <1>8, <1>9, <1>10 DEF Written
<1>. QED
  BY <1>1, <1>2, <1>11

\* The scanner gives back the tokens of every file of lexemes, for every table of
\* lexemes that is one of the rule language and whatever is done with the tokens.
THEOREM LexemesCorrect == ScanSpec => []LexemesComeBack
<1>1. ScanInit => BetweenLexemes
  BY BetweenLexemesInit
<1>2. BetweenLexemes /\ [ScanNext]_scanner => BetweenLexemes'
  BY BetweenLexemesStep
<1>3. BetweenLexemes => LexemesComeBack
  BY BetweenLexemesSuffices
<1>. QED
  BY <1>1, <1>2, <1>3, PTL DEF ScanSpec


-----------------------------------------------------------------------------
(* Any text. *)

\* The tables know no EOF.
LEMMA NoSignIsEnd ==
    /\ \A a \in DOMAIN Single : Single[a] # "EOF"
    /\ \A a \in DOMAIN Short : Short[a] # "EOF"
    /\ \A a \in DOMAIN Long : Long[a] # "EOF"
<1>1. \A a \in DOMAIN Single : Single[a] # "EOF"
  BY ZenonT(60) DEF Single
<1>2. \A a \in DOMAIN Short : Short[a] # "EOF"
  BY ZenonT(60) DEF Short
<1>3. ASSUME NEW a \in DOMAIN Long PROVE Long[a] # "EOF"
  <2>1. Long[a] = CASE a[2] = "." -> "DOT_DOT"
                    [] a = <<"!", "=">> -> "BANG_EQUAL"    [] a = <<"=", "=">> -> "EQUAL_EQUAL"
                    [] a = <<">", "=">> -> "GREATER_EQUAL" [] a = <<">", ">">> -> "SHR"
                    [] a = <<"<", "=">> -> "LESS_EQUAL"    [] a = <<"<", "<">> -> "SHL"
    BY Zenon DEF Long
  <2>2. \/ a[2] = "." \/ a = <<"!", "=">> \/ a = <<"=", "=">> \/ a = <<">", "=">>
        \/ a = <<">", ">">> \/ a = <<"<", "=">> \/ a = <<"<", "<">>
    <3>1. a \in {<<"\\", ".">>, <<".", ".">>, <<"!", "=">>, <<"=", "=">>, <<">", "=">>, <<">", ">">>,
                 <<"<", "=">>, <<"<", "<">>}
      BY Tables
    <3>. QED
      BY <3>1
  <2>. QED
    BY <2>1, <2>2, ZenonT(60)
<1>. QED
  BY <1>1, <1>2, <1>3

\* What can be seen is there.
LEMMA PeekBound ==
    ASSUME NEW k \in Nat, source \in Seq(Cell), current \in Nat
    PROVE  lex_peek(k) = "" \/ k <= Len(source) - current
<1>1. CASE current + k <= Len(source)
  <2>1. Len(source) \in Nat
    OBVIOUS
  <2>2. \A a, b, d \in Nat : a + b <= d => b <= d - a
    OBVIOUS
  <2>3. k <= Len(source) - current
    BY <1>1, <2>1, <2>2
  <2>. QED
    BY <2>3
<1>2. CASE ~(current + k <= Len(source))
  BY <1>2, Zenon DEF lex_peek
<1>. QED
  BY <1>1, <1>2

\* The cells counted as newlines are there.
LEMMA NewlinesBound ==
    ASSUME source \in Seq(Cell), current \in Nat, current <= Len(source), NEW n \in Nat
    PROVE  /\ Cardinality(Newlines(n)) \in Nat /\ Cardinality(Newlines(n)) <= n
           /\ Cardinality(Newlines(n)) <= Len(source) - current
<1> DEFINE rest == Len(source) - current
<1>1. rest \in Nat
  OBVIOUS
<1>2. Newlines(n) \subseteq 1..n /\ Newlines(n) \subseteq 1..rest
  <2>1. ASSUME NEW k \in Newlines(n) PROVE k \in 1..n /\ k \in 1..rest
    <3>1. lex_peek(k) # ""
      BY DEF Newlines
    <3>2. k \in Nat /\ k >= 1 /\ k \in 1..n
      BY DEF Newlines
    <3>3. k <= Len(source) - current
      BY <3>1, <3>2, PeekBound
    <3>. QED
      BY <1>1, <3>2, <3>3
  <2>. QED
    BY <2>1
<1> HIDE DEF rest
<1>3. \A m \in Nat : IsFiniteSet(1..m) /\ Cardinality(1..m) = m
  <2>1. ASSUME NEW m \in Nat PROVE IsFiniteSet(1..m) /\ Cardinality(1..m) = m
    <3>1. 1 \in Int /\ m \in Int /\ (IF 1 > m THEN 0 ELSE m - 1 + 1) = m
      OBVIOUS
    <3>. QED
      BY <3>1, FS_Interval
  <2>. QED
    BY <2>1
<1>4. IsFiniteSet(Newlines(n)) /\ Cardinality(Newlines(n)) <= Cardinality(1..n)
  BY <1>2, <1>3, FS_Subset
<1>5. Cardinality(Newlines(n)) <= Cardinality(1..rest)
  BY <1>1, <1>2, <1>3, FS_Subset
<1>6. Cardinality(Newlines(n)) \in Nat
  BY <1>4, FS_CardinalityType
<1>. QED
  BY <1>1, <1>3, <1>4, <1>5, <1>6 DEF rest

\* The first of a set of cells ahead is one of them.
LEMMA FirstOfIsIn ==
    ASSUME NEW S \in SUBSET Nat, S # {}
    PROVE  FirstOf(S) \in S /\ \A j \in S : FirstOf(S) <= j
<1>1. \E k \in S : \A j \in S : k <= j
  BY LeastNumber
<1>. QED
  BY <1>1, Zenon DEF FirstOf

\* A run of cells ends before the source does.
LEMMA RunBound ==
    ASSUME source \in Seq(Cell), current \in Nat, current <= Len(source), NEW S,
           NEW k \in 1..(Len(source) - current + 1)
    PROVE  RunOf(k, S) \in Nat /\ k - 1 + RunOf(k, S) <= Len(source) - current
<1> DEFINE others == {j \in Rest : j >= k /\ lex_peek(j) \notin S}
<1>1. Len(source) \in Nat
  OBVIOUS
<1>2. others \in SUBSET Nat /\ \A j \in others : j >= k /\ j \in 1..(Len(source) - current)
  BY DEF Rest
<1>3. CASE others = {}
  <2>1. RunOf(k, S) = (Len(source) - current + 1) - k
    BY <1>3, Zenon DEF RunOf
  <2>. QED
    BY <1>1, <2>1
<1>4. CASE others # {}
  <2>1. RunOf(k, S) = FirstOf(others) - k
    BY <1>4, Zenon DEF RunOf
  <2>2. FirstOf(others) \in others
    <3> HIDE DEF others
    <3>. QED
      BY <1>2, <1>4, FirstOfIsIn
  <2>3. FirstOf(others) >= k /\ FirstOf(others) \in 1..(Len(source) - current)
    <3> HIDE DEF others
    <3>. QED
      BY <1>2, <2>2
  <2>. QED
    BY <1>1, <2>1, <2>3
<1>. QED
  BY <1>3, <1>4

\* Nothing to add, or a token that is not EOF.
Addable(new) == new = <<>> \/ \E t : new = <<t>> /\ t.type # "EOF"

\* A step takes cells that are there and adds at most one token, or ends in an
\* error at most one cell behind the source.
StepShape ==
    \/ \E n \in Nat : \E new : n <= Len(source) - current /\ Addable(new) /\ Take(n, new)
    \/ \E n \in Nat : n <= Len(source) - current + 1 /\ (Panic(n, "UNSUCCESSFUL") \/ Panic(n, "CRASHED"))

\* A token of another type is addable.
LEMMA TokenIsAddable ==
    ASSUME NEW type, NEW value, type # "EOF"
    PROVE  Addable(<<Token(type, value)>>)
<1> DEFINE t == Token(type, value)
<1>1. t.type # "EOF"
  BY DEF Token
<1> HIDE DEF t
<1>2. Addable(<<t>>)
  BY <1>1, Zenon DEF Addable
<1>. QED
  BY <1>2 DEF t

\* A step that takes n cells.
LEMMA TakesShape ==
    ASSUME NEW n \in Nat, NEW new, n <= Len(source) - current, Addable(new), Take(n, new)
    PROVE  StepShape
  BY Zenon DEF StepShape

\* A literal, as far as it goes.
LEMMA LiteralShape ==
    ASSUME source \in Seq(Cell), current \in Nat, current < Len(source), lex_handleString
    PROVE  StepShape
<1> DEFINE rest == Len(source) - current
           k == FirstOf(LiteralEnds)
<1>1. rest \in Nat /\ rest >= 1 /\ rest <= rest /\ rest + 1 \in Nat /\ rest + 1 <= rest + 1
  <2>1. Len(source) \in Nat
    OBVIOUS
  <2>. QED
    BY <2>1
<1>2. Addable(<<>>)
  BY Zenon DEF Addable
<1>3. /\ LiteralEnds = {} => Panic(rest + 1, "UNSUCCESSFUL") \/ Take(rest, <<>>)
      /\ LiteralEnds # {} => \/ Panic(k, "UNSUCCESSFUL") \/ RegexTakes(k)
                             \/ Take(k, <<Token("STRING", Content(Cells(1, k)))>>)
  BY Zenon DEF lex_handleString
<1>4. LiteralEnds # {} => k \in Nat /\ k \in 1..rest
  <2>1. LiteralEnds \in SUBSET Nat /\ LiteralEnds \subseteq 1..rest
    BY DEF LiteralEnds, Rest
  <2> HIDE DEF rest
  <2>2. LiteralEnds # {} => k \in LiteralEnds
    BY <2>1, FirstOfIsIn
  <2> HIDE DEF k
  <2>. QED
    BY <2>1, <2>2
<1> HIDE DEF k
<1>5. CASE LiteralEnds = {}
  <2>1. Panic(rest + 1, "UNSUCCESSFUL") => StepShape
    BY <1>1, Zenon DEF StepShape
  <2>2. Take(rest, <<>>) => StepShape
    BY <1>1, <1>2, TakesShape
  <2>. QED
    BY <1>3, <1>5, <2>1, <2>2
<1>6. CASE LiteralEnds # {}
  <2>1. k \in Nat /\ k <= rest /\ k <= rest + 1 /\ k + 1 \in 1..(rest + 1)
    BY <1>1, <1>4, <1>6
  <2>2. Panic(k, "UNSUCCESSFUL") => StepShape
    BY <2>1, Zenon DEF StepShape
  <2>3. Take(k, <<Token("STRING", Content(Cells(1, k)))>>) => StepShape
    <3>1. Addable(<<Token("STRING", Content(Cells(1, k)))>>)
      BY TokenIsAddable
    <3>. QED
      BY <2>1, <3>1, TakesShape
  <2>4. ASSUME RegexTakes(k) PROVE StepShape
    <3> DEFINE n == RunOf(k + 1, Modifiers)
               t == [type |-> "REGEX", value |-> Content(Cells(1, k)), flags |-> {lex_peek(k + j) : j \in 1..n}]
    <3>1. n \in Nat /\ (k + 1) - 1 + n <= rest
      <4>1. current <= Len(source)
        BY <1>1
      <4>. QED
        BY <2>1, <4>1, RunBound
    <3>2. Take(k + n, <<>>) \/ Take(k + n, <<t>>)
      BY <2>4, Zenon DEF RegexTakes
    <3>3. t.type # "EOF"
      OBVIOUS
    <3> HIDE DEF t, n
    <3>4. Addable(<<t>>)
      BY <3>3, Zenon DEF Addable
    <3>5. k + n \in Nat /\ k + n <= rest
      BY <1>1, <2>1, <3>1
    <3>. QED
      BY <1>2, <3>2, <3>4, <3>5, TakesShape
  <2>. QED
    BY <1>3, <1>6, <2>2, <2>3, <2>4
<1>. QED
  BY <1>5, <1>6

\* Every step has this shape.
LEMMA EveryStepShape ==
    ASSUME source \in Seq(Cell), current \in Nat, current < Len(source), lex_scanToken
    PROVE  StepShape
<1> DEFINE rest == Len(source) - current
<1>1. rest \in Nat /\ rest >= 1 /\ 1 <= rest /\ 1 \in Nat /\ 2 \in Nat /\ current <= Len(source)
  <2>1. Len(source) \in Nat
    OBVIOUS
  <2>. QED
    BY <2>1
<1>2. Addable(<<>>)
  BY Zenon DEF Addable
<1>3. CASE Punctuation
  <2>1. lex_peek(1) \in DOMAIN Single
    BY <1>3 DEF Punctuation, At
  <2>2. Addable(<<Token(Single[lex_peek(1)], <<>>)>>)
    BY <2>1, NoSignIsEnd, TokenIsAddable
  <2>3. Take(1, <<Token(Single[lex_peek(1)], <<>>)>>)
    BY <1>3 DEF Punctuation
  <2>. QED
    BY <1>1, <2>2, <2>3, TakesShape
<1>4. CASE OneOrTwo
  <2> DEFINE two == <<lex_peek(1), lex_peek(2)>>
  <2>1. lex_peek(1) \in DOMAIN Short
    BY <1>4 DEF OneOrTwo, At
  <2>2. IF two \in DOMAIN Long THEN Take(2, <<Token(Long[two], <<>>)>>)
                               ELSE Take(1, <<Token(Short[lex_peek(1)], <<>>)>>)
    BY <1>4, Zenon DEF OneOrTwo
  <2>3. CASE two \in DOMAIN Long
    <3>1. lex_peek(2) # ""
      BY <2>3, Tables
    <3>2. 2 <= rest
      BY <1>1, <3>1, PeekBound
    <3>3. Addable(<<Token(Long[two], <<>>)>>)
      BY <2>3, NoSignIsEnd, TokenIsAddable
    <3> HIDE DEF two
    <3>. QED
      BY <1>1, <2>2, <2>3, <3>2, <3>3, TakesShape
  <2>4. CASE two \notin DOMAIN Long
    <3>1. Addable(<<Token(Short[lex_peek(1)], <<>>)>>)
      BY <2>1, NoSignIsEnd, TokenIsAddable
    <3> HIDE DEF two
    <3>. QED
      BY <1>1, <2>2, <2>4, <3>1, TakesShape
  <2>. QED
    BY <2>3, <2>4
<1>5. CASE lex_handleComment
  <2>1. CASE CommentEnds = {}
    <3>1. Panic(rest, "UNSUCCESSFUL")
      BY <1>5, <2>1, Zenon DEF lex_handleComment
    <3>2. rest <= rest + 1
      BY <1>1
    <3>. QED
      BY <1>1, <3>1, <3>2, Zenon DEF StepShape
  <2>2. CASE CommentEnds # {}
    <3>1. CommentEnds \in SUBSET Nat /\ CommentEnds \subseteq 1..rest
      BY DEF CommentEnds, Rest
    <3>2. FirstOf(CommentEnds) \in CommentEnds
      BY <2>2, <3>1, FirstOfIsIn
    <3>3. FirstOf(CommentEnds) \in Nat /\ FirstOf(CommentEnds) <= rest
      <4>1. FirstOf(CommentEnds) \in 1..rest
        BY <3>1, <3>2, Zenon
      <4> HIDE DEF rest
      <4>2. \A x \in 1..rest : x \in Nat /\ x <= rest
        BY <1>1
      <4>. QED
        BY <4>1, <4>2, Zenon
    <3>4. Take(FirstOf(CommentEnds), <<>>)
      BY <1>5, <2>2, Zenon DEF lex_handleComment
    <3>. QED
      BY <1>2, <3>3, <3>4, TakesShape
  <2>. QED
    BY <2>1, <2>2
<1>6. CASE Division
  <2>1. Addable(<<Token("DIV", <<>>)>>)
    BY TokenIsAddable
  <2>2. Take(1, <<Token("DIV", <<>>)>>)
    BY <1>6 DEF Division
  <2>. QED
    BY <1>1, <2>1, <2>2, TakesShape
<1>7. CASE lex_handleString
  BY <1>7, LiteralShape
<1>8. CASE lex_handleInteger
  <2> DEFINE hex == lex_peek(1) = "0" /\ lex_peek(2) = "x"
             first == IF hex THEN 3 ELSE 1
             n == RunOf(first, Digits \cup UpperHex \cup (IF hex THEN LowerHex ELSE {}))
             base == IF hex THEN 16 ELSE 10
             num == Numeral(base, Cells(first, n))
             token == Token("NUMBER", num)
  <2>1. IF n = 0 THEN Panic(2, "CRASHED")
        ELSE IF num = LongMax THEN Panic(first - 1 + n, "UNSUCCESSFUL")
        ELSE Take(first - 1 + n, <<token>>)
    BY <1>8, Zenon DEF lex_handleInteger
  <2>2. first \in 1..(rest + 1) /\ first - 1 \in Nat
    <3>1. CASE hex
      <4>1. lex_peek(2) # ""
        BY <3>1
      <4>2. 2 <= rest
        BY <1>1, <4>1, PeekBound
      <4>3. first = 3
        BY <3>1
      <4> HIDE DEF first
      <4>. QED
        BY <1>1, <4>2, <4>3
    <3>2. CASE ~hex
      <4>1. first = 1
        BY <3>2
      <4> HIDE DEF first
      <4>. QED
        BY <1>1, <4>1
    <3>. QED
      BY <3>1, <3>2
  <2> HIDE DEF first, hex, num, token
  <2>3. n \in Nat /\ first - 1 + n <= rest
    BY <1>1, <2>2, RunBound
  <2> HIDE DEF n
  <2>4. Addable(<<token>>)
    BY TokenIsAddable DEF token
  <2>5. 2 <= rest + 1 /\ first - 1 + n \in Nat /\ first - 1 + n <= rest + 1
    BY <1>1, <2>2, <2>3
  <2>6. CASE n = 0
    BY <1>1, <2>1, <2>5, <2>6, Zenon DEF StepShape
  <2>7. CASE n # 0 /\ num = LongMax
    BY <1>1, <2>1, <2>5, <2>7, Zenon DEF StepShape
  <2>8. CASE n # 0 /\ num # LongMax
    BY <2>1, <2>3, <2>4, <2>5, <2>8, TakesShape
  <2>. QED
    BY <2>6, <2>7, <2>8
<1>9. CASE lex_handleIdentifier
  <2> DEFINE n == RunOf(1, Words \cup Digits)
             id == Cells(1, n)
             keyword == n = 1 /\ id[1] \in DOMAIN Keywords
             token == IF keyword THEN Token(Keywords[id[1]], <<>>) ELSE Token("IDENTIFIER", id)
  <2>1. Take(n, <<token>>)
    BY <1>9, Zenon DEF lex_handleIdentifier
  <2>2. n \in Nat /\ n <= rest
    <3>1. 1 \in 1..(rest + 1)
      BY <1>1
    <3>2. n \in Nat /\ 1 - 1 + n <= rest
      BY <1>1, <3>1, RunBound
    <3> HIDE DEF n
    <3>. QED
      BY <1>1, <3>2
  <2> HIDE DEF n, id
  <2>3. Addable(<<token>>)
    <3>1. CASE keyword
      <4>1. Keywords[id[1]] # "EOF"
        BY <3>1, LexerAssumption
      <4>. QED
        BY <3>1, <4>1, TokenIsAddable
    <3>2. CASE ~keyword
      BY <3>2, TokenIsAddable
    <3>. QED
      BY <3>1, <3>2
  <2> HIDE DEF token
  <2>. QED
    BY <2>1, <2>2, <2>3, TakesShape
<1>10. CASE Ignored
  <2>1. Take(1, <<>>)
    BY <1>10 DEF Ignored
  <2>. QED
    BY <1>1, <1>2, <2>1, TakesShape
<1>. QED
  BY <1>3, <1>4, <1>5, <1>6, <1>7, <1>8, <1>9, <1>10 DEF lex_scanToken

\* The inductive invariant: before an error the scanner is inside the source, and
\* it has seen no more newlines than cells.
ScannerInv ==
    /\ program \in Programs
    /\ ScannerTypeOK
    /\ \E T : tokens \in Seq(T)
    /\ status = "SUCCESS" => current <= Len(source) /\ line <= current + 1

\* What a lexeme adds: on one line, EOF only as the last and when the end is reached.
LEMMA TokensAdded ==
    ASSUME NEW new, Addable(new), NEW n
    PROVE  LET added == AddTokens(new, n)
               end == current + n >= Len(source)
           IN  /\ \E T : added \in Seq(T)
               /\ \A i \in 1..Len(added) : /\ added[i].line = LineAfter(n)
                                           /\ added[i].type = "EOF" => i = Len(added) /\ end
               /\ end => Len(added) > 0 /\ added[Len(added)].type = "EOF"
<1> DEFINE eof == Token("EOF", <<>>)
           l == LineAfter(n)
           end == current + n >= Len(source)
           R(t) == [type |-> t.type, value |-> t.value, flags |-> t.flags, line |-> l]
           Added(all) == [k \in 1..Len(all) |-> [type |-> all[k].type, value |-> all[k].value,
                                                 flags |-> all[k].flags, line |-> l]]
           Good(added) == /\ \E T : added \in Seq(T)
                          /\ \A i \in 1..Len(added) : /\ added[i].line = l
                                                      /\ added[i].type = "EOF" => i = Len(added) /\ end
                          /\ end => Len(added) > 0 /\ added[Len(added)].type = "EOF"
<1>1. AddTokens(new, n) = Added(IF end THEN Append(new, eof) ELSE new)
  BY Zenon DEF AddTokens
<1>2. eof.type = "EOF"
  BY DEF Token
<1> HIDE DEF eof, l
<1>3. /\ Added(<<>>) = <<>>
      /\ \A t : Added(<<t>>) = <<R(t)>>
      /\ \A t, u : Added(<<t, u>>) = <<R(t), R(u)>>
  <2>1. Added(<<>>) = <<>>
    OBVIOUS
  <2>2. \A t : Added(<<t>>) = <<R(t)>>
    OBVIOUS
  <2>3. \A t, u : Added(<<t, u>>) = <<R(t), R(u)>>
    OBVIOUS
  <2> HIDE DEF Added, R
  <2>. QED
    BY <2>1, <2>2, <2>3
<1>4. \A t : R(t).type = t.type /\ R(t).line = l
  OBVIOUS
<1> HIDE DEF Added, R
<1>5. ASSUME NEW t, Append(<<>>, eof) = <<eof>>, Append(<<t>>, eof) = <<t, eof>>, t.type # "EOF"
      PROVE  Good(AddTokens(<<t>>, n)) \/ new # <<t>>
  <2>1. SUFFICES ASSUME new = <<t>> PROVE Good(AddTokens(new, n))
    OBVIOUS
  <2>2. CASE end
    <3>1. AddTokens(new, n) = <<R(t), R(eof)>>
      BY <1>1, <1>3, <1>5, <2>1, <2>2
    <3>2. <<R(t), R(eof)>> \in Seq({R(t), R(eof)})
      OBVIOUS
    <3>3. \E T : AddTokens(new, n) \in Seq(T)
      BY <3>1, <3>2
    <3> HIDE DEF end
    <3>. QED
      BY <1>2, <1>4, <1>5, <2>2, <3>1, <3>3
  <2>3. CASE ~end
    <3>1. AddTokens(new, n) = <<R(t)>>
      BY <1>1, <1>3, <1>5, <2>1, <2>3
    <3>2. <<R(t)>> \in Seq({R(t)})
      OBVIOUS
    <3>3. \E T : AddTokens(new, n) \in Seq(T)
      BY <3>1, <3>2
    <3> HIDE DEF end
    <3>. QED
      BY <1>2, <1>4, <1>5, <2>3, <3>1, <3>3
  <2>. QED
    BY <2>2, <2>3
<1>6. ASSUME new = <<>>, Append(<<>>, eof) = <<eof>> PROVE Good(AddTokens(new, n))
  <2>1. CASE end
    <3>1. AddTokens(new, n) = <<R(eof)>>
      BY <1>1, <1>3, <1>6, <2>1
    <3>2. <<R(eof)>> \in Seq({R(eof)})
      OBVIOUS
    <3>3. \E T : AddTokens(new, n) \in Seq(T)
      BY <3>1, <3>2
    <3> HIDE DEF end
    <3>. QED
      BY <1>2, <1>4, <2>1, <3>1, <3>3
  <2>2. CASE ~end
    <3>1. AddTokens(new, n) = <<>>
      BY <1>1, <1>3, <1>6, <2>2
    <3>2. <<>> \in Seq({})
      OBVIOUS
    <3>3. \E T : AddTokens(new, n) \in Seq(T)
      BY <3>1, <3>2
    <3> HIDE DEF end
    <3>. QED
      BY <2>2, <3>1, <3>3
  <2>. QED
    BY <2>1, <2>2
<1>7. \A t : Append(<<t>>, eof) = <<t, eof>> /\ Append(<<>>, eof) = <<eof>>
  BY ShortSequences
<1>8. Good(AddTokens(new, n))
  <2>1. CASE new = <<>>
    BY <1>6, <1>7, <2>1
  <2>2. ASSUME NEW t, new = <<t>>, t.type # "EOF" PROVE Good(AddTokens(new, n))
    <3> HIDE DEF Good
    <3>1. Good(AddTokens(<<t>>, n))
      BY <1>5, <1>7, <2>2
    <3>. QED
      BY <2>2, <3>1
  <2>. QED
    BY <2>1, <2>2 DEF Addable
<1>. QED
  BY <1>8 DEF l

\* The scanner before a step.
LEMMA BeforeStep ==
    ASSUME ScannerInv, lex_scanToken
    PROVE  /\ source \in Seq(Cell) /\ Len(source) \in Nat /\ current \in Nat /\ current < Len(source)
           /\ line \in Nat /\ 1 <= line /\ line <= current + 1 /\ status = "SUCCESS" /\ ~lex_isEof
           /\ \A i \in DOMAIN tokens : tokens[i].type # "EOF"
<1>1. status = "SUCCESS" /\ ~lex_isEof
  BY OnlyBeforeTheEnd
<1>2. program.lexemes \in Seq(DOMAIN LexemeOf)
  BY GrammarAssumption DEF ScannerInv
<1>3. PICK lexemes \in Seq(DOMAIN LexemeOf) : lexemes = program.lexemes
  BY <1>2
<1>4. source = Upto(lexemes, Len(lexemes))
  BY <1>3, TextGrows DEF ScannerInv, ScannerTypeOK
<1>5. Upto(lexemes, Len(lexemes)) \in Seq(Cell)
  <2>1. Len(lexemes) \in 0..Len(lexemes)
    OBVIOUS
  <2>. QED
    BY <2>1, TextGrows
<1>6. source \in Seq(Cell)
  BY <1>4, <1>5
<1>7. Len(source) \in Nat
  BY <1>6
<1>8. current \in 0..(Len(source) + 1) /\ line \in 1..(Len(source) + 1) /\ line <= current + 1
  BY <1>1 DEF ScannerInv, ScannerTypeOK
<1>9. current < Len(source)
  BY <1>1, <1>7, <1>8 DEF lex_isEof
<1>10. \A i \in DOMAIN tokens : tokens[i].type # "EOF"
  BY <1>1 DEF ScannerInv, ScannerTypeOK
<1>. QED
  BY <1>1, <1>6, <1>7, <1>8, <1>9, <1>10

\* Taking cells that are there, with at most one token.
LEMMA TakeKeepsInv ==
    ASSUME ScannerInv, lex_scanToken, program' = program, NEW n \in Nat, n <= Len(source) - current,
           NEW new, Addable(new), Take(n, new)
    PROVE  ScannerInv'
<1> DEFINE added == AddTokens(new, n)
           end == current + n >= Len(source)
<1>1. /\ source \in Seq(Cell) /\ Len(source) \in Nat /\ current \in Nat /\ current < Len(source)
      /\ line \in Nat /\ 1 <= line /\ line <= current + 1 /\ status = "SUCCESS"
  BY BeforeStep
<1>2. \A i \in DOMAIN tokens : tokens[i].type # "EOF"
  BY BeforeStep
<1>3. /\ current' = current + n /\ line' = LineAfter(n) /\ tokens' = tokens \o added
      /\ source' = source /\ status' = status
  BY DEF Take
<1>4. line' \in Nat /\ line <= line' /\ line' <= current + n + 1
  <2>1. /\ Cardinality(Newlines(n)) \in Nat /\ Cardinality(Newlines(n)) <= n
    BY <1>1, NewlinesBound
  <2>2. line' = line + Cardinality(Newlines(n))
    BY <1>3 DEF LineAfter
  <2>. QED
    BY <1>1, <2>1, <2>2
<1>5. current + n <= Len(source) /\ current + n \in Nat
  BY <1>1
<1>6. /\ \E T : added \in Seq(T)
      /\ \A i \in 1..Len(added) : /\ added[i].line = line'
                                  /\ added[i].type = "EOF" => i = Len(added) /\ end
      /\ end => Len(added) > 0 /\ added[Len(added)].type = "EOF"
  BY <1>3, TokensAdded
<1> HIDE DEF added
<1>7. PICK T : tokens \in Seq(T)
  BY DEF ScannerInv
<1>8. PICK U : added \in Seq(U)
  BY <1>6
<1> DEFINE V == T \cup U
<1>9. /\ tokens \in Seq(V) /\ added \in Seq(V) /\ Len(tokens) \in Nat /\ Len(added) \in Nat
  BY <1>7, <1>8
<1> HIDE DEF V
<1>10. /\ tokens' \in Seq(V) /\ Len(tokens') = Len(tokens) + Len(added)
       /\ \A i \in 1..Len(tokens) : tokens'[i] = tokens[i]
       /\ \A i \in 1..Len(added) : tokens'[Len(tokens) + i] = added[i]
       /\ DOMAIN tokens' = 1..(Len(tokens) + Len(added)) /\ DOMAIN tokens = 1..Len(tokens)
  <2>1. \A a, b \in Seq(V) :
            /\ a \o b \in Seq(V) /\ Len(a \o b) = Len(a) + Len(b)
            /\ \A i \in 1..Len(a) : (a \o b)[i] = a[i]
            /\ \A i \in 1..Len(b) : (a \o b)[Len(a) + i] = b[i]
            /\ DOMAIN (a \o b) = 1..(Len(a) + Len(b)) /\ DOMAIN a = 1..Len(a)
    OBVIOUS
  <2>. QED
    BY <1>3, <1>9, <2>1
<1>11. lex_isEof' <=> end
  BY <1>3 DEF lex_isEof
<1>12. ASSUME NEW i \in 1..Len(tokens)
       PROVE  /\ tokens[i].line \in 1..line /\ (i > 1 => tokens[i - 1].line <= tokens[i].line)
              /\ tokens'[i] = tokens[i] /\ tokens'[i].type # "EOF"
  BY <1>2, <1>10 DEF ScannerInv, ScannerTypeOK
<1>13. ASSUME NEW i \in DOMAIN tokens'
       PROVE  /\ tokens'[i].line \in 1..line'
              /\ i > 1 => tokens'[i - 1].line <= tokens'[i].line
              /\ tokens'[i].type = "EOF" => i = Len(tokens') /\ lex_isEof'
  <2>1. CASE i \in 1..Len(tokens)
    <3>1. tokens'[i].line \in 1..line'
      BY <1>1, <1>4, <1>12, <2>1
    <3>2. i > 1 => i - 1 \in 1..Len(tokens)
      BY <1>9, <2>1
    <3>3. i > 1 => tokens'[i - 1].line <= tokens'[i].line
      BY <1>12, <2>1, <3>2
    <3>. QED
      BY <1>12, <2>1, <3>1, <3>3
  <2>2. CASE i \notin 1..Len(tokens)
    <3>1. i - Len(tokens) \in 1..Len(added) /\ Len(tokens) + (i - Len(tokens)) = i
      BY <1>9, <1>10, <2>2
    <3>2. tokens'[i] = added[i - Len(tokens)]
      BY <1>10, <3>1
    <3>3. tokens'[i].line = line'
      BY <1>6, <3>1, <3>2
    <3>4. tokens'[i].type = "EOF" => i = Len(tokens') /\ lex_isEof'
      <4>1. tokens'[i].type = "EOF" => i - Len(tokens) = Len(added) /\ end
        BY <1>6, <3>1, <3>2
      <4>2. i - Len(tokens) = Len(added) => i = Len(tokens')
        BY <1>9, <1>10, <3>1
      <4> HIDE DEF end
      <4>. QED
        BY <1>11, <4>1, <4>2
    <3>5. ASSUME i > 1 PROVE tokens'[i - 1].line <= line' /\ tokens'[i - 1].line \in Nat
      <4>1. CASE i - 1 \in 1..Len(tokens)
        BY <1>1, <1>4, <1>12, <4>1
      <4>2. CASE i - 1 \notin 1..Len(tokens)
        <5>1. i - 1 - Len(tokens) \in 1..Len(added) /\ Len(tokens) + (i - 1 - Len(tokens)) = i - 1
          <6>1. \A a, b \in Nat : \A x \in 1..(a + b) :
                    x > 1 /\ x - 1 \notin 1..a => x - 1 - a \in 1..b /\ a + (x - 1 - a) = x - 1
            OBVIOUS
          <6>2. i \in 1..(Len(tokens) + Len(added))
            BY <1>10
          <6>. QED
            BY <1>9, <3>5, <4>2, <6>1, <6>2
        <5>2. tokens'[i - 1] = added[i - 1 - Len(tokens)]
          BY <1>10, <5>1
        <5>3. tokens'[i - 1].line = line'
          BY <1>6, <5>1, <5>2
        <5>. QED
          BY <1>4, <5>3
      <4>. QED
        BY <4>1, <4>2
    <3>6. line' \in 1..line'
      BY <1>1, <1>4
    <3>. QED
      BY <3>3, <3>4, <3>5, <3>6
  <2>. QED
    BY <2>1, <2>2
<1>14. lex_isEof' => tokens' # <<>> /\ lex_last_token_type' = "EOF"
  <2>1. SUFFICES ASSUME end PROVE tokens' # <<>> /\ lex_last_token_type' = "EOF"
    BY <1>11
  <2>2. Len(added) > 0 /\ added[Len(added)].type = "EOF"
    BY <1>6, <2>1
  <2>3. Len(added) \in 1..Len(added) /\ Len(tokens') = Len(tokens) + Len(added) /\ Len(tokens') > 0
    BY <1>9, <1>10, <2>2
  <2>4. tokens'[Len(tokens')] = added[Len(added)]
    BY <1>10, <2>3
  <2>5. tokens' # <<>>
    BY <2>3
  <2>. QED
    BY <2>2, <2>4, <2>5 DEF lex_last_token_type
<1>15. current' \in 0..(Len(source') + 1) /\ line' \in 1..(Len(source') + 1)
       /\ current' <= Len(source') /\ line' <= current' + 1
  BY <1>1, <1>3, <1>4, <1>5
<1>16. ScannerTypeOK'
  <2>1. source' = TextOf(program'.lexemes) /\ status' \in {"SUCCESS", "UNSUCCESSFUL", "CRASHED"}
    BY <1>1, <1>3 DEF ScannerInv, ScannerTypeOK
  <2>. QED
    BY <1>13, <1>14, <1>15, <2>1 DEF ScannerTypeOK
<1>17. (\E W : tokens \in Seq(W))'
  BY <1>10
<1>18. program' \in Programs
  BY DEF ScannerInv
<1>. QED
  BY <1>15, <1>16, <1>17, <1>18 DEF ScannerInv

\* An error ends the scan.
LEMMA PanicKeepsInv ==
    ASSUME ScannerInv, lex_scanToken, program' = program, NEW n \in Nat, n <= Len(source) - current + 1,
           Panic(n, "UNSUCCESSFUL") \/ Panic(n, "CRASHED")
    PROVE  ScannerInv'
<1>1. /\ source \in Seq(Cell) /\ Len(source) \in Nat /\ current \in Nat /\ current < Len(source)
      /\ line \in Nat /\ 1 <= line /\ line <= current + 1
  BY BeforeStep
<1>2. \A i \in DOMAIN tokens : tokens[i].type # "EOF"
  BY BeforeStep
<1>3. /\ current' = current + n /\ line' = LineAfter(n) /\ tokens' = tokens
      /\ source' = source /\ status' \in {"UNSUCCESSFUL", "CRASHED"}
  BY DEF Panic
<1>4. line' \in Nat /\ line <= line' /\ line' <= Len(source) + 1
  <2>0. current <= Len(source)
    BY <1>1
  <2>1. /\ Cardinality(Newlines(n)) \in Nat /\ Cardinality(Newlines(n)) <= Len(source) - current
    BY <1>1, <2>0, NewlinesBound
  <2>2. line' = line + Cardinality(Newlines(n))
    BY <1>3 DEF LineAfter
  <2>. QED
    BY <1>1, <2>1, <2>2
<1>5. current' \in 0..(Len(source') + 1) /\ line' \in 1..(Len(source') + 1)
  BY <1>1, <1>3, <1>4
<1>6. ASSUME NEW i \in DOMAIN tokens'
      PROVE  /\ tokens'[i].line \in 1..line'
             /\ i > 1 => tokens'[i - 1].line <= tokens'[i].line
             /\ tokens'[i].type # "EOF"
  <2>1. i \in DOMAIN tokens /\ tokens[i].line \in 1..line /\ (i > 1 => tokens[i - 1].line <= tokens[i].line)
    BY <1>3 DEF ScannerInv, ScannerTypeOK
  <2>2. tokens[i].line \in 1..line'
    BY <1>1, <1>4, <2>1
  <2>. QED
    BY <1>2, <1>3, <2>1, <2>2
<1>7. ScannerTypeOK'
  <2>1. source' = TextOf(program'.lexemes)
    BY <1>3 DEF ScannerInv, ScannerTypeOK
  <2>. QED
    BY <1>3, <1>5, <1>6, <2>1 DEF ScannerTypeOK
<1>8. (\E T : tokens \in Seq(T))'
  BY <1>3 DEF ScannerInv
<1>9. program' \in Programs /\ status' # "SUCCESS"
  BY <1>3 DEF ScannerInv
<1>. QED
  BY <1>7, <1>8, <1>9 DEF ScannerInv

\* The invariant holds at first.
LEMMA ScannerInvInit ==
    ASSUME ScanInit
    PROVE  ScannerInv
<1>1. program \in Programs /\ source = TextOf(program.lexemes) /\ status = "SUCCESS"
      /\ current = 0 /\ line = 1 /\ tokens = <<>>
  BY DEF ScanInit, LexInit
<1>2. PICK lexemes \in Seq(DOMAIN LexemeOf) : lexemes = program.lexemes
  BY <1>1, GrammarAssumption
<1>3. source \in Seq(Cell)
  <2>1. Len(lexemes) \in 0..Len(lexemes)
    OBVIOUS
  <2>. QED
    BY <1>1, <1>2, <2>1, TextGrows
<1>4. Len(source) \in Nat /\ (lex_isEof => source = <<>>)
  BY <1>1, <1>3 DEF lex_isEof
<1>5. ScannerTypeOK
  <2>1. current \in 0..(Len(source) + 1) /\ line \in 1..(Len(source) + 1)
    BY <1>1, <1>4
  <2>2. DOMAIN tokens = {}
    BY <1>1
  <2>. QED
    BY <1>1, <1>4, <2>1, <2>2 DEF ScannerTypeOK
<1>6. tokens \in Seq({})
  BY <1>1
<1>7. current <= Len(source) /\ line <= current + 1
  BY <1>1, <1>4
<1>. QED
  BY <1>1, <1>5, <1>6, <1>7 DEF ScannerInv

\* For every text, lexemes or not: EOF is the last token, added when the end of the
\* source has been reached and no earlier, lines ascend, and the scanner ends at most
\* one cell behind the source.
THEOREM ScannerTypeCorrect == ScanSpec => []ScannerTypeOK
<1>1. ScanInit => ScannerInv
  BY ScannerInvInit
<1>2. ScannerInv /\ [ScanNext]_scanner => ScannerInv'
  <2> SUFFICES ASSUME ScannerInv, [ScanNext]_scanner PROVE ScannerInv'
    OBVIOUS
  <2>1. CASE ScanNext
    <3>1. lex_scanToken /\ program' = program
      BY <2>1 DEF ScanNext
    <3>2. StepShape
      BY <3>1, BeforeStep, EveryStepShape
    <3>3. CASE \E n \in Nat : \E new : n <= Len(source) - current /\ Addable(new) /\ Take(n, new)
      BY <3>1, <3>3, TakeKeepsInv
    <3>4. CASE \E n \in Nat : n <= Len(source) - current + 1
                              /\ (Panic(n, "UNSUCCESSFUL") \/ Panic(n, "CRASHED"))
      BY <3>1, <3>4, PanicKeepsInv
    <3>. QED
      BY <3>2, <3>3, <3>4 DEF StepShape
  <2>2. CASE UNCHANGED scanner
    BY <2>2 DEF scanner, lexer, ScannerInv, ScannerTypeOK, lex_isEof, lex_last_token_type
  <2>. QED
    BY <2>1, <2>2
<1>3. ScannerInv => ScannerTypeOK
  BY DEF ScannerInv
<1>. QED
  BY <1>1, <1>2, <1>3, PTL DEF ScanSpec
=============================================================================
