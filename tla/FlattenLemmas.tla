---------------------------- MODULE FlattenLemmas ----------------------------
(***************************************************************************)
(* What FlattenSeq of the community modules returns, which SendQueue maps  *)
(* its buffers to the bytes that wait with, and JsonLine an object to its  *)
(* tokens with: the empty sequence for no parts, and what it returned      *)
(* before followed by b when the part b is appended.  The rest follows     *)
(* from these two.  Induction over the number of parts is by the least     *)
(* number for which a statement fails.                                     *)
(***************************************************************************)
EXTENDS Integers, Sequences, SequencesExt, SequenceTheorems, NaturalsInduction,
        WellFoundedInduction, TLAPS

\* A set of natural numbers has a least one.
LEMMA LeastNumber ==
  ASSUME NEW S \in SUBSET Nat, S # {}
  PROVE  \E x \in S : \A y \in S : x <= y
<1> DEFINE R == {ss \in Nat \X Nat : ss[1] < ss[2]}
<1>1. IsWellFoundedOn(R, Nat)
  BY NatLessThanWellFounded, Zenon DEF OpToRel
<1>2. \A x, y \in Nat : <<y, x>> \in R <=> y < x
  OBVIOUS
<1> HIDE DEF R
<1>3. PICK x \in S : \A y \in S : <<y, x>> \notin R
  BY <1>1, WFMin
<1>4. \A y \in S : x \in Nat /\ y \in Nat /\ ~ (y < x)
  BY <1>2, <1>3
<1>5. \A y \in S : x <= y
  BY <1>4
<1> QED
  BY <1>5

\* A function whose value at i is a step from its value at i - 1 exists.
LEMMA StepsExist ==
  ASSUME NEW S, NEW base \in S, NEW n \in Nat, NEW F \in [1..n -> [S -> S]]
  PROVE  \E g \in [0..n -> S] : g[0] = base /\ \A i \in 1..n : g[i] = F[i][g[i - 1]]
<1> DEFINE Upto(g, m) == /\ g \in [0..m -> S] /\ g[0] = base
                         /\ \A i \in 1..m : g[i] = F[i][g[i - 1]]
           Bad == {m \in Nat : m <= n /\ ~ \E g : Upto(g, m)}
<1>1. Bad = {}
  <2> SUFFICES ASSUME Bad # {} PROVE FALSE
    OBVIOUS
  <2>1. PICK m \in Bad : \A k \in Bad : m <= k
    <3>1. Bad \in SUBSET Nat
      OBVIOUS
    <3> HIDE DEF Bad
    <3> QED
      BY <3>1, LeastNumber
  <2>2. m \in Nat /\ m <= n /\ ~ \E g : Upto(g, m)
    OBVIOUS
  <2>3. m # 0
    <3>1. Upto([i \in 0..0 |-> base], 0)
      OBVIOUS
    <3> HIDE DEF Upto
    <3> QED
      BY <2>2, <3>1
  <2>4. m - 1 \in Nat /\ m - 1 <= n /\ m - 1 \notin Bad
    <3> HIDE DEF Bad
    <3> QED
      BY <2>1, <2>2, <2>3
  <2>5. PICK g : Upto(g, m - 1)
    <3> HIDE DEF Upto
    <3> QED
      BY <2>4
  <2> DEFINE h == [i \in 0..m |-> IF i < m THEN g[i] ELSE F[m][g[m - 1]]]
  <2>6. m \in 1..n /\ g[m - 1] \in S /\ F[m][g[m - 1]] \in S
    BY <2>2, <2>3, <2>5
  <2>7. h \in [0..m -> S] /\ h[0] = base
    BY <2>2, <2>3, <2>5, <2>6
  <2>8. ASSUME NEW i \in 1..m PROVE h[i] = F[i][h[i - 1]]
    <3>1. i - 1 \in 0..m /\ i - 1 < m /\ h[i - 1] = g[i - 1]
      BY <2>2
    <3>2. CASE i = m
      BY <2>2, <3>1, <3>2
    <3>3. CASE i < m
      <4>1. i \in 1..(m - 1) /\ h[i] = g[i]
        BY <2>2, <3>3
      <4> QED
        BY <2>5, <3>1, <4>1
    <3> QED
      BY <2>2, <3>2, <3>3
  <2>9. Upto(h, m)
    <3> HIDE DEF h
    <3> QED
      BY <2>7, <2>8
  <2> HIDE DEF Upto
  <2> QED
    BY <2>2, <2>9
<1>2. \E g : Upto(g, n)
  <2> HIDE DEF Upto
  <2> QED
    BY <1>1
<1> QED
  BY <1>2

\* f[i] is the concatenation of the first i parts of q, for i up to m.
Joins(f, q, m) == f = [i \in 1..m |-> IF i = 1 THEN q[i] ELSE f[i - 1] \o q[i]]

LEMMA JoinsExist ==
  ASSUME NEW q
  PROVE  \A m \in Nat : \E f : Joins(f, q, m)
<1> DEFINE S == {m \in Nat : ~ \E f : Joins(f, q, m)}
<1> SUFFICES ASSUME S # {} PROVE FALSE
  OBVIOUS
<1>1. PICK n \in S : \A m \in S : n <= m
  <2>1. S \in SUBSET Nat
    OBVIOUS
  <2> HIDE DEF S
  <2> QED
    BY <2>1, LeastNumber
<1>2. n \in Nat /\ ~ \E f : Joins(f, q, n)
  OBVIOUS
<1>3. n # 0
  <2>1. Joins([i \in 1..0 |-> 0], q, 0)
    BY DEF Joins
  <2> QED
    BY <1>2, <2>1
<1>4. n - 1 \in Nat /\ n - 1 \notin S
  BY <1>1, <1>2, <1>3
<1>5. PICK f : Joins(f, q, n - 1)
  BY <1>4
<1> DEFINE last == IF n = 1 THEN q[n] ELSE f[n - 1] \o q[n]
           g == [i \in 1..n |-> IF i < n THEN f[i] ELSE last]
<1>6. Joins(g, q, n)
  <2>1. \A i \in 1..n : g[i] = IF i = 1 THEN q[i] ELSE g[i - 1] \o q[i]
    <3> TAKE i \in 1..n
    <3>1. CASE i = n
      <4>1. g[i] = last
        BY <1>2, <3>1
      <4>2. i # 1 => g[i - 1] = f[n - 1]
        BY <1>2, <3>1
      <4> QED
        BY <3>1, <4>1, <4>2
    <3>2. CASE i < n
      <4>1. i \in 1..(n - 1) /\ g[i] = f[i] /\ (i # 1 => g[i - 1] = f[i - 1])
        BY <1>2, <3>2
      <4>2. f[i] = IF i = 1 THEN q[i] ELSE f[i - 1] \o q[i]
        BY <1>5, <4>1, Zenon DEF Joins
      <4> QED
        BY <4>1, <4>2
    <3> QED
      BY <1>2, <3>1, <3>2
  <2>2. g = [i \in 1..n |-> g[i]]
    OBVIOUS
  <2> HIDE DEF g
  <2> QED
    BY <2>1, <2>2 DEF Joins
<1> QED
  BY <1>2, <1>6

SameTo(f, g, m) == \A i \in 1..m : f[i] = g[i]

\* The joins of two sequences of parts agree as far as the parts do.
LEMMA JoinsAgree ==
  ASSUME NEW q, NEW r, NEW m \in Nat, NEW n \in Nat, m <= n, NEW f, NEW g,
         Joins(f, q, m), Joins(g, r, n), SameTo(q, r, m)
  PROVE  SameTo(f, g, m)
<1> DEFINE S == {i \in Nat : i \in 1..m /\ f[i] # g[i]}
<1> SUFFICES ASSUME S # {} PROVE FALSE
  BY DEF SameTo
<1>1. PICK k \in S : \A i \in S : k <= i
  <2>1. S \in SUBSET Nat
    OBVIOUS
  <2> HIDE DEF S
  <2> QED
    BY <2>1, LeastNumber
<1>2. k \in 1..m /\ k \in 1..n /\ q[k] = r[k] /\ f[k] # g[k]
  BY DEF SameTo
<1>3. /\ f[k] = IF k = 1 THEN q[k] ELSE f[k - 1] \o q[k]
      /\ g[k] = IF k = 1 THEN r[k] ELSE g[k - 1] \o r[k]
  BY <1>2, Zenon DEF Joins
<1>4. k # 1 => k - 1 \notin S /\ k - 1 \in 1..m
  BY <1>1, <1>2
<1>5. k # 1 => f[k - 1] = g[k - 1]
  BY <1>4
<1> QED
  BY <1>2, <1>3, <1>5

LEMMA FlattenIsJoin ==
  ASSUME NEW q, Len(q) \in Nat \ {0}
  PROVE  \E f : Joins(f, q, Len(q)) /\ FlattenSeq(q) = f[Len(q)]
<1> DEFINE f == CHOOSE f : f = [i \in 1..Len(q) |-> IF i = 1 THEN q[i] ELSE f[i - 1] \o q[i]]
<1>1. \E h : h = [i \in 1..Len(q) |-> IF i = 1 THEN q[i] ELSE h[i - 1] \o q[i]]
  BY JoinsExist DEF Joins
<1>2. f = [i \in 1..Len(q) |-> IF i = 1 THEN q[i] ELSE f[i - 1] \o q[i]]
  BY <1>1, Zenon
<1>3. FlattenSeq(q) = f[Len(q)]
  BY DEF FlattenSeq
<1> HIDE DEF f
<1> QED
  BY <1>2, <1>3 DEF Joins

LEMMA FlattenEmpty == FlattenSeq(<<>>) = <<>>
  BY DEF FlattenSeq

LEMMA FlattenAppend ==
  ASSUME NEW T, NEW q \in Seq(Seq(T)), NEW b \in Seq(T)
  PROVE  FlattenSeq(Append(q, b)) = IF q = <<>> THEN b ELSE FlattenSeq(q) \o b
<1> DEFINE r == Append(q, b)
           n == Len(q) + 1
<1>1. /\ Len(q) \in Nat /\ Len(r) = n /\ r[n] = b /\ \A i \in 1..Len(q) : r[i] = q[i]
      /\ q = <<>> <=> Len(q) = 0
  BY AppendProperties, EmptySeq
<1> HIDE DEF r
<1>2. PICK g : Joins(g, r, n) /\ FlattenSeq(r) = g[n]
  BY <1>1, FlattenIsJoin
<1>3. g[n] = IF n = 1 THEN r[n] ELSE g[n - 1] \o r[n]
  <2>1. n \in 1..n
    BY <1>1
  <2> QED
    BY <1>2, <2>1, Zenon DEF Joins
<1>4. CASE q = <<>>
  BY <1>1, <1>2, <1>3, <1>4 DEF r
<1>5. CASE q # <<>>
  <2>1. Len(q) \in Nat \ {0} /\ n - 1 = Len(q) /\ n # 1 /\ Len(q) \in 1..Len(q)
    BY <1>1, <1>5
  <2>2. PICK f : Joins(f, q, Len(q)) /\ FlattenSeq(q) = f[Len(q)]
    BY <2>1, FlattenIsJoin
  <2>3. SameTo(f, g, Len(q))
    <3>1. Len(q) \in Nat /\ n \in Nat /\ Len(q) <= n /\ SameTo(q, r, Len(q))
      BY <1>1 DEF SameTo
    <3> QED
      BY <1>2, <2>2, <3>1, JoinsAgree
  <2>4. f[Len(q)] = g[Len(q)]
    BY <2>1, <2>3 DEF SameTo
  <2> QED
    BY <1>1, <1>2, <1>3, <1>5, <2>1, <2>2, <2>4 DEF r
<1> QED
  BY <1>4, <1>5

LEMMA FlattenOne ==
  ASSUME NEW T, NEW b \in Seq(T)
  PROVE  FlattenSeq(<<b>>) = b
<1>1. <<>> \in Seq(Seq(T)) /\ Append(<<>>, b) = <<b>>
  OBVIOUS
<1> QED
  BY <1>1, FlattenAppend

\* The parts in order are a sequence of what the parts are sequences of.
LEMMA FlattenType ==
  ASSUME NEW T
  PROVE  \A q \in Seq(Seq(T)) : FlattenSeq(q) \in Seq(T)
<1> DEFINE S == {n \in Nat : \E q \in Seq(Seq(T)) : Len(q) = n /\ FlattenSeq(q) \notin Seq(T)}
<1> SUFFICES ASSUME S # {} PROVE FALSE
  BY EmptySeq
<1>1. PICK n \in S : \A m \in S : n <= m
  <2>1. S \in SUBSET Nat
    OBVIOUS
  <2> HIDE DEF S
  <2> QED
    BY <2>1, LeastNumber
<1>2. PICK q \in Seq(Seq(T)) : Len(q) = n /\ FlattenSeq(q) \notin Seq(T)
  OBVIOUS
<1>3. q # <<>>
  BY <1>2, FlattenEmpty, EmptySeq
<1>4. PICK p \in Seq(Seq(T)), b \in Seq(T) : q = Append(p, b)
  BY <1>3, SequenceEmptyOrAppend
<1>5. Len(p) \in Nat /\ Len(p) < n
  <2>1. Len(q) = Len(p) + 1 /\ Len(p) \in Nat
    BY <1>4, AppendProperties, LenProperties
  <2> QED
    BY <1>2, <2>1
<1>6. FlattenSeq(p) \in Seq(T)
  BY <1>1, <1>5
<1>7. FlattenSeq(p) \o b \in Seq(T)
  BY <1>6, ConcatProperties
<1> QED
  BY <1>2, <1>4, <1>7, FlattenAppend

LEMMA ConcatAppend ==
  ASSUME NEW Z, NEW p \in Seq(Z), NEW r \in Seq(Z), NEW b \in Z
  PROVE  p \o Append(r, b) = Append(p \o r, b) /\ p \o r \in Seq(Z)
<1>1. p \o r \in Seq(Z)
  BY ConcatProperties
<1>2. Append(p \o r, b) = (p \o r) \o <<b>>
  BY <1>1, AppendIsConcat
<1>3. Append(r, b) = r \o <<b>> /\ <<b>> \in Seq(Z)
  BY AppendIsConcat
<1>4. p \o (r \o <<b>>) = (p \o r) \o <<b>>
  BY <1>3, ConcatAssociative
<1> QED
  BY <1>1, <1>2, <1>3, <1>4

\* The parts of two sequences of parts, one after the other.
LEMMA FlattenConcat ==
  ASSUME NEW T, NEW p \in Seq(Seq(T))
  PROVE  \A q \in Seq(Seq(T)) : FlattenSeq(p \o q) = FlattenSeq(p) \o FlattenSeq(q)
<1> DEFINE Wrong(q) == FlattenSeq(p \o q) # FlattenSeq(p) \o FlattenSeq(q)
           S == {n \in Nat : \E q \in Seq(Seq(T)) : Len(q) = n /\ Wrong(q)}
<1> SUFFICES ASSUME S # {} PROVE FALSE
  BY EmptySeq
<1>1. PICK n \in S : \A m \in S : n <= m
  <2>1. S \in SUBSET Nat
    OBVIOUS
  <2> HIDE DEF S
  <2> QED
    BY <2>1, LeastNumber
<1>2. PICK q \in Seq(Seq(T)) : Len(q) = n /\ Wrong(q)
  OBVIOUS
<1>n. n \in Nat
  OBVIOUS
<1>3. q # <<>>
  <2>1. p \o <<>> = p /\ FlattenSeq(p) \o <<>> = FlattenSeq(p)
    BY FlattenType, ConcatEmptySeq
  <2> QED
    BY <1>2, <2>1, FlattenEmpty
<1>4. PICK r \in Seq(Seq(T)), b \in Seq(T) : q = Append(r, b)
  BY <1>3, SequenceEmptyOrAppend
<1>5. Len(r) \in Nat /\ Len(r) < n
  <2> HIDE DEF S, Wrong
  <2>1. Len(q) = Len(r) + 1 /\ Len(r) \in Nat
    BY <1>4, AppendProperties, LenProperties
  <2> QED
    BY <1>2, <2>1
<1>6. FlattenSeq(p \o r) = FlattenSeq(p) \o FlattenSeq(r)
  <2>1. Len(r) \notin S
    <3> HIDE DEF S
    <3> QED
      BY <1>1, <1>5, <1>n
  <2> HIDE DEF Wrong
  <2>2. ~Wrong(r)
    BY <1>5, <2>1
  <2> QED
    BY <2>2 DEF Wrong
<1>7. p \o q = Append(p \o r, b) /\ p \o r \in Seq(Seq(T))
  <2> HIDE DEF S, Wrong
  <2> QED
    BY <1>4, ConcatAppend
<1>8. /\ FlattenSeq(p) \in Seq(T) /\ FlattenSeq(r) \in Seq(T)
      /\ <<>> \o b = b /\ FlattenSeq(p) \o <<>> = FlattenSeq(p)
  BY FlattenType, ConcatEmptySeq
<1>9. FlattenSeq(p \o q) = IF p \o r = <<>> THEN b ELSE FlattenSeq(p \o r) \o b
  BY <1>7, FlattenAppend
<1>10. FlattenSeq(q) = IF r = <<>> THEN b ELSE FlattenSeq(r) \o b
  BY <1>4, FlattenAppend
<1>11. CASE r = <<>>
  <2>1. p \o r = p
    BY <1>11, ConcatEmptySeq
  <2>2. CASE p = <<>>
    BY <1>2, <1>8, <1>9, <1>10, <1>11, <2>1, <2>2, FlattenEmpty
  <2>3. CASE p # <<>>
    BY <1>2, <1>9, <1>10, <1>11, <2>1, <2>3
  <2> QED
    BY <2>2, <2>3
<1>12. CASE r # <<>>
  <2>1. p \o r # <<>>
    BY <1>12, ConcatEqualIffEmpty
  <2>2. (FlattenSeq(p) \o FlattenSeq(r)) \o b = FlattenSeq(p) \o (FlattenSeq(r) \o b)
    <3> DEFINE x == FlattenSeq(p)
               y == FlattenSeq(r)
    <3>1. x \in Seq(T) /\ y \in Seq(T)
      BY <1>8
    <3> HIDE DEF x, y, S, Wrong
    <3>2. (x \o y) \o b = x \o (y \o b)
      BY <3>1, ConcatAssociative
    <3> QED
      BY <3>2 DEF x, y
  <2> QED
    BY <1>2, <1>6, <1>9, <1>10, <1>12, <2>1, <2>2
<1> QED
  BY <1>11, <1>12

\* Empty parts add nothing.
LEMMA FlattenAllEmpty ==
  ASSUME NEW T
  PROVE  \A q \in Seq(Seq(T)) : (\A i \in 1..Len(q) : q[i] = <<>>) => FlattenSeq(q) = <<>>
<1> DEFINE Wrong(q) == (\A i \in 1..Len(q) : q[i] = <<>>) /\ FlattenSeq(q) # <<>>
           S == {n \in Nat : \E q \in Seq(Seq(T)) : Len(q) = n /\ Wrong(q)}
<1> SUFFICES ASSUME S # {} PROVE FALSE
  BY EmptySeq
<1>1. PICK n \in S : \A m \in S : n <= m
  <2>1. S \in SUBSET Nat
    OBVIOUS
  <2> HIDE DEF S
  <2> QED
    BY <2>1, LeastNumber
<1>2. PICK q \in Seq(Seq(T)) : Len(q) = n /\ Wrong(q)
  OBVIOUS
<1>n. n \in Nat
  OBVIOUS
<1>3. q # <<>>
  BY <1>2, FlattenEmpty
<1>4. PICK r \in Seq(Seq(T)), b \in Seq(T) : q = Append(r, b)
  BY <1>3, SequenceEmptyOrAppend
<1>5. /\ Len(r) \in Nat /\ Len(r) < n /\ Len(q) = Len(r) + 1 /\ q[Len(q)] = b
      /\ \A i \in 1..Len(r) : r[i] = q[i]
  <2> HIDE DEF S, Wrong
  <2>1. /\ Len(q) = Len(r) + 1 /\ Len(r) \in Nat /\ q[Len(r) + 1] = b
        /\ \A i \in 1..Len(r) : q[i] = r[i]
    BY <1>4, AppendProperties, LenProperties
  <2> QED
    BY <1>2, <2>1
<1>6. b = <<>> /\ \A i \in 1..Len(r) : r[i] = <<>>
  <2>1. \A i \in 1..Len(q) : q[i] = <<>>
    BY <1>2
  <2> HIDE DEF S
  <2> QED
    BY <1>5, <2>1
<1>7. FlattenSeq(r) = <<>>
  <2>1. Len(r) \notin S
    <3> HIDE DEF S
    <3> QED
      BY <1>1, <1>5, <1>n
  <2> HIDE DEF Wrong
  <2>2. ~Wrong(r)
    BY <1>5, <2>1
  <2> QED
    BY <1>6, <2>2 DEF Wrong
<1>8. FlattenSeq(q) = IF r = <<>> THEN b ELSE FlattenSeq(r) \o b
  BY <1>4, FlattenAppend
<1> QED
  BY <1>2, <1>6, <1>7, <1>8

\* The k-th part comes first when those before it are empty.
LEMMA FlattenFrom ==
  ASSUME NEW T, NEW q \in Seq(Seq(T)), NEW k \in 1..Len(q),
         \A i \in 1..(k - 1) : q[i] = <<>>
  PROVE  FlattenSeq(q) = q[k] \o FlattenSeq(SubSeq(q, k + 1, Len(q)))
<1> DEFINE p == SubSeq(q, 1, k - 1)
           r == SubSeq(q, k + 1, Len(q))
<1>1. Len(q) \in Nat /\ k \in Nat /\ k - 1 \in Nat /\ \A i \in 1..Len(q) : q[i] \in Seq(T)
  BY LenProperties, ElementOfSeq
<1>2. /\ p \in Seq(Seq(T)) /\ r \in Seq(Seq(T)) /\ SubSeq(q, k, Len(q)) \in Seq(Seq(T))
      /\ Len(p) = k - 1 /\ \A i \in 1..Len(p) : p[i] = q[i]
  BY <1>1, SubSeqProperties
<1>3. SubSeq(q, k, Len(q)) = <<q[k]>> \o r
  BY <1>1, SubSeqRecursiveFirst
<1>4. q = p \o SubSeq(q, k, Len(q))
  <2>1. SubSeq(q, 1, Len(q)) = q
    BY SubSeqFull
  <2>2. /\ 1 \in 1..(Len(q) + 1) /\ k - 1 \in (1 - 1)..Len(q) /\ Len(q) \in (k - 1)..Len(q)
        /\ (k - 1) + 1 = k
    BY <1>1
  <2>3. SubSeq(q, 1, k - 1) \o SubSeq(q, (k - 1) + 1, Len(q)) = SubSeq(q, 1, Len(q))
    BY <2>2, ConcatAdjacentSubSeq, Zenon
  <2> QED
    BY <2>1, <2>2, <2>3
<1>5. FlattenSeq(p) = <<>>
  BY <1>1, <1>2, FlattenAllEmpty
<1>6. <<q[k]>> \in Seq(Seq(T)) /\ FlattenSeq(<<q[k]>>) = q[k]
  BY <1>1, FlattenOne
<1> HIDE DEF p, r
<1>7. FlattenSeq(SubSeq(q, k, Len(q))) = q[k] \o FlattenSeq(r)
  BY <1>2, <1>3, <1>6, FlattenConcat
<1>8. FlattenSeq(q) = FlattenSeq(p) \o FlattenSeq(SubSeq(q, k, Len(q)))
  BY <1>2, <1>4, FlattenConcat
<1>9. FlattenSeq(SubSeq(q, k, Len(q))) \in Seq(T)
  BY <1>2, FlattenType
<1>10. <<>> \o FlattenSeq(SubSeq(q, k, Len(q))) = FlattenSeq(SubSeq(q, k, Len(q)))
  BY <1>9, ConcatEmptySeq
<1> QED
  BY <1>5, <1>7, <1>8, <1>10 DEF r

\* When the parts before k are empty, those from k on are all there is.
LEMMA FlattenSuffix ==
  ASSUME NEW T, NEW q \in Seq(Seq(T)), NEW k \in 1..(Len(q) + 1),
         \A i \in 1..(k - 1) : q[i] = <<>>
  PROVE  FlattenSeq(q) = FlattenSeq(SubSeq(q, k, Len(q)))
<1>1. Len(q) \in Nat /\ \A i \in 1..Len(q) : q[i] \in Seq(T)
  BY LenProperties, ElementOfSeq
<1>2. CASE k = Len(q) + 1
  <2>1. SubSeq(q, k, Len(q)) = <<>>
    BY <1>1, <1>2, SubSeqEmpty
  <2> QED
    <3>1. \A i \in 1..Len(q) : q[i] = <<>>
      BY <1>1, <1>2
    <3>2. FlattenSeq(q) = <<>>
      BY <3>1, FlattenAllEmpty
    <3> QED
      BY <2>1, <3>2, FlattenEmpty
<1>3. CASE k \in 1..Len(q)
  <2> DEFINE r == SubSeq(q, k + 1, Len(q))
  <2>1. SubSeq(q, k, Len(q)) = <<q[k]>> \o r /\ r \in Seq(Seq(T))
    BY <1>1, <1>3, SubSeqRecursiveFirst, SubSeqProperties
  <2>2. <<q[k]>> \in Seq(Seq(T)) /\ FlattenSeq(<<q[k]>>) = q[k]
    BY <1>1, <1>3, FlattenOne
  <2>3. FlattenSeq(q) = q[k] \o FlattenSeq(r)
    BY <1>3, FlattenFrom
  <2> HIDE DEF r
  <2> QED
    BY <2>1, <2>2, <2>3, FlattenConcat
<1> QED
  BY <1>1, <1>2, <1>3
=============================================================================
