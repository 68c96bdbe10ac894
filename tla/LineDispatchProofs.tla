------------------------- MODULE LineDispatchProofs -------------------------
(***************************************************************************)
(* What holds of LineDispatch for any lines, replies and envelopes, of any *)
(* length, and for buffers of any size.                                    *)
(***************************************************************************)
EXTENDS LineDispatch, FlattenLemmas

\* What Decode returns: characters, or the mark of an escape it does not know.
Decoded == Char \cup {"bad"}

LEMMA TokenTypes ==
  /\ \A k \in TokenKinds : Mark(k) \in Token
  /\ \A s \in Seq(Char) : Str(s) \in Token /\ Str(s) \in FieldValue
  /\ \A i \in Int : Int64(i) \in Token /\ Int64(i) \in FieldValue
<1>1. \A k \in TokenKinds : Mark(k) \in Token
  BY DEF Mark, Token
<1>2. \A s \in Seq(Char) : Str(s) \in Token /\ Str(s).s = s
  BY DEF Str, Token, TokenKinds
<1>3. \A i \in Int : Int64(i) \in Token /\ Int64(i).n = i
  BY DEF Int64, Token, TokenKinds
<1> QED
  BY <1>1, <1>2, <1>3 DEF FieldValue

LEMMA EscapeType ==
  ASSUME NEW chars \in Seq(Char)
  PROVE  Escape(chars) \in Seq(Char)
<1> DEFINE q == [i \in DOMAIN chars |->
                   IF chars[i] \in DOMAIN Escaped THEN <<"backslash", Escaped[chars[i]]>>
                                                  ELSE <<chars[i]>>]
<1>1. q \in Seq(Seq(Char))
  <2>1. DOMAIN chars = 1..Len(chars) /\ Len(chars) \in Nat
    OBVIOUS
  <2>2. \A i \in 1..Len(chars) : chars[i] \in Char
    OBVIOUS
  <2>3. \A i \in DOMAIN chars : q[i] \in Seq(Char)
    BY <2>2, CharAssumption DEF Escaped
  <2> QED
    BY <2>1, <2>3
<1> QED
  BY <1>1, FlattenType DEF Escape

\* The escapes that Decode knows.
KnownEscapes == [c \in {"quote", "backslash", "n"} |->
                   CHOOSE d \in DOMAIN Escaped : Escaped[d] = c]

\* The characters from position i on, when f has them for the later positions.
DecodeStep(chars, i, f) ==
  IF i > Len(chars) THEN <<>>
  ELSE IF chars[i] # "backslash" THEN <<chars[i]>> \o f[i + 1]
  ELSE IF i < Len(chars) /\ chars[i + 1] \in DOMAIN KnownEscapes
       THEN <<KnownEscapes[chars[i + 1]]>> \o f[i + 2]
  ELSE <<"bad">>

LEMMA KnownType == \A c \in DOMAIN KnownEscapes : KnownEscapes[c] \in Char
<1>1. \A c \in {"quote", "backslash", "n"} : \E d \in DOMAIN Escaped : Escaped[d] = c
  BY DEF Escaped
<1>2. DOMAIN Escaped \subseteq Char
  BY CharAssumption DEF Escaped
<1> QED
  BY <1>1, <1>2 DEF KnownEscapes

LEMMA DecodeFrom ==
  ASSUME NEW chars \in Seq(Char)
  PROVE  \E f \in [1..(Len(chars) + 2) -> Seq(Decoded)] :
           f = [i \in 1..(Len(chars) + 2) |-> DecodeStep(chars, i, f)]
<1> DEFINE n == Len(chars)
           D == Seq(Decoded)
           \* The pair of what is decoded from i and from i + 1 on.
           Step(i, p) == IF chars[i] # "backslash" THEN <<chars[i]>> \o p[1]
                         ELSE IF i < n /\ chars[i + 1] \in DOMAIN KnownEscapes
                              THEN <<KnownEscapes[chars[i + 1]]>> \o p[2]
                         ELSE <<"bad">>
           P == D \X D
           F == [j \in 1..n |-> [p \in P |-> <<Step(n + 1 - j, p), p[1]>>]]
           none == <<<<>>, <<>>>>
<1>1. n \in Nat /\ \A i \in 1..n : chars[i] \in Char
  OBVIOUS
<1>2. ASSUME NEW i \in 1..n, NEW p \in P PROVE Step(i, p) \in D
  <2>1. /\ <<chars[i]>> \in Seq(Decoded) /\ <<"bad">> \in Seq(Decoded)
        /\ \A c \in DOMAIN KnownEscapes : <<KnownEscapes[c]>> \in Seq(Decoded)
    BY <1>1, KnownType DEF Decoded
  <2>2. p[1] \in Seq(Decoded) /\ p[2] \in Seq(Decoded)
    OBVIOUS
  <2> QED
    BY <2>1, <2>2, ConcatProperties
<1>3. F \in [1..n -> [P -> P]]
  <2>1. \A j \in 1..n : n + 1 - j \in 1..n
    BY <1>1
  <2>2. \A p \in P : p[1] \in D
    OBVIOUS
  <2> HIDE DEF Step, D
  <2>3. \A j \in 1..n, p \in P : <<Step(n + 1 - j, p), p[1]>> \in P
    BY <1>2, <2>1, <2>2
  <2> HIDE DEF P
  <2> QED
    BY <2>3
<1>4. none \in P /\ none[1] = <<>> /\ none[2] = <<>>
  <2>1. <<>> \in D
    OBVIOUS
  <2> HIDE DEF D
  <2> QED
    BY <2>1
<1>5. \A j \in 1..n, p \in P : F[j][p] = <<Step(n + 1 - j, p), p[1]>>
  <2> HIDE DEF Step, P
  <2> QED
    OBVIOUS
<1> HIDE DEF F, none
<1>6. PICK g \in [0..n -> P] :
        g[0] = none /\ \A j \in 1..n : g[j] = F[j][g[j - 1]]
  <2> HIDE DEF P, n
  <2>1. n \in Nat /\ none \in P
    BY <1>1, <1>4
  <2> QED
    BY <1>3, <2>1, StepsExist
<1>7. /\ g[0][1] = <<>> /\ g[0][2] = <<>>
      /\ \A j \in 0..n : g[j] \in P /\ g[j][1] \in D
      /\ \A j \in 1..n : g[j][1] = Step(n + 1 - j, g[j - 1]) /\ g[j][2] = g[j - 1][1]
  <2>1. \A j \in 1..n : j - 1 \in 0..n
    BY <1>1
  <2>2. \A p \in P : p[1] \in D
    OBVIOUS
  <2> HIDE DEF P, Step, D
  <2>3. \A j \in 0..n : g[j] \in P
    OBVIOUS
  <2>4. \A j \in 1..n : g[j] = <<Step(n + 1 - j, g[j - 1]), g[j - 1][1]>>
    BY <1>5, <1>6, <2>1, <2>3
  <2> QED
    <3>1. /\ g[0][1] = <<>> /\ g[0][2] = <<>>
          /\ \A j \in 0..n : g[j] \in P /\ g[j][1] \in D
      BY <1>4, <1>6, <2>2, <2>3
    <3>2. \A j \in 1..n : g[j][1] = Step(n + 1 - j, g[j - 1]) /\ g[j][2] = g[j - 1][1]
      <4> TAKE j \in 1..n
      <4>1. g[j] = <<Step(n + 1 - j, g[j - 1]), g[j - 1][1]>>
        BY <2>4
      <4> QED
        BY <4>1
    <3> QED
      BY <3>1, <3>2
<1> DEFINE f == [i \in 1..(n + 2) |-> IF i > n THEN <<>> ELSE g[n + 1 - i][1]]
<1> HIDE DEF P, D
<1>8. ASSUME NEW i \in 1..n PROVE f[i] = Step(i, <<f[i + 1], f[i + 2]>>)
  <2> HIDE DEF Step
  <2>1. /\ n + 1 - i \in 1..n /\ n + 1 - i - 1 = n - i /\ n - i \in 0..n
        /\ n + 1 - (n + 1 - i) = i /\ f[i] = g[n + 1 - i][1]
    BY <1>1
  <2>2. f[i] = Step(i, g[n - i])
    BY <1>7, <2>1
  <2>3. f[i + 1] = g[n - i][1]
    <3>1. CASE i = n
      BY <1>1, <1>7, <3>1
    <3>2. CASE i < n
      <4>1. i + 1 \in 1..(n + 2) /\ ~(i + 1 > n) /\ n + 1 - (i + 1) = n - i
        BY <1>1, <3>2
      <4> QED
        BY <4>1
    <3> QED
      BY <1>1, <3>1, <3>2
  <2>4. f[i + 2] = g[n - i][2]
    <3>1. CASE i = n
      <4>1. i + 2 \in 1..(n + 2) /\ i + 2 > n /\ n - i = 0
        BY <1>1, <3>1
      <4> QED
        BY <1>7, <4>1
    <3>2. CASE i < n
      <4>1. n - i \in 1..n /\ g[n - i][2] = g[n - i - 1][1]
        <5>1. n - i \in 1..n
          BY <1>1, <3>2
        <5> QED
          BY <1>7, <5>1
      <4>2. CASE i + 1 = n
        <5>1. i + 2 \in 1..(n + 2) /\ i + 2 > n /\ n - i - 1 = 0
          BY <1>1, <4>2
        <5> QED
          BY <1>7, <4>1, <5>1
      <4>3. CASE i + 1 < n
        <5>1. i + 2 \in 1..(n + 2) /\ ~(i + 2 > n) /\ n + 1 - (i + 2) = n - i - 1
          BY <1>1, <4>3
        <5> QED
          BY <4>1, <5>1
      <4> QED
        BY <1>1, <3>2, <4>2, <4>3
    <3> QED
      BY <1>1, <3>1, <3>2
  <2>5. Step(i, g[n - i]) = Step(i, <<f[i + 1], f[i + 2]>>)
    BY <2>3, <2>4 DEF Step
  <2> QED
    BY <2>2, <2>5
<1>9. f \in [1..(n + 2) -> D]
  <2>1. <<>> \in D
    BY DEF D
  <2>2. \A i \in 1..(n + 2) : i > n \/ n + 1 - i \in 0..n
    BY <1>1
  <2> QED
    BY <1>7, <2>1, <2>2
<1>10. \A i \in 1..(n + 2) : f[i] = DecodeStep(chars, i, f)
  <2> SUFFICES ASSUME NEW i \in 1..(n + 2) PROVE f[i] = DecodeStep(chars, i, f)
    OBVIOUS
  <2>1. CASE i > n
    BY <2>1 DEF DecodeStep
  <2>2. CASE i \in 1..n
    <3> HIDE DEF f
    <3>1. f[i] = Step(i, <<f[i + 1], f[i + 2]>>)
      BY <1>8, <2>2
    <3> QED
      BY <1>1, <2>2, <3>1 DEF DecodeStep
  <2> QED
    BY <1>1, <2>1, <2>2
<1>11. f = [i \in 1..(n + 2) |-> f[i]]
  OBVIOUS
<1> HIDE DEF f
<1>12. f = [i \in 1..(n + 2) |-> DecodeStep(chars, i, f)]
  BY <1>10, <1>11
<1> QED
  BY <1>9, <1>12 DEF D

LEMMA DecodeType == \A chars \in Seq(Char) : Decode(chars) \in Seq(Decoded)
<1> SUFFICES ASSUME NEW chars \in Seq(Char) PROVE Decode(chars) \in Seq(Decoded)
  OBVIOUS
<1> DEFINE N == Len(chars) + 2
           Is(f) == f = [i \in 1..N |-> DecodeStep(chars, i, f)]
           From == CHOOSE f : Is(f)
<1>1. PICK h \in [1..N -> Seq(Decoded)] : Is(h)
  BY DecodeFrom
<1>2. Is(From)
  BY <1>1, Zenon
<1>3. Decode(chars) = IF "backslash" \in ToSet(chars) THEN From[1] ELSE chars
  BY DEF Decode, DecodeStep, KnownEscapes
<1> DEFINE n == Len(chars)
           D == Seq(Decoded)
           Bad == {j \in Nat : j <= n + 1 /\ From[n + 2 - j] \notin D}
<1>4. n \in Nat /\ N = n + 2 /\ \A i \in 1..n : chars[i] \in Char
  OBVIOUS
<1> HIDE DEF From, N, n
<1>5. Bad = {}
  <2> SUFFICES ASSUME Bad # {} PROVE FALSE
    OBVIOUS
  <2>1. PICK j \in Bad : \A k \in Bad : j <= k
    <3>1. Bad \in SUBSET Nat
      OBVIOUS
    <3> HIDE DEF Bad
    <3> QED
      BY <3>1, LeastNumber
  <2> DEFINE i == n + 2 - j
  <2>2. j \in Nat /\ j <= n + 1 /\ From[i] \notin D /\ i \in 1..N
    BY <1>4
  <2>3. From[i] = DecodeStep(chars, i, From)
    BY <1>2, <2>2
  <2>4. i <= n => From[i + 1] \in D
    <3>1. i <= n => j - 1 \in Nat /\ j - 1 <= n + 1 /\ j - 1 \notin Bad /\ n + 2 - (j - 1) = i + 1
      <4> HIDE DEF Bad
      <4> QED
        BY <1>4, <2>1, <2>2
    <3> HIDE DEF D
    <3> QED
      BY <3>1
  <2>5. i < n => From[i + 2] \in D
    <3>1. i < n => j - 2 \in Nat /\ j - 2 <= n + 1 /\ j - 2 \notin Bad /\ n + 2 - (j - 2) = i + 2
      <4> HIDE DEF Bad
      <4> QED
        BY <1>4, <2>1, <2>2
    <3> HIDE DEF D
    <3> QED
      BY <3>1
  <2>6. /\ i <= n => <<chars[i]>> \in D
        /\ <<"bad">> \in D /\ <<>> \in D /\ \A c \in DOMAIN KnownEscapes : <<KnownEscapes[c]>> \in D
    BY <1>4, <2>2, KnownType DEF Decoded
  <2>7. /\ i <= n => <<chars[i]>> \o From[i + 1] \in D
        /\ i < n => \A c \in DOMAIN KnownEscapes : <<KnownEscapes[c]>> \o From[i + 2] \in D
    <3> HIDE DEF i
    <3> QED
      BY <2>4, <2>5, <2>6, ConcatProperties
  <2> HIDE DEF i, D
  <2>8. i \in Int /\ Len(chars) = n
    BY <2>2 DEF i, N, n
  <2>9. From[i] \notin D
    BY <2>2
  <2> DEFINE one == <<chars[i]>> \o From[i + 1]
             two(c) == <<KnownEscapes[c]>> \o From[i + 2]
  <2>10. /\ i <= n => one \in D
         /\ i < n => \A c \in DOMAIN KnownEscapes : two(c) \in D
    BY <2>7
  <2>11. From[i] = IF i > n THEN <<>>
                   ELSE IF chars[i] # "backslash" THEN one
                   ELSE IF i < n /\ chars[i + 1] \in DOMAIN KnownEscapes
                        THEN two(chars[i + 1])
                   ELSE <<"bad">>
    BY <2>3, <2>8 DEF DecodeStep
  <2> HIDE DEF one, two
  <2> QED
    BY <1>4, <2>6, <2>8, <2>9, <2>10, <2>11
<1>6. n + 1 \in Nat /\ n + 1 \notin Bad /\ n + 2 - (n + 1) = 1
  <2> HIDE DEF Bad
  <2> QED
    BY <1>4, <1>5
<1>7. From[1] \in D
  <2> HIDE DEF D
  <2> QED
    BY <1>4, <1>6
<1>8. chars \in D
  BY <1>4, SeqMonotonic DEF Decoded
<1> QED
  BY <1>3, <1>7, <1>8

-----------------------------------------------------------------------------
\* The tokens of an object.

PartOf(f, first) == IF first THEN FieldTokens(f) ELSE <<Mark(",")>> \o FieldTokens(f)
Parts(fs) == [i \in DOMAIN fs |-> PartOf(fs[i], i = 1)]
Body(fs) == FlattenSeq(Parts(fs))

LEMMA ObjectIsParts ==
  ASSUME NEW fs
  PROVE  ObjectTokens(fs) = <<Mark("{")>> \o Body(fs) \o <<Mark("}")>>
<1> DEFINE Part(i) == IF i = 1 THEN FieldTokens(fs[1])
                               ELSE <<Mark(",")>> \o FieldTokens(fs[i])
<1>1. \A i \in DOMAIN fs : Part(i) = PartOf(fs[i], i = 1)
  BY DEF PartOf
<1>2. [i \in DOMAIN fs |-> Part(i)] = Parts(fs)
  BY <1>1, Zenon DEF Parts
<1>3. ObjectTokens(fs) = <<Mark("{")>> \o FlattenSeq([i \in DOMAIN fs |-> Part(i)]) \o <<Mark("}")>>
  BY DEF ObjectTokens
<1> QED
  BY <1>2, <1>3 DEF Body

LEMMA FieldTypes ==
  ASSUME NEW f \in FieldType
  PROVE  /\ f.key \in Seq(Char) /\ f.val \in FieldValue /\ f.val \in Token
         /\ Str(f.key) \in Token
<1>1. f.key \in Seq(Char) /\ f.val \in FieldValue
  BY DEF FieldType
<1> QED
  BY <1>1, TokenTypes DEF FieldValue

LEMMA PartShape ==
  ASSUME NEW f \in FieldType
  PROVE  /\ PartOf(f, TRUE) \in Seq(Token) /\ PartOf(f, TRUE) = <<Str(f.key), Mark(":"), f.val>>
         /\ PartOf(f, FALSE) \in Seq(Token)
         /\ PartOf(f, FALSE) = <<Mark(","), Str(f.key), Mark(":"), f.val>>
<1> DEFINE a == Str(f.key)
           b == Mark(":")
           c == f.val
           d == Mark(",")
<1>1. a \in Token /\ b \in Token /\ c \in Token /\ d \in Token
  BY FieldTypes, TokenTypes DEF TokenKinds
<1>2. PartOf(f, TRUE) = <<a, b, c>> /\ PartOf(f, FALSE) = <<d>> \o <<a, b, c>>
  BY DEF PartOf, FieldTokens
<1> HIDE DEF a, b, c, d
<1>3. <<a, b, c>> \in Seq(Token) /\ <<d, a, b, c>> \in Seq(Token) /\ <<d>> \in Seq(Token)
  BY <1>1
<1>4. <<d>> \o <<a, b, c>> = <<d, a, b, c>>
  <2> DEFINE x == <<d>> \o <<a, b, c>>
             y == <<d, a, b, c>>
  <2>1. /\ x \in Seq(Token) /\ Len(x) = 4
        /\ x[1] = d /\ x[2] = a /\ x[3] = b /\ x[4] = c
    BY <1>3
  <2>2. y \in Seq(Token) /\ Len(y) = 4 /\ y[1] = d /\ y[2] = a /\ y[3] = b /\ y[4] = c
    BY <1>3
  <2> HIDE DEF x, y
  <2>3. \A i \in 1..4 : x[i] = y[i]
    BY <2>1, <2>2
  <2>4. x = y
    BY <2>1, <2>2, <2>3, SeqEqual
  <2> QED
    BY <2>4 DEF x, y
<1> QED
  BY <1>2, <1>3, <1>4 DEF a, b, c, d

\* Where the tokens of each field stand behind the opening brace.
BodyLen(n) == IF n = 0 THEN 0 ELSE 4 * n - 1
FieldsAt(b, fs, base) ==
  \A i \in 1..Len(fs) :
    /\ b[base + 4 * i - 3] = Str(fs[i].key) /\ b[base + 4 * i - 2] = Mark(":")
    /\ b[base + 4 * i - 1] = fs[i].val
    /\ i > 1 => b[base + 4 * i - 4] = Mark(",")
LEMMA FieldsAtZero ==
  ASSUME NEW b, NEW fs
  PROVE  FieldsAt(b, fs, 0) <=>
           \A i \in 1..Len(fs) :
             /\ b[4 * i - 3] = Str(fs[i].key) /\ b[4 * i - 2] = Mark(":")
             /\ b[4 * i - 1] = fs[i].val
             /\ i > 1 => b[4 * i - 4] = Mark(",")
<1>1. \A i \in 1..Len(fs) : /\ 0 + 4 * i - 3 = 4 * i - 3 /\ 0 + 4 * i - 2 = 4 * i - 2
                            /\ 0 + 4 * i - 1 = 4 * i - 1 /\ 0 + 4 * i - 4 = 4 * i - 4
  OBVIOUS
<1> QED
  BY <1>1 DEF FieldsAt
BodyIs(fs) ==
  Body(fs) \in Seq(Token) /\ Len(Body(fs)) = BodyLen(Len(fs)) /\ FieldsAt(Body(fs), fs, 0)

LEMMA BodyAppend ==
  ASSUME NEW gs \in Seq(FieldType), NEW f \in FieldType
  PROVE  Body(Append(gs, f)) = Body(gs) \o PartOf(f, gs = <<>>) /\ Parts(gs) \in Seq(Seq(Token))
<1> DEFINE fs == Append(gs, f)
           n == Len(gs)
<1>1. /\ n \in Nat /\ Len(fs) = n + 1 /\ fs \in Seq(FieldType) /\ fs[n + 1] = f
      /\ \A i \in 1..n : fs[i] = gs[i] /\ gs[i] \in FieldType
  BY AppendProperties, ElementOfSeq
<1>2. Parts(gs) \in Seq(Seq(Token)) /\ Len(Parts(gs)) = n
  <2>1. \A i \in 1..n : PartOf(gs[i], i = 1) \in Seq(Token)
    BY <1>1, PartShape
  <2>2. DOMAIN gs = 1..n
    BY <1>1
  <2> HIDE DEF n
  <2>3. Parts(gs) = [i \in 1..n |-> PartOf(gs[i], i = 1)]
    BY <2>2 DEF Parts
  <2> QED
    BY <1>1, <2>1, <2>3
<1>3. PartOf(f, gs = <<>>) \in Seq(Token)
  BY PartShape
<1>4. Parts(fs) = Append(Parts(gs), PartOf(f, gs = <<>>))
  <2> DEFINE x == Parts(fs)
             y == Append(Parts(gs), PartOf(f, gs = <<>>))
  <2>1. DOMAIN fs = 1..(n + 1) /\ DOMAIN gs = 1..n
    BY <1>1
  <2>2. /\ y \in Seq(Seq(Token)) /\ Len(y) = n + 1 /\ y[n + 1] = PartOf(f, gs = <<>>)
        /\ \A i \in 1..n : y[i] = Parts(gs)[i]
    BY <1>2, <1>3, AppendProperties
  <2>3. \A i \in 1..n : y[i] = PartOf(gs[i], i = 1)
    <3> HIDE DEF y, n
    <3> QED
      BY <2>1, <2>2 DEF Parts
  <2>4. gs = <<>> <=> n + 1 = 1
    BY <1>1, EmptySeq
  <2> HIDE DEF y, fs, n
  <2>5. \A i \in 1..(n + 1) : x[i] = PartOf(fs[i], i = 1)
    BY <2>1 DEF Parts
  <2>6. \A i \in 1..(n + 1) : x[i] = y[i]
    <3> TAKE i \in 1..(n + 1)
    <3>1. CASE i = n + 1
      BY <1>1, <2>2, <2>4, <2>5, <3>1
    <3>2. CASE i \in 1..n
      BY <1>1, <2>3, <2>5, <3>2
    <3> QED
      BY <1>1, <3>1, <3>2
  <2>7. x = [i \in 1..(n + 1) |-> x[i]] /\ y = [i \in 1..(n + 1) |-> y[i]]
    BY <2>1, <2>2 DEF Parts
  <2>8. x = y
    <3> HIDE DEF x
    <3> QED
      BY <2>6, <2>7
  <2> QED
    BY <2>8 DEF y
<1>5. FlattenSeq(Parts(fs)) = IF Parts(gs) = <<>> THEN PartOf(f, gs = <<>>)
                              ELSE FlattenSeq(Parts(gs)) \o PartOf(f, gs = <<>>)
  <2> DEFINE p == PartOf(f, gs = <<>>)
             q == Parts(gs)
  <2>1. p \in Seq(Token) /\ q \in Seq(Seq(Token)) /\ Parts(fs) = Append(q, p)
    BY <1>2, <1>3, <1>4
  <2> HIDE DEF fs, p, q
  <2>2. FlattenSeq(Append(q, p)) = IF q = <<>> THEN p ELSE FlattenSeq(q) \o p
    BY <2>1, FlattenAppend
  <2>3. FlattenSeq(Parts(fs)) = IF q = <<>> THEN p ELSE FlattenSeq(q) \o p
    BY <2>1, <2>2
  <2> QED
    BY <2>3 DEF p, q
<1>6. <<>> \o PartOf(f, gs = <<>>) = PartOf(f, gs = <<>>)
  BY <1>3, ConcatEmptySeq
<1> HIDE DEF fs
<1>7. Body(fs) = Body(gs) \o PartOf(f, gs = <<>>)
  BY <1>5, <1>6, FlattenEmpty DEF Body
<1> QED
  BY <1>2, <1>7 DEF fs

\* The elements of two sequences one after the other.
Follows(d, p, q, k, l) ==
  /\ Len(d) = k + l /\ k \in Nat /\ l \in Nat
  /\ \A i \in 1..k : d[i] = p[i]
  /\ \A i \in 1..l : d[k + i] = q[i]
LEMMA ConcatAt ==
  ASSUME NEW T, NEW p \in Seq(T), NEW q \in Seq(T), NEW d, d = p \o q,
         NEW k, k = Len(p), NEW l, l = Len(q)
  PROVE  d \in Seq(T) /\ Follows(d, p, q, k, l)
<1>1. k \in Nat /\ l \in Nat
  BY LenProperties
<1>2. /\ d \in Seq(T) /\ Len(d) = k + l
      /\ \A i \in 1..(k + l) : d[i] = IF i <= k THEN p[i] ELSE q[i - k]
  BY ConcatProperties
<1>3. \A i \in 1..k : d[i] = p[i]
  BY <1>1, <1>2
<1>4. ASSUME NEW i \in 1..l PROVE d[k + i] = q[i]
  <2>1. k + i \in 1..(k + l) /\ ~(k + i <= k) /\ (k + i) - k = i
    BY <1>1
  <2> QED
    BY <1>2, <2>1
<1> QED
  BY <1>1, <1>2, <1>3, <1>4 DEF Follows

LEMMA OneElement ==
  ASSUME NEW T, NEW t \in T
  PROVE  <<t>> \in Seq(T) /\ Len(<<t>>) = 1 /\ <<t>>[1] = t
  OBVIOUS

LEMMA BodyShape == \A fs \in Seq(FieldType) : BodyIs(fs)
<1> DEFINE Bad == {n \in Nat : \E fs \in Seq(FieldType) : Len(fs) = n /\ ~BodyIs(fs)}
<1> SUFFICES ASSUME Bad # {} PROVE FALSE
  BY EmptySeq
<1>1. PICK n \in Bad : \A m \in Bad : n <= m
  <2>1. Bad \in SUBSET Nat
    OBVIOUS
  <2> HIDE DEF Bad
  <2> QED
    BY <2>1, LeastNumber
<1>2. PICK fs \in Seq(FieldType) : Len(fs) = n /\ ~BodyIs(fs)
  OBVIOUS
<1>3. n \in Nat
  OBVIOUS
<1>4. CASE fs = <<>>
  <2>1. Parts(<<>>) = <<>>
    BY DEF Parts
  <2>2. Body(<<>>) = <<>>
    BY <2>1, FlattenEmpty DEF Body
  <2>3. BodyIs(<<>>)
    <3>1. Len(<<>>) = 0 /\ <<>> \in Seq(Token) /\ BodyLen(0) = 0
      BY DEF BodyLen
    <3>2. FieldsAt(<<>>, <<>>, 0)
      <4>1. \A i \in 1..Len(<<>>) : FALSE
        BY <3>1
      <4> QED
        BY <4>1, Zenon DEF FieldsAt
    <3> QED
      BY <2>2, <3>1, <3>2 DEF BodyIs
  <2> QED
    BY <1>2, <1>4, <2>3
<1>5. CASE fs # <<>>
  <2>1. PICK gs \in Seq(FieldType), f \in FieldType : fs = Append(gs, f)
    BY <1>5, SequenceEmptyOrAppend
  <2> DEFINE m == Len(gs)
  <2>2. /\ m \in Nat /\ n = m + 1 /\ fs[m + 1] = f
        /\ \A i \in 1..m : fs[i] = gs[i]
    <3> HIDE DEF Bad
    <3>1. Len(fs) = m + 1 /\ m \in Nat /\ fs[m + 1] = f /\ \A i \in 1..m : fs[i] = gs[i]
      BY <2>1, AppendProperties, LenProperties
    <3> QED
      BY <1>2, <3>1
  <2>3. BodyIs(gs)
    <3>1. m \notin Bad
      <4> HIDE DEF Bad
      <4> QED
        BY <1>1, <1>3, <2>2
    <3> QED
      BY <2>2, <3>1
  <2> HIDE DEF Bad
  <2> DEFINE c == Body(gs)
             p == PartOf(f, gs = <<>>)
             b == Body(fs)
  <2>4. b = c \o p
    BY <2>1, BodyAppend
  <2>5. /\ c \in Seq(Token) /\ Len(c) = BodyLen(m) /\ FieldsAt(c, gs, 0)
        /\ p \in Seq(Token)
    BY <2>3, PartShape DEF BodyIs
  <2>6. CASE gs = <<>>
    <3>1. m = 0 /\ p = <<Str(f.key), Mark(":"), f.val>> /\ Len(c) = 0
      BY <2>5, <2>6, PartShape DEF BodyLen
    <3> HIDE DEF c, p, b
    <3>2. b = p
      <4>1. c = <<>>
        BY <2>5, <3>1, EmptySeq
      <4> QED
        BY <2>4, <2>5, <4>1, ConcatEmptySeq
    <3>3. b \in Seq(Token) /\ Len(b) = BodyLen(n)
      BY <2>2, <2>5, <3>1, <3>2 DEF BodyLen
    <3>4. FieldsAt(b, fs, 0)
      <4>1. b[1] = Str(f.key) /\ b[2] = Mark(":") /\ b[3] = f.val /\ fs[1] = f /\ Len(fs) = 1
        BY <1>2, <2>2, <3>1, <3>2
      <4>2. \A i \in 1..1 : i = 1
        OBVIOUS
      <4> QED
        BY <4>1, <4>2 DEF FieldsAt
    <3> QED
      BY <1>2, <3>3, <3>4 DEF BodyIs, b
  <2>7. CASE gs # <<>>
    <3>1. m # 0 /\ p = <<Mark(","), Str(f.key), Mark(":"), f.val>>
      <4>1. m # 0
        BY <2>7, EmptySeq
      <4>2. p = PartOf(f, FALSE)
        BY <2>7
      <4> HIDE DEF p, m
      <4>3. p = <<Mark(","), Str(f.key), Mark(":"), f.val>>
        BY <4>2, PartShape
      <4> QED
        BY <4>1, <4>3
    <3> DEFINE k == 4 * m - 1
    <3> HIDE DEF c, p, b, m
    <3>2. Len(c) = k /\ k \in Nat
      <4>1. Len(c) = BodyLen(m)
        BY <2>5
      <4>2. BodyLen(m) = 4 * m - 1 /\ 4 * m - 1 \in Nat
        <5>1. m \in Nat /\ m # 0
          BY <2>2, <3>1
        <5>2. 4 * m - 1 \in Nat
          BY <5>1
        <5> QED
          BY <5>1, <5>2 DEF BodyLen
      <4> QED
        BY <4>1, <4>2
    <3>3. Len(p) = 4 /\ p[1] = Mark(",") /\ p[2] = Str(f.key) /\ p[3] = Mark(":") /\ p[4] = f.val
      BY <3>1
    <3>4. /\ b \in Seq(Token) /\ Len(b) = k + 4
          /\ \A i \in 1..k : b[i] = c[i]
          /\ \A i \in 1..4 : b[k + i] = p[i]
      <4> HIDE DEF k
      <4>1. b \in Seq(Token) /\ Follows(b, c, p, k, 4)
        BY <2>4, <2>5, <3>2, <3>3, ConcatAt
      <4> QED
        BY <4>1 DEF Follows
    <3>5. Len(b) = BodyLen(n)
      BY <2>2, <3>4 DEF BodyLen
    <3>6. FieldsAt(b, fs, 0)
      <4> SUFFICES ASSUME NEW i \in 1..n
                   PROVE  /\ b[4 * i - 3] = Str(fs[i].key) /\ b[4 * i - 2] = Mark(":")
                          /\ b[4 * i - 1] = fs[i].val
                          /\ i > 1 => b[4 * i - 4] = Mark(",")
        BY <1>2, FieldsAtZero
      <4>1. CASE i \in 1..m
        <5>1. /\ c[4 * i - 3] = Str(gs[i].key) /\ c[4 * i - 2] = Mark(":")
              /\ c[4 * i - 1] = gs[i].val
              /\ i > 1 => c[4 * i - 4] = Mark(",")
          BY <2>5, <4>1, FieldsAtZero DEF m
        <5>2. /\ 4 * i - 3 \in 1..k /\ 4 * i - 2 \in 1..k /\ 4 * i - 1 \in 1..k
              /\ i > 1 => 4 * i - 4 \in 1..k
          BY <2>2, <4>1
        <5> HIDE DEF k
        <5> QED
          BY <2>2, <3>4, <4>1, <5>1, <5>2
      <4>2. CASE i = m + 1
        <5>1. /\ 4 * i - 3 = k + 2 /\ 4 * i - 2 = k + 3 /\ 4 * i - 1 = k + 4
              /\ 4 * i - 4 = k + 1
          BY <2>2, <4>2
        <5> HIDE DEF k
        <5>2. b[k + 1] = p[1] /\ b[k + 2] = p[2] /\ b[k + 3] = p[3] /\ b[k + 4] = p[4]
          BY <3>4
        <5> QED
          BY <2>2, <3>3, <4>2, <5>1, <5>2
      <4>3. i \in 1..m \/ i = m + 1
        BY <2>2
      <4> QED
        BY <4>1, <4>2, <4>3
    <3> QED
      BY <1>2, <3>4, <3>5, <3>6 DEF BodyIs, b
  <2> QED
    BY <2>6, <2>7
<1> QED
  BY <1>4, <1>5

\* An object is a brace, the fields with commas between them, and a brace.
ObjectLen(n) == BodyLen(n) + 2
LEMMA ObjectShape ==
  ASSUME NEW fs \in Seq(FieldType)
  PROVE  LET b == ObjectTokens(fs)
         IN  /\ b \in Seq(Token) /\ Len(b) = ObjectLen(Len(fs)) /\ b[1] = Mark("{")
             /\ FieldsAt(b, fs, 1) /\ b[Len(b)] = Mark("}")
             /\ b = (<<Mark("{")>> \o Body(fs)) \o <<Mark("}")>>
<1> DEFINE c == Body(fs)
           o == <<Mark("{")>>
           e == <<Mark("}")>>
           b == (o \o c) \o e
           n == Len(fs)
           m == BodyLen(n)
<1>1. c \in Seq(Token) /\ Len(c) = m /\ FieldsAt(c, fs, 0)
  BY BodyShape DEF BodyIs
<1>2. n \in Nat /\ m \in Nat /\ \A i \in 1..n : 4 * i - 1 <= m
  <2>1. n \in Nat
    BY LenProperties
  <2> HIDE DEF n
  <2> QED
    BY <2>1 DEF BodyLen
<1>3. /\ o \in Seq(Token) /\ Len(o) = 1 /\ o[1] = Mark("{")
      /\ e \in Seq(Token) /\ Len(e) = 1 /\ e[1] = Mark("}")
  <2>1. Mark("{") \in Token /\ Mark("}") \in Token
    BY TokenTypes DEF TokenKinds
  <2> QED
    BY <2>1, OneElement
<1> HIDE DEF o, c, e, n, m
<1> DEFINE d == o \o c
<1>4. /\ d \in Seq(Token) /\ Len(d) = 1 + m /\ d[1] = o[1]
      /\ \A i \in 1..m : d[1 + i] = c[i]
  <2>1. d = o \o c
    OBVIOUS
  <2> HIDE DEF d
  <2>2. /\ d \in Seq(Token) /\ Len(d) = 1 + m
        /\ \A i \in 1..1 : d[i] = o[i]
        /\ \A i \in 1..m : d[1 + i] = c[i]
    <3>1. d \in Seq(Token) /\ Follows(d, o, c, 1, m)
      BY <1>1, <1>3, <2>1, ConcatAt
    <3> QED
      BY <3>1 DEF Follows
  <2> QED
    BY <2>2
<1> HIDE DEF d
<1>5. /\ b \in Seq(Token) /\ Len(b) = 1 + m + 1 /\ b[1 + m + 1] = e[1]
      /\ \A i \in 1..(1 + m) : b[i] = d[i]
  <2>1. b = d \o e
    BY DEF d
  <2> HIDE DEF b
  <2> DEFINE k == 1 + m
  <2>2. Len(d) = k /\ Len(e) = 1 /\ d \in Seq(Token) /\ e \in Seq(Token)
    BY <1>3, <1>4
  <2> HIDE DEF k
  <2>3. /\ b \in Seq(Token) /\ Len(b) = k + 1
        /\ \A i \in 1..k : b[i] = d[i]
        /\ \A i \in 1..1 : b[k + i] = e[i]
    <3>1. b \in Seq(Token) /\ Follows(b, d, e, k, 1)
      BY <2>1, <2>2, ConcatAt
    <3> QED
      BY <3>1 DEF Follows
  <2> QED
    BY <2>3 DEF k
<1> HIDE DEF b
<1>6. b[1] = Mark("{") /\ b[Len(b)] = Mark("}") /\ \A i \in 1..m : b[1 + i] = c[i]
  <2>1. 1 \in 1..(1 + m) /\ \A i \in 1..m : 1 + i \in 1..(1 + m)
    BY <1>2
  <2> QED
    BY <1>3, <1>4, <1>5, <2>1
<1>7. FieldsAt(b, fs, 1)
  <2> SUFFICES ASSUME NEW i \in 1..n
               PROVE  /\ b[1 + 4 * i - 3] = Str(fs[i].key) /\ b[1 + 4 * i - 2] = Mark(":")
                      /\ b[1 + 4 * i - 1] = fs[i].val
                      /\ i > 1 => b[1 + 4 * i - 4] = Mark(",")
    BY DEF FieldsAt, n
  <2>1. /\ 4 * i - 3 \in 1..m /\ 4 * i - 2 \in 1..m /\ 4 * i - 1 \in 1..m
        /\ i > 1 => 4 * i - 4 \in 1..m
    BY <1>2
  <2>2. /\ 1 + 4 * i - 3 = 1 + (4 * i - 3) /\ 1 + 4 * i - 2 = 1 + (4 * i - 2)
        /\ 1 + 4 * i - 1 = 1 + (4 * i - 1) /\ 1 + 4 * i - 4 = 1 + (4 * i - 4)
    BY <1>2
  <2>3. /\ c[4 * i - 3] = Str(fs[i].key) /\ c[4 * i - 2] = Mark(":")
        /\ c[4 * i - 1] = fs[i].val
        /\ i > 1 => c[4 * i - 4] = Mark(",")
    BY <1>1, FieldsAtZero DEF n
  <2>4. \A j \in 1..m : b[1 + j] = c[j]
    BY <1>6
  <2>5. /\ b[1 + (4 * i - 3)] = c[4 * i - 3] /\ b[1 + (4 * i - 2)] = c[4 * i - 2]
        /\ b[1 + (4 * i - 1)] = c[4 * i - 1]
        /\ i > 1 => b[1 + (4 * i - 4)] = c[4 * i - 4]
    BY <2>1, <2>4
  <2> QED
    BY <2>2, <2>3, <2>5
<1>8. Len(b) = ObjectLen(Len(fs))
  BY <1>2, <1>5 DEF ObjectLen, m, n
<1>9. ObjectTokens(fs) = b
  BY ObjectIsParts DEF b, c, o, e
<1> QED
  BY <1>5, <1>6, <1>7, <1>8, <1>9 DEF b, c, o, e

-----------------------------------------------------------------------------
\* The Reader.

LEMMA PrefixIs ==
  ASSUME NEW T, NEW s \in Seq(T), NEW n \in Nat
  PROVE  /\ Prefix(s, n) \in Seq(T)
         /\ Len(Prefix(s, n)) = IF n < Len(s) THEN n ELSE Len(s)
         /\ \A i \in 1..Len(Prefix(s, n)) : Prefix(s, n)[i] = s[i]
<1> DEFINE m == IF n < Len(s) THEN n ELSE Len(s)
<1>1. Len(s) \in Nat /\ m \in Nat /\ m <= Len(s) /\ \A i \in 1..Len(s) : s[i] \in T
  BY LenProperties, ElementOfSeq
<1> HIDE DEF m
<1>2. \A i \in 1..m : s[i] \in T
  BY <1>1
<1>3. /\ SubSeq(s, 1, m) \in Seq(T) /\ Len(SubSeq(s, 1, m)) = m
      /\ \A i \in 1..m : SubSeq(s, 1, m)[i] = s[i]
  BY <1>1, <1>2, SubSeqProperties
<1>4. Prefix(s, n) = SubSeq(s, 1, m)
  BY DEF Prefix, m
<1> QED
  BY <1>3, <1>4 DEF m

\* A line holds the first n tokens of an object, the last of them perhaps cut.
LEMMA FirstTokensAre ==
  ASSUME NEW b \in Seq(Token), NEW n \in 0..Len(b), NEW cut \in BOOLEAN, cut => n > 0
  PROVE  LET x == FirstTokens(b, n, cut)
         IN  /\ x \in Seq(Token) /\ Len(x) = n
             /\ \A i \in 1..(n - 1) : x[i] = b[i]
             /\ n > 0 => x[n] = IF cut THEN Shortened(b[n]) ELSE b[n]
<1> DEFINE x == FirstTokens(b, n, cut)
<1>1. Len(b) \in Nat /\ n \in Nat /\ n <= Len(b) /\ \A i \in 1..Len(b) : b[i] \in Token
  BY LenProperties, ElementOfSeq
<1>2. CASE ~cut
  <2>1. x = Prefix(b, n)
    BY <1>2 DEF FirstTokens
  <2>2. x \in Seq(Token) /\ Len(x) = n /\ \A i \in 1..n : x[i] = b[i]
    <3> HIDE DEF x
    <3> QED
      BY <1>1, <2>1, PrefixIs
  <2> HIDE DEF x
  <2>3. \A i \in 1..(n - 1) : i \in 1..n
    BY <1>1
  <2> QED
    BY <1>1, <1>2, <2>2, <2>3 DEF x
<1>3. CASE cut
  <2> DEFINE y == Prefix(b, n - 1)
             t == Shortened(b[n])
  <2>1. x = Append(y, t)
    BY <1>3 DEF FirstTokens
  <2>2. n \in 1..Len(b) /\ n - 1 \in Nat /\ n - 1 < Len(b)
    BY <1>1, <1>3
  <2>3. t \in Token
    <3>1. b[n] \in Token /\ b[n].n \in Int
      BY <1>1, <2>2 DEF Token
    <3>2. Mark("cut") \in Token /\ Int64(b[n].n \div 10) \in Token
      <4>1. b[n].n \div 10 \in Int
        BY <3>1
      <4>2. "cut" \in TokenKinds
        BY DEF TokenKinds
      <4> QED
        BY <4>1, <4>2, TokenTypes
    <3> QED
      BY <3>2 DEF Shortened
  <2>4. y \in Seq(Token) /\ Len(y) = n - 1 /\ \A i \in 1..(n - 1) : y[i] = b[i]
    BY <2>2, PrefixIs
  <2> HIDE DEF x, y, t
  <2>5. /\ x \in Seq(Token) /\ Len(x) = (n - 1) + 1 /\ x[(n - 1) + 1] = t
        /\ \A i \in 1..(n - 1) : x[i] = y[i]
    BY <2>1, <2>3, <2>4, AppendProperties
  <2>6. (n - 1) + 1 = n
    BY <1>1
  <2> QED
    BY <1>3, <2>4, <2>5, <2>6 DEF x, t
<1> QED
  BY <1>2, <1>3

ReaderOf(b) == [p : 1..(Len(b) + 1), needs_comma : BOOLEAN, error : BOOLEAN]

LEMMA KindInside ==
  ASSUME NEW b \in Seq(Token), NEW i \in Nat, KindAt(b, i) \in TokenKinds
  PROVE  i \in 1..Len(b) /\ KindAt(b, i) = b[i].k /\ b[i] \in Token
<1>1. "end" \notin TokenKinds
  BY DEF TokenKinds
<1>2. i \in DOMAIN b /\ KindAt(b, i) = b[i].k
  BY <1>1 DEF KindAt
<1> QED
  BY <1>2

\* fail() leaves the position and makes the error final.
LEMMA FailIs ==
  ASSUME NEW b, NEW r0 \in ReaderOf(b)
  PROVE  /\ Fail(r0).ok = FALSE /\ Fail(r0).r \in ReaderOf(b)
         /\ Fail(r0).r = [r0 EXCEPT !.error = TRUE]
  BY DEF Fail, No, ReaderOf

\* A value is delivered only where it stands, and the reader goes behind it.
LEMMA NextOfIs ==
  ASSUME NEW b \in Seq(Token), NEW r0 \in ReaderOf(b), NEW kind \in TokenKinds
  PROVE  LET v == NextOf(kind, b, r0)
         IN  /\ v.ok \in BOOLEAN /\ v.r \in ReaderOf(b)
             /\ v.ok <=> ~r0.error /\ KindAt(b, r0.p) = kind
             /\ v.ok => /\ v.val = b[r0.p] /\ v.val \in Token
                        /\ v.r = [r0 EXCEPT !.p = r0.p + 1]
             /\ ~v.ok => v.r = [r0 EXCEPT !.error = TRUE]
<1> DEFINE v == NextOf(kind, b, r0)
<1>1. r0.p \in Nat /\ r0.error \in BOOLEAN /\ Len(b) \in Nat
  BY DEF ReaderOf
<1>2. CASE ~r0.error /\ KindAt(b, r0.p) = kind
  <2>1. r0.p \in 1..Len(b) /\ b[r0.p] \in Token
    BY <1>1, <1>2, KindInside
  <2>2. /\ v.ok = TRUE /\ v.val = b[r0.p] /\ v.r = [r0 EXCEPT !.p = r0.p + 1]
    BY <1>2 DEF NextOf, Yes
  <2>3. [r0 EXCEPT !.p = r0.p + 1] \in ReaderOf(b)
    BY <1>1, <2>1 DEF ReaderOf
  <2> QED
    BY <1>2, <2>1, <2>2, <2>3
<1>3. CASE ~(~r0.error /\ KindAt(b, r0.p) = kind)
  <2>1. v = Fail(r0)
    BY <1>3 DEF NextOf
  <2> HIDE DEF v
  <2>2. v.ok = FALSE /\ v.r \in ReaderOf(b) /\ v.r = [r0 EXCEPT !.error = TRUE]
    BY <2>1, FailIs
  <2> QED
    BY <1>3, <2>2 DEF v
<1> QED
  BY <1>2, <1>3

LEMMA NextIntIs ==
  ASSUME NEW b \in Seq(Token), NEW r0 \in ReaderOf(b)
  PROVE  LET v == nextInt(b, r0)
         IN  /\ v.ok \in BOOLEAN /\ v.r \in ReaderOf(b)
             /\ v.ok <=> ~r0.error /\ KindAt(b, r0.p) = "int"
             /\ v.ok => v.val = b[r0.p] /\ v.val.n \in Int /\ v.r = [r0 EXCEPT !.p = r0.p + 1]
             /\ ~v.ok => v.r = [r0 EXCEPT !.error = TRUE]
<1> DEFINE v == NextOf("int", b, r0)
<1>1. "int" \in TokenKinds
  BY DEF TokenKinds
<1>2. /\ v.ok \in BOOLEAN /\ v.r \in ReaderOf(b)
      /\ v.ok <=> ~r0.error /\ KindAt(b, r0.p) = "int"
      /\ v.ok => /\ v.val = b[r0.p] /\ v.val \in Token
                 /\ v.r = [r0 EXCEPT !.p = r0.p + 1]
      /\ ~v.ok => v.r = [r0 EXCEPT !.error = TRUE]
  BY <1>1, NextOfIs
<1>3. nextInt(b, r0) = v
  BY DEF nextInt
<1> HIDE DEF v
<1>4. v.ok => v.val.n \in Int
  BY <1>2 DEF Token
<1> QED
  BY <1>2, <1>3, <1>4

LEMMA NextStringIs ==
  ASSUME NEW b \in Seq(Token), NEW r0 \in ReaderOf(b)
  PROVE  LET v == nextString(b, r0)
         IN  /\ v.ok \in BOOLEAN /\ v.r \in ReaderOf(b)
             /\ v.ok <=> /\ ~r0.error /\ KindAt(b, r0.p) = "str"
                         /\ "bad" \notin ToSet(Decode(b[r0.p].s))
             /\ v.ok => /\ v.val.s = Decode(b[r0.p].s) /\ v.val.s \in Seq(Decoded)
                        /\ v.r = [r0 EXCEPT !.p = r0.p + 1]
             /\ ~v.ok => v.r = [r0 EXCEPT !.error = TRUE]
<1> DEFINE w == NextOf("str", b, r0)
           chars == Decode(w.val.s)
           v == nextString(b, r0)
<1>1. "str" \in TokenKinds
  BY DEF TokenKinds
<1>2. /\ w.ok \in BOOLEAN /\ w.r \in ReaderOf(b)
      /\ w.ok <=> ~r0.error /\ KindAt(b, r0.p) = "str"
      /\ w.ok => /\ w.val = b[r0.p] /\ w.val \in Token
                 /\ w.r = [r0 EXCEPT !.p = r0.p + 1]
      /\ ~w.ok => w.r = [r0 EXCEPT !.error = TRUE]
  BY <1>1, NextOfIs
<1>3. v = IF w.ok /\ "bad" \notin ToSet(chars) THEN Yes(w.r, Str(chars)) ELSE Fail(r0)
  BY DEF nextString
<1> HIDE DEF w, v
<1>4. CASE w.ok /\ "bad" \notin ToSet(chars)
  <2>1. v.ok = TRUE /\ v.val.s = chars /\ v.r = w.r
    BY <1>3, <1>4 DEF Yes, Str
  <2>2. w.val.s \in Seq(Char)
    BY <1>2, <1>4 DEF Token
  <2>3. chars \in Seq(Decoded)
    BY <2>2, DecodeType
  <2> QED
    BY <1>2, <1>4, <2>1, <2>3 DEF v
<1>5. CASE ~(w.ok /\ "bad" \notin ToSet(chars))
  <2>1. v = Fail(r0)
    BY <1>3, <1>5
  <2>2. v.ok = FALSE /\ v.r \in ReaderOf(b) /\ v.r = [r0 EXCEPT !.error = TRUE]
    BY <2>1, FailIs
  <2>3. w.ok => chars = Decode(b[r0.p].s)
    BY <1>2
  <2> QED
    BY <1>2, <1>5, <2>2, <2>3 DEF v
<1> QED
  BY <1>4, <1>5

LEMMA NextFieldIs ==
  ASSUME NEW b \in Seq(Token), NEW r0 \in ReaderOf(b)
  PROVE  LET v == nextField(b, r0)
             i == IF r0.needs_comma THEN r0.p + 1 ELSE r0.p
         IN  /\ v.ok \in BOOLEAN /\ v.r \in ReaderOf(b)
             /\ v.ok <=> /\ ~r0.error /\ KindAt(b, r0.p) # "}"
                         /\ r0.needs_comma => KindAt(b, r0.p) = ","
                         /\ KindAt(b, i) = "str" /\ KindAt(b, i + 1) = ":"
                         /\ "bad" \notin ToSet(Decode(b[i].s))
             /\ v.ok => /\ v.val.s = Decode(b[i].s) /\ v.val.s \in Seq(Decoded)
                        /\ v.r = [p |-> i + 2, needs_comma |-> TRUE, error |-> FALSE]
<1> DEFINE v == nextField(b, r0)
           i == IF r0.needs_comma THEN r0.p + 1 ELSE r0.p
           good == /\ r0.needs_comma => KindAt(b, r0.p) = ","
                   /\ KindAt(b, i) = "str" /\ KindAt(b, i + 1) = ":"
                   /\ "bad" \notin ToSet(Decode(b[i].s))
           ends == r0.error \/ KindAt(b, r0.p) = "}"
<1>1. r0.p \in Nat /\ r0.error \in BOOLEAN /\ Len(b) \in Nat /\ i \in Nat
      /\ r0.needs_comma \in BOOLEAN
  BY DEF ReaderOf
<1>2. v = IF ends THEN No(r0)
          ELSE IF good THEN Yes([p |-> i + 2, needs_comma |-> TRUE, error |-> FALSE],
                                Str(Decode(b[i].s)))
          ELSE Fail(r0)
  BY DEF nextField
<1> HIDE DEF v, i
<1>3. CASE ends
  <2>1. v.ok = FALSE /\ v.r = r0
    BY <1>2, <1>3 DEF No
  <2> QED
    BY <1>3, <2>1 DEF v, i
<1>4. CASE ~ends /\ good
  <2>1. /\ v.ok = TRUE /\ v.val.s = Decode(b[i].s)
        /\ v.r = [p |-> i + 2, needs_comma |-> TRUE, error |-> FALSE]
    BY <1>2, <1>4 DEF Yes, Str
  <2>2. i + 1 \in 1..Len(b) /\ i \in 1..Len(b) /\ b[i] \in Token
    <3>1. "str" \in TokenKinds /\ ":" \in TokenKinds
      BY DEF TokenKinds
    <3>2. i + 1 \in Nat
      BY <1>1
    <3> QED
      BY <1>1, <1>4, <3>1, <3>2, KindInside
  <2>3. v.r \in ReaderOf(b)
    BY <1>1, <2>1, <2>2 DEF ReaderOf
  <2>4. v.val.s \in Seq(Decoded)
    <3>1. b[i].s \in Seq(Char)
      BY <2>2 DEF Token
    <3> QED
      BY <2>1, <3>1, DecodeType
  <2> QED
    BY <1>4, <2>1, <2>3, <2>4 DEF v, i
<1>5. CASE ~ends /\ ~good
  <2>1. v = Fail(r0)
    BY <1>2, <1>5
  <2>2. v.ok = FALSE /\ v.r \in ReaderOf(b)
    BY <2>1, FailIs
  <2> QED
    BY <1>1, <1>5, <2>2 DEF v, i
<1> QED
  BY <1>3, <1>4, <1>5

\* The skip goes behind a null, or a string, and fails at anything else.
LEMMA SkipIs ==
  ASSUME NEW b \in Seq(Token), NEW r0 \in ReaderOf(b)
  PROVE  LET readable == \/ KindAt(b, r0.p) = "null"
                         \/ /\ KindAt(b, r0.p) = "str"
                            /\ "bad" \notin ToSet(Decode(b[r0.p].s))
         IN  /\ skipValue(b, r0) \in ReaderOf(b)
             /\ ~r0.error /\ readable => skipValue(b, r0) = [r0 EXCEPT !.p = r0.p + 1]
             /\ ~readable => skipValue(b, r0).error
<1> DEFINE null == isNull(b, r0)
           str  == nextString(b, null.r)
           int  == nextInt(b, str.r)
           bool == nextBool(b, int.r)
<1>1. skipValue(b, r0) = IF null.ok THEN null.r ELSE IF str.ok THEN str.r
                         ELSE IF int.ok THEN int.r ELSE bool.r
  BY DEF skipValue
<1>2. /\ null.r \in ReaderOf(b) /\ null.ok \in BOOLEAN
      /\ null.ok <=> ~r0.error /\ KindAt(b, r0.p) = "null"
      /\ null.ok => null.r = [r0 EXCEPT !.p = r0.p + 1]
      /\ ~null.ok => null.r = r0
  <2>1. r0.p \in Nat /\ r0.error \in BOOLEAN /\ Len(b) \in Nat
    BY DEF ReaderOf
  <2>2. CASE ~r0.error /\ KindAt(b, r0.p) = "null"
    <3>1. "null" \in TokenKinds
      BY DEF TokenKinds
    <3>2. r0.p \in 1..Len(b)
      BY <2>1, <2>2, <3>1, KindInside
    <3>3. null.ok = TRUE /\ null.r = [r0 EXCEPT !.p = r0.p + 1]
      BY <2>2 DEF isNull, Yes
    <3>4. [r0 EXCEPT !.p = r0.p + 1] \in ReaderOf(b)
      BY <2>1, <3>2 DEF ReaderOf
    <3> QED
      BY <2>2, <3>3, <3>4
  <2>3. CASE ~(~r0.error /\ KindAt(b, r0.p) = "null")
    BY <2>3 DEF isNull, No
  <2> QED
    BY <2>2, <2>3
<1> HIDE DEF null
<1>3. /\ str.ok \in BOOLEAN /\ str.r \in ReaderOf(b)
      /\ str.ok <=> /\ ~null.r.error /\ KindAt(b, null.r.p) = "str"
                    /\ "bad" \notin ToSet(Decode(b[null.r.p].s))
      /\ str.ok => str.r = [null.r EXCEPT !.p = null.r.p + 1]
      /\ ~str.ok => str.r = [null.r EXCEPT !.error = TRUE]
  BY <1>2, NextStringIs
<1> HIDE DEF str
<1>4. /\ int.ok \in BOOLEAN /\ int.r \in ReaderOf(b)
      /\ int.ok <=> ~str.r.error /\ KindAt(b, str.r.p) = "int"
      /\ ~int.ok => int.r = [str.r EXCEPT !.error = TRUE]
  BY <1>3, NextIntIs
<1> HIDE DEF int
<1>5. bool.r \in ReaderOf(b) /\ (int.r.error => bool.r.error)
  <2>1. "bool" \in TokenKinds /\ bool = NextOf("bool", b, int.r)
    BY DEF TokenKinds, nextBool
  <2> HIDE DEF bool
  <2>2. /\ bool.ok \in BOOLEAN /\ bool.r \in ReaderOf(b)
        /\ bool.ok <=> ~int.r.error /\ KindAt(b, int.r.p) = "bool"
        /\ ~bool.ok => bool.r = [int.r EXCEPT !.error = TRUE]
    BY <1>4, <2>1, NextOfIs
  <2>3. int.r.error => bool.r.error
    BY <1>4, <2>2 DEF ReaderOf
  <2> QED
    BY <2>2, <2>3
<1> HIDE DEF bool
<1>6. skipValue(b, r0) \in ReaderOf(b)
  BY <1>1, <1>2, <1>3, <1>4, <1>5
<1> DEFINE readable == \/ KindAt(b, r0.p) = "null"
                       \/ /\ KindAt(b, r0.p) = "str"
                          /\ "bad" \notin ToSet(Decode(b[r0.p].s))
<1>7. ~r0.error /\ readable => skipValue(b, r0) = [r0 EXCEPT !.p = r0.p + 1]
  BY <1>1, <1>2, <1>3
<1>8. ~readable => skipValue(b, r0).error
  <2> SUFFICES ASSUME ~readable PROVE skipValue(b, r0).error
    OBVIOUS
  <2>1. ~null.ok /\ null.r = r0
    BY <1>2
  <2>2. ~str.ok /\ str.r = [r0 EXCEPT !.error = TRUE]
    BY <1>3, <2>1
  <2>3. str.r.error
    BY <2>2 DEF ReaderOf
  <2>4. ~int.ok /\ int.r = [str.r EXCEPT !.error = TRUE]
    BY <1>4, <2>3
  <2>5. int.r.error
    BY <1>3, <2>4 DEF ReaderOf
  <2> QED
    BY <1>1, <1>5, <2>1, <2>2, <2>4, <2>5
<1> QED
  BY <1>6, <1>7, <1>8

-----------------------------------------------------------------------------
\* The Encoder.

\* What the Encoder holds of the tokens w written so far: all of them, or, when
\* there is no room left, a beginning of them whose last token may be cut.
CutOff(o, w) ==
  /\ Len(o) \in 1..Len(w)
  /\ \A i \in 1..(Len(o) - 1) : o[i] = w[i]
  /\ o[Len(o)] \in {w[Len(o)], Mark("cut")}
EncoderType == [out : Seq(Token), room : Nat, needs : Seq(BOOLEAN)]
Holds(e, w, room) ==
  /\ e \in EncoderType /\ w \in Seq(Token)
  /\ Len(Text(e.out)) \in Nat /\ Len(Text(e.out)) + e.room <= room
  /\ \/ e.out = w
     \/ e.room = 0 /\ CutOff(e.out, w)
  /\ w = <<>> => e.room > 0

LEMMA WireType ==
  ASSUME NEW t \in Token
  PROVE  Wire(t) \in Seq(Char \cup TokenKinds) /\ Size(t) \in Nat \ {0}
<1>1. t.s \in Seq(Char) /\ t.k \in TokenKinds
  BY DEF Token
<1>2. CASE t.k = "str"
  <2> DEFINE q == <<"quote">>
             d == q \o t.s
             w == d \o q
  <2>1. q \in Seq(Char) /\ Len(q) = 1
    BY CharAssumption
  <2> HIDE DEF q
  <2>2. d \in Seq(Char) /\ Follows(d, q, t.s, 1, Len(t.s))
    BY <1>1, <2>1, ConcatAt
  <2> HIDE DEF d
  <2>3. w \in Seq(Char) /\ Follows(w, d, q, Len(d), 1)
    BY <2>1, <2>2, ConcatAt
  <2>4. Wire(t) = w
    BY <1>2 DEF Wire, d, q
  <2> HIDE DEF w
  <2>5. Len(w) \in Nat \ {0} /\ w \in Seq(Char \cup TokenKinds)
    BY <2>3, SeqMonotonic DEF Follows
  <2> QED
    BY <2>4, <2>5 DEF Size
<1>3. CASE t.k # "str"
  <2>1. Wire(t) = <<t.k>> \/ Wire(t) = <<t.k, t.k>>
    BY <1>3, Zenon DEF Wire
  <2>2. <<t.k>> \in Seq(Char \cup TokenKinds) /\ Len(<<t.k>>) = 1
    BY <1>1
  <2>3. <<t.k, t.k>> \in Seq(Char \cup TokenKinds) /\ Len(<<t.k, t.k>>) = 2
    BY <1>1
  <2>4. Wire(t) \in Seq(Char \cup TokenKinds) /\ Len(Wire(t)) \in {1, 2}
    BY <2>1, <2>2, <2>3, Zenon
  <2> QED
    BY <2>4 DEF Size
<1> QED
  BY <1>2, <1>3

LEMMA TextAppend ==
  ASSUME NEW q \in Seq(Token), NEW t \in Token
  PROVE  /\ Len(Text(q)) \in Nat /\ Len(Text(<<>>)) = 0
         /\ Len(Text(Append(q, t))) = Len(Text(q)) + Size(t)
<1> DEFINE T == Char \cup TokenKinds
           W(x) == [i \in DOMAIN x |-> Wire(x[i])]
           n == Len(q)
           r0 == Append(q, t)
<1>1. /\ n \in Nat /\ Len(r0) = n + 1 /\ r0[n + 1] = t /\ r0 \in Seq(Token)
      /\ \A i \in 1..n : r0[i] = q[i] /\ q[i] \in Token
  BY AppendProperties, ElementOfSeq
<1>2. DOMAIN q = 1..n /\ DOMAIN r0 = 1..(n + 1)
  BY <1>1
<1>3. Wire(t) \in Seq(T) /\ \A i \in 1..n : Wire(q[i]) \in Seq(T)
  BY <1>1, WireType
<1> HIDE DEF n, r0, T
<1>4. W(q) \in Seq(Seq(T)) /\ Len(W(q)) = n /\ \A i \in 1..n : W(q)[i] = Wire(q[i])
  BY <1>1, <1>2, <1>3
<1>5. W(r0) = Append(W(q), Wire(t))
  <2> DEFINE x == W(r0)
             y == Append(W(q), Wire(t))
  <2>1. /\ y \in Seq(Seq(T)) /\ Len(y) = n + 1 /\ y[n + 1] = Wire(t)
        /\ \A i \in 1..n : y[i] = Wire(q[i])
    BY <1>3, <1>4, AppendProperties
  <2>2. x = [i \in 1..(n + 1) |-> Wire(r0[i])]
    BY <1>2
  <2> HIDE DEF x, y
  <2>3. \A i \in 1..(n + 1) : i \in 1..n \/ i = n + 1
    BY <1>1
  <2>4. \A i \in 1..(n + 1) : x[i] = y[i]
    BY <1>1, <2>1, <2>2, <2>3
  <2>5. y = [i \in 1..(n + 1) |-> y[i]]
    BY <2>1
  <2>6. x = [i \in 1..(n + 1) |-> x[i]]
    BY <2>2
  <2>7. x = y
    BY <2>4, <2>5, <2>6
  <2> QED
    BY <2>7 DEF x, y
<1>6. Text(q) = FlattenSeq(W(q)) /\ Text(r0) = FlattenSeq(W(r0))
  BY DEF Text
<1> DEFINE wq == W(q)
           wt == Wire(t)
<1>7. wq \in Seq(Seq(T)) /\ wt \in Seq(T)
  BY <1>3, <1>4
<1>8. Text(q) = FlattenSeq(wq) /\ Text(r0) = FlattenSeq(Append(wq, wt)) /\ Size(t) = Len(wt)
  BY <1>5, <1>6 DEF Size
<1> HIDE DEF wq, wt, W
<1>9. FlattenSeq(wq) \in Seq(T)
  BY <1>7, FlattenType
<1>10. FlattenSeq(Append(wq, wt)) = IF wq = <<>> THEN wt ELSE FlattenSeq(wq) \o wt
  BY <1>7, FlattenAppend
<1>11. Len(FlattenSeq(wq)) \in Nat /\ Len(wt) \in Nat
  BY <1>7, <1>9, LenProperties
<1>12. Len(FlattenSeq(Append(wq, wt))) = Len(FlattenSeq(wq)) + Len(wt)
  <2>1. CASE wq = <<>>
    <3>1. Len(FlattenSeq(wq)) = 0
      BY <2>1, FlattenEmpty, EmptySeq
    <3> QED
      BY <1>10, <1>11, <2>1, <3>1
  <2>2. CASE wq # <<>>
    <3> DEFINE a == FlattenSeq(wq)
               d == a \o wt
    <3>1. FlattenSeq(Append(wq, wt)) = d /\ a \in Seq(T)
      BY <1>9, <1>10, <2>2
    <3> HIDE DEF a
    <3>2. Follows(d, a, wt, Len(a), Len(wt))
      BY <1>7, <3>1, ConcatAt
    <3> HIDE DEF d
    <3>3. Len(d) = Len(a) + Len(wt)
      BY <3>2 DEF Follows
    <3> QED
      BY <3>1, <3>3 DEF a
  <2> QED
    BY <2>1, <2>2
<1>13. Len(Text(<<>>)) = 0
  <2>1. [i \in DOMAIN <<>> |-> Wire(<<>>[i])] = <<>>
    OBVIOUS
  <2>2. Text(<<>>) = <<>>
    BY <2>1, FlattenEmpty DEF Text
  <2> QED
    BY <2>2
<1> QED
  BY <1>8, <1>11, <1>12, <1>13 DEF r0

\* LineBuffer::append cuts what does not fit and drops what comes after it.
LEMMA AppendHolds ==
  ASSUME NEW e, NEW w, NEW room \in Nat, Holds(e, w, room), NEW t \in Token
  PROVE  Holds(append(e, t), Append(w, t), room) /\ append(e, t).needs = e.needs
<1> DEFINE x == append(e, t)
           v == Append(w, t)
           L == Len(w)
<1>1. /\ e.out \in Seq(Token) /\ e.room \in Nat /\ e.needs \in Seq(BOOLEAN)
      /\ e = [out |-> e.out, room |-> e.room, needs |-> e.needs]
      /\ w \in Seq(Token) /\ L \in Nat
  BY DEF Holds, EncoderType
<1>2. Size(t) \in Nat \ {0}
  BY WireType
<1>3. /\ v \in Seq(Token) /\ Len(v) = L + 1 /\ v[L + 1] = t /\ v # <<>>
      /\ \A i \in 1..L : v[i] = w[i]
  BY <1>1, AppendProperties
<1>4. Mark("cut") \in Token /\ Size(Mark("cut")) = 1
  <2>1. Mark("cut") \in Token /\ Mark("cut").k = "cut"
    BY TokenTypes DEF TokenKinds, Mark
  <2> QED
    BY <2>1 DEF Size, Wire
<1>5. Len(Text(e.out)) \in Nat /\ Len(Text(e.out)) + e.room <= room
  BY DEF Holds
<1> HIDE DEF v, L
<1>6. CASE Size(t) <= e.room
  <2>1. x = [out |-> Append(e.out, t), room |-> e.room - Size(t), needs |-> e.needs]
    BY <1>1, <1>6 DEF append
  <2>2. e.out = w
    BY <1>1, <1>2, <1>6 DEF Holds
  <2>3. Append(e.out, t) = v /\ e.room - Size(t) \in Nat
    BY <1>1, <1>2, <1>6, <2>2 DEF v
  <2>4. Len(Text(v)) = Len(Text(e.out)) + Size(t)
    BY <1>1, <2>3, TextAppend
  <2> HIDE DEF x
  <2>5. x \in EncoderType /\ x.out = v /\ x.room = e.room - Size(t) /\ x.needs = e.needs
    BY <1>1, <1>3, <2>1, <2>3 DEF EncoderType
  <2>6. Len(Text(x.out)) \in Nat /\ Len(Text(x.out)) + x.room <= room /\ x.room \in Nat
    BY <1>1, <1>2, <1>5, <2>3, <2>4, <2>5
  <2>7. Holds(x, v, room)
    BY <1>3, <2>5, <2>6 DEF Holds
  <2> QED
    BY <2>5, <2>7 DEF x, v
<1>7. CASE ~(Size(t) <= e.room) /\ e.room > 0
  <2> DEFINE c == Mark("cut")
             y == Append(e.out, c)
  <2>1. x = [out |-> y, room |-> 0, needs |-> e.needs]
    BY <1>1, <1>7 DEF append
  <2>2. e.out = w
    BY <1>1, <1>7 DEF Holds
  <2> HIDE DEF c
  <2>3. /\ y \in Seq(Token) /\ Len(y) = L + 1 /\ y[L + 1] = c
        /\ \A i \in 1..L : y[i] = w[i]
    BY <1>1, <1>4, <2>2, AppendProperties DEF c, L
  <2>4. Len(Text(y)) = Len(Text(e.out)) + 1
    BY <1>1, <1>4, TextAppend DEF c
  <2> HIDE DEF x, y
  <2>5. x \in EncoderType /\ x.out = y /\ x.room = 0 /\ x.needs = e.needs
    BY <1>1, <2>1, <2>3 DEF EncoderType
  <2>6. CutOff(y, v)
    <3>1. L + 1 \in 1..(L + 1) /\ (L + 1) - 1 = L
      BY <1>1
    <3>2. \A i \in 1..L : y[i] = v[i]
      BY <1>3, <2>3
    <3> QED
      BY <1>3, <2>3, <3>1, <3>2 DEF CutOff, c
  <2>7. Len(Text(x.out)) \in Nat /\ Len(Text(x.out)) + x.room <= room
    BY <1>1, <1>5, <1>7, <2>4, <2>5
  <2> QED
    BY <1>3, <2>5, <2>6, <2>7 DEF Holds, x, v
<1>8. CASE ~(Size(t) <= e.room) /\ ~(e.room > 0)
  <2>1. x = e /\ e.room = 0 /\ w # <<>>
    BY <1>1, <1>8 DEF append, Holds
  <2>2. L >= 1
    BY <1>1, <2>1, EmptySeq DEF L
  <2>3. CutOff(e.out, v)
    <3>1. CASE e.out = w
      <4>1. L \in 1..(L + 1) /\ L \in 1..L /\ \A i \in 1..(L - 1) : i \in 1..L
        BY <1>1, <2>2
      <4> QED
        BY <1>3, <3>1, <4>1 DEF CutOff, L
    <3>2. CASE CutOff(e.out, w)
      <4>1. /\ Len(e.out) \in 1..L /\ \A i \in 1..(Len(e.out) - 1) : e.out[i] = w[i]
            /\ e.out[Len(e.out)] \in {w[Len(e.out)], Mark("cut")}
        BY <3>2 DEF CutOff, L
      <4>2. Len(e.out) \in 1..(L + 1) /\ \A i \in 1..(Len(e.out) - 1) : i \in 1..L
        BY <1>1, <4>1
      <4>3. v[Len(e.out)] = w[Len(e.out)] /\ \A i \in 1..(Len(e.out) - 1) : e.out[i] = v[i]
        BY <1>3, <4>1, <4>2
      <4> QED
        BY <1>3, <4>1, <4>2, <4>3 DEF CutOff
    <3> QED
      BY <3>1, <3>2 DEF Holds
  <2>4. Holds(e, v, room)
    BY <1>1, <1>3, <1>5, <2>1, <2>3 DEF Holds
  <2> QED
    BY <2>1, <2>4 DEF v
<1> QED
  BY <1>6, <1>7, <1>8

\* The frame stack has one frame while the fields are written.
LEMMA CommaHolds ==
  ASSUME NEW e, NEW w, NEW room \in Nat, Holds(e, w, room), NEW c \in BOOLEAN, e.needs = <<c>>
  PROVE  /\ Holds(maybeComma(e), IF c THEN Append(w, Mark(",")) ELSE w, room)
         /\ maybeComma(e).needs = <<c>>
<1>1. e.needs # <<>> /\ Last(e.needs) = c
  BY DEF Last
<1>2. Mark(",") \in Token
  BY TokenTypes DEF TokenKinds
<1>3. maybeComma(e) = IF c THEN append(e, Mark(",")) ELSE e
  BY <1>1 DEF maybeComma
<1>4. /\ Holds(append(e, Mark(",")), Append(w, Mark(",")), room)
      /\ append(e, Mark(",")).needs = e.needs
  BY <1>2, AppendHolds
<1> QED
  BY <1>3, <1>4

LEMMA NeedsHolds ==
  ASSUME NEW e, NEW w, NEW room \in Nat, Holds(e, w, room), NEW c \in BOOLEAN, e.needs = <<c>>,
         NEW d \in BOOLEAN
  PROVE  Holds(NeedsComma(e, d), w, room) /\ NeedsComma(e, d).needs = <<d>>
<1> DEFINE x == NeedsComma(e, d)
<1>1. e.needs # <<>> /\ Len(e.needs) = 1
  OBVIOUS
<1>2. Front(e.needs) = <<>>
  BY <1>1, SubSeqEmpty DEF Front
<1>3. x = [e EXCEPT !.needs = <<d>>]
  BY <1>1, <1>2 DEF NeedsComma
<1>4. e \in EncoderType /\ <<d>> \in Seq(BOOLEAN)
  BY DEF Holds
<1> HIDE DEF x
<1>5. x \in EncoderType /\ x.out = e.out /\ x.room = e.room /\ x.needs = <<d>>
  BY <1>3, <1>4 DEF EncoderType
<1> QED
  BY <1>5 DEF Holds, x

\* A field as the Encoder writes it: the escapes of its value are put in.
Written(f) == [f EXCEPT !.val.s = Escape(@)]

LEMMA WrittenIs ==
  ASSUME NEW f \in FieldType
  PROVE  /\ Written(f) \in FieldType /\ Written(f).key = f.key
         /\ Written(f).val = IF f.val.k = "str" THEN Str(Escape(f.val.s)) ELSE f.val
<1> DEFINE v == f.val
           u == [v EXCEPT !.s = Escape(@)]
<1>1. f = [key |-> f.key, val |-> v] /\ f.key \in Seq(Char) /\ v \in FieldValue
  BY DEF FieldType
<1>2. /\ v \in Token /\ v = [k |-> v.k, s |-> v.s, n |-> v.n] /\ v.s \in Seq(Char) /\ v.n \in Int
      /\ \/ v = Str(v.s) \/ v = Int64(v.n) \/ v \in {Mark("bool"), Mark("null"), Mark("open")}
  BY <1>1 DEF FieldValue, Token
<1>3. Written(f) = [key |-> f.key, val |-> u]
  BY <1>1 DEF Written
<1>4. u = [k |-> v.k, s |-> Escape(v.s), n |-> v.n]
  BY <1>2
<1>5. Escape(v.s) \in Seq(Char)
  BY <1>2, EscapeType
<1> HIDE DEF v, u
<1>6. CASE v.k = "str"
  <2>1. v.n = 0
    BY <1>2, <1>6 DEF Str, Int64, Mark
  <2>2. u = Str(Escape(v.s))
    BY <1>4, <1>6, <2>1 DEF Str
  <2>3. u \in FieldValue
    BY <1>5, <2>2, TokenTypes
  <2>4. Written(f) \in FieldType /\ Written(f).key = f.key /\ Written(f).val = u
    BY <1>1, <1>3, <2>3 DEF FieldType
  <2> QED
    BY <1>6, <2>2, <2>4 DEF v
<1>7. CASE v.k # "str"
  <2>1. v.s = <<>>
    BY <1>2, <1>7 DEF Str, Int64, Mark
  <2>2. Escape(<<>>) = <<>>
    <3>1. [i \in DOMAIN <<>> |->
             IF <<>>[i] \in DOMAIN Escaped THEN <<"backslash", Escaped[<<>>[i]]>>
                                           ELSE <<<<>>[i]>>] = <<>>
      OBVIOUS
    <3> QED
      BY <3>1, FlattenEmpty DEF Escape
  <2>3. u = v
    BY <1>2, <1>4, <2>1, <2>2
  <2>4. Written(f) \in FieldType /\ Written(f).key = f.key /\ Written(f).val = u
    BY <1>1, <1>3, <2>3 DEF FieldType
  <2> QED
    BY <1>7, <2>3, <2>4 DEF v
<1> QED
  BY <1>6, <1>7

Extended(x, q, n, t) ==
  Len(x) = n + 1 /\ x[n + 1] = t /\ \A i \in 1..n : x[i] = q[i]

LEMMA AppendAt ==
  ASSUME NEW T, NEW q \in Seq(T), NEW t \in T
  PROVE  Append(q, t) \in Seq(T) /\ Extended(Append(q, t), q, Len(q), t)
  BY AppendProperties DEF Extended

\* Tuples of at most four, one element after the other.
Tuples(a, b, c, d) ==
  /\ Append(<<>>, a) = <<a>> /\ Append(<<a>>, b) = <<a, b>>
  /\ Append(<<a, b>>, c) = <<a, b, c>> /\ Append(<<a, b, c>>, d) = <<a, b, c, d>>
LEMMA TupleAppend ==
  ASSUME NEW S
  PROVE  \A a, b, c, d \in S : Tuples(a, b, c, d)
<1> TAKE a, b, c, d \in S
<1> DEFINE t1 == <<a>>
           t2 == <<a, b>>
           t3 == <<a, b, c>>
           t4 == <<a, b, c, d>>
<1>1. /\ t1 \in Seq(S) /\ Len(t1) = 1 /\ t1[1] = a
      /\ t2 \in Seq(S) /\ Len(t2) = 2 /\ t2[1] = a /\ t2[2] = b
  OBVIOUS
<1>2. t3 \in Seq(S) /\ Len(t3) = 3 /\ t3[1] = a /\ t3[2] = b /\ t3[3] = c
  OBVIOUS
<1>3. t4 \in Seq(S) /\ Len(t4) = 4 /\ t4[1] = a /\ t4[2] = b /\ t4[3] = c /\ t4[4] = d
  OBVIOUS
<1>4. Append(<<>>, a) = <<a>>
  OBVIOUS
<1> HIDE DEF t1, t2, t3, t4
<1>5. Append(t1, b) = t2
  <2> DEFINE x == Append(t1, b)
  <2>1. x \in Seq(S) /\ Len(x) = 2 /\ x[1] = a /\ x[2] = b
    <3>1. x \in Seq(S) /\ Extended(x, t1, Len(t1), b)
      BY <1>1, AppendAt
    <3> HIDE DEF x
    <3>2. Extended(x, t1, 1, b)
      BY <1>1, <3>1
    <3> QED
      BY <1>1, <3>1, <3>2 DEF Extended
  <2> HIDE DEF x
  <2>2. \A i \in 1..2 : i = 1 \/ i = 2
    OBVIOUS
  <2>3. x = t2
    BY <1>1, <2>1, <2>2, SeqEqual
  <2> QED
    BY <2>3 DEF x
<1>6. Append(t2, c) = t3
  <2> DEFINE x == Append(t2, c)
  <2>1. x \in Seq(S) /\ Len(x) = 3 /\ x[1] = a /\ x[2] = b /\ x[3] = c
    <3>1. x \in Seq(S) /\ Extended(x, t2, Len(t2), c)
      BY <1>1, AppendAt
    <3> HIDE DEF x
    <3>2. Extended(x, t2, 2, c)
      BY <1>1, <3>1
    <3> QED
      BY <1>1, <3>1, <3>2 DEF Extended
  <2> HIDE DEF x
  <2>2. \A i \in 1..3 : i = 1 \/ i = 2 \/ i = 3
    OBVIOUS
  <2>3. x = t3
    BY <1>2, <2>1, <2>2, SeqEqual
  <2> QED
    BY <2>3 DEF x
<1>7. Append(t3, d) = t4
  <2> DEFINE x == Append(t3, d)
  <2>1. x \in Seq(S) /\ Len(x) = 4 /\ x[1] = a /\ x[2] = b /\ x[3] = c /\ x[4] = d
    BY <1>2, AppendProperties
  <2> HIDE DEF x
  <2>2. \A i \in 1..4 : i = 1 \/ i = 2 \/ i = 3 \/ i = 4
    OBVIOUS
  <2>3. x = t4
    BY <1>3, <2>1, <2>2, SeqEqual
  <2> QED
    BY <2>3 DEF x
<1> QED
  BY <1>4, <1>5, <1>6, <1>7, Zenon DEF t1, t2, t3, t4, Tuples

Together(w, p, x) == w \in Seq(Token) /\ p \in Seq(Token) /\ w \o p = x

LEMMA AppendJoined ==
  ASSUME NEW w \in Seq(Token), NEW p \in Seq(Token), NEW t \in Token
  PROVE  Together(w, Append(p, t), Append(w \o p, t))
<1>1. w \o Append(p, t) = Append(w \o p, t)
  BY ConcatAppend
<1>2. Append(p, t) \in Seq(Token)
  BY AppendProperties
<1> QED
  BY <1>1, <1>2 DEF Together

LEMMA AppendBoth ==
  ASSUME NEW w, NEW p, NEW x, Together(w, p, x), NEW t \in Token
  PROVE  Together(w, Append(p, t), Append(x, t))
<1>1. w \in Seq(Token) /\ p \in Seq(Token) /\ w \o p = x
  BY DEF Together
<1>2. Together(w, Append(p, t), Append(w \o p, t))
  BY <1>1, AppendJoined
<1> QED
  BY <1>1, <1>2

LEMMA JoinThree ==
  ASSUME NEW o \in Seq(Token), NEW a \in Seq(Token), NEW p \in Seq(Token)
  PROVE  Together(o \o a, p, o \o (a \o p))
<1>1. (o \o a) \o p = o \o (a \o p)
  BY ConcatAssociative
<1>2. o \o a \in Seq(Token)
  BY ConcatProperties
<1> QED
  BY <1>1, <1>2 DEF Together

\* A field, with the comma that is due before it.
LEMMA FieldHolds ==
  ASSUME NEW e, NEW w, NEW room \in Nat, Holds(e, w, room), NEW c \in BOOLEAN, e.needs = <<c>>,
         NEW f \in FieldType
  PROVE  LET x == value(key(e, f.key), f.val)
         IN  Holds(x, w \o PartOf(Written(f), ~c), room) /\ x.needs = <<TRUE>>
<1> DEFINE s == Str(f.key)
           m == Mark(":")
           t == IF f.val.k = "str" THEN Str(Escape(f.val.s)) ELSE f.val
           w1 == IF c THEN Append(w, Mark(",")) ELSE w
           w2 == Append(w1, s)
           w3 == Append(w2, m)
           w4 == Append(w3, t)
           e1 == maybeComma(e)
           e2 == append(e1, s)
           e3 == append(e2, m)
           e4 == NeedsComma(e3, FALSE)
           e5 == maybeComma(e4)
           e6 == append(e5, t)
           e7 == NeedsComma(e6, TRUE)
<1>1. s \in Token /\ m \in Token /\ t \in Token /\ Mark(",") \in Token
  <2>1. t = Written(f).val /\ Written(f) \in FieldType
    BY WrittenIs
  <2> HIDE DEF t
  <2> QED
    BY <2>1, FieldTypes, TokenTypes DEF TokenKinds
<1>2. value(key(e, f.key), f.val) = e7
  BY DEF value, key
<1>3. Holds(e1, w1, room) /\ e1.needs = <<c>>
  BY CommaHolds
<1> HIDE DEF e1, w1, s, m, t
<1>4. Holds(e2, w2, room) /\ e2.needs = <<c>>
  BY <1>1, <1>3, AppendHolds
<1> HIDE DEF e2, w2
<1>5. Holds(e3, w3, room) /\ e3.needs = <<c>>
  BY <1>1, <1>4, AppendHolds
<1> HIDE DEF e3, w3
<1>6. Holds(e4, w3, room) /\ e4.needs = <<FALSE>>
  BY <1>5, NeedsHolds
<1> HIDE DEF e4
<1>7. Holds(e5, w3, room) /\ e5.needs = <<FALSE>>
  <2>1. /\ Holds(e5, IF FALSE THEN Append(w3, Mark(",")) ELSE w3, room)
        /\ e5.needs = <<FALSE>>
    BY <1>6, CommaHolds
  <2> QED
    BY <2>1
<1> HIDE DEF e5
<1>8. Holds(e6, w4, room) /\ e6.needs = <<FALSE>>
  BY <1>1, <1>7, AppendHolds
<1> HIDE DEF e6, w4
<1>9. Holds(e7, w4, room) /\ e7.needs = <<TRUE>>
  BY <1>8, NeedsHolds
<1> HIDE DEF e7
<1>10. w4 = w \o PartOf(Written(f), ~c)
  <2>1. w \in Seq(Token)
    BY DEF Holds
  <2>2. /\ PartOf(Written(f), TRUE) = <<s, m, t>>
        /\ PartOf(Written(f), FALSE) = <<Mark(","), s, m, t>>
    BY WrittenIs, PartShape DEF s, m, t
  <2> DEFINE k == Mark(",")
  <2>3. k \in Token
    BY <1>1
  <2> HIDE DEF k
  <2>4. Together(w, <<>>, w)
    BY <2>1, ConcatEmptySeq DEF Together
  <2>5. Together(w, Append(<<>>, k), Append(w, k))
    BY <2>3, <2>4, AppendBoth
  <2> DEFINE p == IF c THEN Append(<<>>, k) ELSE <<>>
  <2>6. Together(w, p, w1)
    BY <2>4, <2>5 DEF w1, k
  <2> HIDE DEF p
  <2> DEFINE p2 == Append(p, s)
  <2>7. Together(w, p2, w2)
    BY <1>1, <2>6, AppendBoth DEF w2
  <2> HIDE DEF p2
  <2> DEFINE p3 == Append(p2, m)
  <2>8. Together(w, p3, w3)
    BY <1>1, <2>7, AppendBoth DEF w3
  <2> HIDE DEF p3
  <2> DEFINE p4 == Append(p3, t)
  <2>9. w \o p4 = w4
    <3>1. Together(w, p4, w4)
      BY <1>1, <2>8, AppendBoth DEF w4
    <3> QED
      BY <3>1 DEF Together
  <2> HIDE DEF p4
  <2>10. p4 = PartOf(Written(f), ~c)
    <3>1. CASE c
      <4>1. p = <<k>>
        <5>1. Tuples(k, k, k, k)
          BY <2>3, TupleAppend
        <5> QED
          BY <3>1, <5>1 DEF p, Tuples
      <4>2. p4 = <<k, s, m, t>>
        <5>1. /\ Append(<<k>>, s) = <<k, s>> /\ Append(<<k, s>>, m) = <<k, s, m>>
              /\ Append(<<k, s, m>>, t) = <<k, s, m, t>>
          <6>1. Tuples(k, s, m, t)
            BY <1>1, <2>3, TupleAppend
          <6> QED
            BY <6>1, Zenon DEF Tuples
        <5> QED
          BY <4>1, <5>1, Zenon DEF p4, p3, p2
      <4>3. PartOf(Written(f), ~c) = <<k, s, m, t>>
        BY <2>2, <3>1 DEF k
      <4> QED
        BY <4>2, <4>3
    <3>2. CASE ~c
      <4>1. p = <<>>
        BY <3>2 DEF p
      <4>2. p4 = <<s, m, t>>
        <5>1. /\ Append(<<>>, s) = <<s>> /\ Append(<<s>>, m) = <<s, m>>
              /\ Append(<<s, m>>, t) = <<s, m, t>>
          <6>1. Tuples(s, m, t, t)
            BY <1>1, TupleAppend
          <6> QED
            BY <6>1, Zenon DEF Tuples
        <5> QED
          BY <4>1, <5>1, Zenon DEF p4, p3, p2
      <4>3. PartOf(Written(f), ~c) = <<s, m, t>>
        BY <2>2, <3>2
      <4> QED
        BY <4>2, <4>3
    <3> QED
      BY <3>1, <3>2
  <2> QED
    BY <2>9, <2>10
<1> QED
  BY <1>2, <1>9, <1>10

\* The closing brace is written whole or not at all.
LEMMA EndHolds ==
  ASSUME NEW e, NEW w, NEW room \in Nat, Holds(e, w, room), NEW c \in BOOLEAN, e.needs = <<c>>
  PROVE  LET out == endObject(e).out
             whole == Append(w, Mark("}"))
         IN  /\ out \in Seq(Token) /\ Len(Text(out)) <= room
             /\ \/ out = whole
                \/ Len(out) < Len(whole) /\ CutOff(out, whole)
<1> DEFINE m == Mark("}")
           whole == Append(w, m)
           x == append(e, m)
           out == endObject(e).out
           L == Len(w)
<1>1. m \in Token /\ Size(m) = 1
  <2>1. m \in Token /\ m.k = "}"
    BY TokenTypes DEF TokenKinds, Mark
  <2> QED
    BY <2>1 DEF Size, Wire
<1> HIDE DEF m
<1>2. Holds(x, whole, room) /\ x.needs = <<c>>
  BY <1>1, AppendHolds
<1>3. out = x.out
  <2> DEFINE y == [x EXCEPT !.needs = Front(@)]
  <2>1. x \in EncoderType
    BY <1>2 DEF Holds
  <2>2. Front(<<c>>) = <<>>
    BY SubSeqEmpty DEF Front
  <2>3. endObject(e) = NeedsComma(y, TRUE)
    BY DEF endObject, m
  <2> HIDE DEF x
  <2>4. y.needs = <<>> /\ y.out = x.out
    BY <1>2, <2>1, <2>2 DEF EncoderType
  <2> HIDE DEF y
  <2>5. NeedsComma(y, TRUE) = y
    BY <2>4 DEF NeedsComma
  <2> QED
    BY <2>3, <2>4, <2>5
<1>4. out \in Seq(Token) /\ Len(Text(out)) <= room
  <2>1. x.out \in Seq(Token) /\ x.room \in Nat /\ Len(Text(x.out)) \in Nat
        /\ Len(Text(x.out)) + x.room <= room
    BY <1>2 DEF Holds, EncoderType
  <2> HIDE DEF x, out
  <2> QED
    BY <1>3, <2>1
<1>5. /\ e.room \in Nat /\ e.out \in Seq(Token) /\ w \in Seq(Token) /\ L \in Nat
      /\ Len(whole) = L + 1 /\ e.needs = <<c>>
      /\ e = [out |-> e.out, room |-> e.room, needs |-> e.needs]
  <2>1. e \in EncoderType /\ w \in Seq(Token)
    BY DEF Holds
  <2> HIDE DEF x, out
  <2>2. /\ e.room \in Nat /\ e.out \in Seq(Token)
        /\ e = [out |-> e.out, room |-> e.room, needs |-> e.needs]
    BY <2>1 DEF EncoderType
  <2>3. L \in Nat /\ Len(whole) = L + 1
    BY <1>1, <2>1, AppendProperties
  <2> QED
    BY <2>1, <2>2, <2>3
<1>6. CASE e.room > 0
  <2>1. e.out = w
    BY <1>5, <1>6 DEF Holds
  <2>2. x = [e EXCEPT !.out = Append(@, m), !.room = @ - Size(m)]
    BY <1>1, <1>5, <1>6 DEF append
  <2>3. x.out = whole
    BY <1>5, <2>1, <2>2
  <2> QED
    BY <1>3, <1>4, <2>3 DEF m
<1>7. CASE e.room = 0
  <2>1. x = e
    BY <1>1, <1>5, <1>7 DEF append
  <2>2. Len(e.out) <= L
    BY <1>5 DEF Holds, CutOff
  <2>3. Len(e.out) < Len(whole) /\ Len(e.out) # Len(whole)
    BY <1>5, <2>2
  <2>4. x.out = whole \/ CutOff(x.out, whole)
    BY <1>2 DEF Holds
  <2> HIDE DEF whole, x
  <2>5. CutOff(out, whole) /\ Len(out) < Len(whole)
    BY <1>3, <2>1, <2>3, <2>4
  <2> QED
    BY <1>4, <2>5 DEF whole, m
<1>8. e.room > 0 \/ e.room = 0
  BY <1>5
<1> HIDE DEF out, whole, x, L
<1>9. /\ out \in Seq(Token) /\ Len(Text(out)) <= room
      /\ \/ out = whole
         \/ Len(out) < Len(whole) /\ CutOff(out, whole)
  BY <1>6, <1>7, <1>8 DEF whole, out, m
<1> QED
  BY <1>9, Zenon DEF out, whole, m

WrittenFields(fs) == [i \in DOMAIN fs |-> Written(fs[i])]

\* What Encode writes: the whole object, or a beginning of it.
Encoded(out, whole, room) ==
  /\ out \in Seq(Token) /\ Len(Text(out)) <= room
  /\ \/ out = whole
     \/ Len(out) < Len(whole) /\ CutOff(out, whole)

LEMMA EncodeIs ==
  ASSUME NEW fs \in Seq(FieldType), NEW room \in Nat, room > 0
  PROVE  Encoded(Encode(fs, room), ObjectTokens(WrittenFields(fs)), room)
<1> DEFINE n == Len(fs)
           es == WrittenFields(fs)
           base == beginObject(NewEncoder(room))
           Turn(i, e) == value(key(e, fs[i].key), fs[i].val)
           Is(g) == g = [i \in 0..n |-> IF i = 0 THEN base ELSE Turn(i, g[i - 1])]
           After == CHOOSE g : Is(g)
           o == <<Mark("{")>>
           W(i) == o \o Body(SubSeq(es, 1, i))
<1>1. n \in Nat /\ \A i \in 1..n : fs[i] \in FieldType
  BY ElementOfSeq
<1>2. es \in Seq(FieldType) /\ Len(es) = n /\ \A i \in 1..n : es[i] = Written(fs[i])
  <2>1. DOMAIN fs = 1..n
    OBVIOUS
  <2>2. es = [i \in 1..n |-> Written(fs[i])]
    BY <2>1 DEF WrittenFields
  <2>3. \A i \in 1..n : Written(fs[i]) \in FieldType
    BY <1>1, WrittenIs
  <2> HIDE DEF es, n
  <2> QED
    BY <1>1, <2>2, <2>3
<1>3. Encode(fs, room) = endObject(After[n]).out
  BY DEF Encode
<1>4. Mark("{") \in Token /\ Mark("}") \in Token /\ o \in Seq(Token)
  <2>1. Mark("{") \in Token /\ Mark("}") \in Token
    BY TokenTypes DEF TokenKinds
  <2> QED
    BY <2>1, OneElement
<1>5. Holds(base, o, room) /\ base.needs = <<FALSE>>
  <2> DEFINE e0 == NewEncoder(room)
             m == Mark("{")
             x == append(e0, m)
  <2>1. e0 = [out |-> <<>>, room |-> room, needs |-> <<>>]
    BY DEF NewEncoder
  <2>2. e0 \in EncoderType /\ e0.out = <<>> /\ e0.room = room /\ e0.needs = <<>>
    BY <2>1 DEF EncoderType
  <2>3. Len(Text(<<>>)) = 0
    BY <1>4, EmptySeq, TextAppend
  <2> HIDE DEF e0
  <2>4. Holds(e0, <<>>, room)
    BY <2>2, <2>3, EmptySeq DEF Holds
  <2>5. maybeComma(e0) = e0
    BY <2>2 DEF maybeComma
  <2>6. Holds(x, Append(<<>>, m), room) /\ x.needs = <<>>
    BY <1>4, <2>2, <2>4, AppendHolds
  <2>7. Append(<<>>, m) = o
    OBVIOUS
  <2>8. base = [x EXCEPT !.needs = Append(@, FALSE)]
    BY <2>5 DEF beginObject, e0
  <2>9. x \in EncoderType /\ <<FALSE>> \in Seq(BOOLEAN) /\ Append(<<>>, FALSE) = <<FALSE>>
    <3>1. x \in EncoderType
      BY <2>6 DEF Holds
    <3>2. <<FALSE>> \in Seq(BOOLEAN) /\ Append(<<>>, FALSE) = <<FALSE>>
      <4>1. Tuples(FALSE, FALSE, FALSE, FALSE)
        BY TupleAppend
      <4> QED
        BY <4>1, OneElement, Zenon DEF Tuples
    <3> QED
      BY <3>1, <3>2
  <2> HIDE DEF x, base, o, m
  <2>10. base \in EncoderType /\ base.out = x.out /\ base.room = x.room /\ base.needs = <<FALSE>>
    BY <2>6, <2>8, <2>9 DEF EncoderType
  <2> QED
    BY <2>6, <2>7, <2>10 DEF Holds
<1>6. \E g : Is(g)
  <2> DEFINE S == {e \in EncoderType : /\ \E w \in Seq(Token) : Holds(e, w, room)
                                       /\ \E c \in BOOLEAN : e.needs = <<c>>}
             F == [i \in 1..n |-> [e \in S |-> Turn(i, e)]]
  <2>1. base \in S
    BY <1>5 DEF Holds
  <2>2. ASSUME NEW i \in 1..n, NEW e \in S PROVE Turn(i, e) \in S
    <3>1. PICK w \in Seq(Token) : Holds(e, w, room)
      OBVIOUS
    <3>2. PICK c \in BOOLEAN : e.needs = <<c>>
      OBVIOUS
    <3> DEFINE v == w \o PartOf(Written(fs[i]), ~c)
    <3>3. Holds(Turn(i, e), v, room) /\ Turn(i, e).needs = <<TRUE>>
      BY <1>1, <3>1, <3>2, FieldHolds
    <3> HIDE DEF Turn, v
    <3> QED
      BY <3>3 DEF Holds
  <2> HIDE DEF S, Turn, base
  <2>3. F \in [1..n -> [S -> S]]
    BY <2>2
  <2>4. \A i \in 1..n, e \in S : F[i][e] = Turn(i, e)
    OBVIOUS
  <2> HIDE DEF F, n
  <2>5. PICK g \in [0..n -> S] : g[0] = base /\ \A i \in 1..n : g[i] = F[i][g[i - 1]]
    <3>1. n \in Nat
      BY <1>1
    <3> QED
      BY <2>1, <2>3, <3>1, StepsExist
  <2>6. \A i \in 1..n : g[i] = Turn(i, g[i - 1])
    <3>1. \A i \in 1..n : i - 1 \in 0..n
      BY <1>1
    <3> QED
      BY <2>4, <2>5, <3>1
  <2>7. \A i \in 0..n : i = 0 \/ i \in 1..n
    BY <1>1
  <2>8. \A i \in 0..n : g[i] = IF i = 0 THEN base ELSE Turn(i, g[i - 1])
    BY <2>5, <2>6, <2>7
  <2>9. g = [i \in 0..n |-> g[i]]
    OBVIOUS
  <2>10. Is(g)
    BY <2>8, <2>9
  <2> QED
    BY <2>10
<1>7. Is(After)
  <2> HIDE DEF Is
  <2> QED
    BY <1>6, Zenon
<1>8. /\ After[0] = base
      /\ \A i \in 1..n : After[i] = Turn(i, After[i - 1])
  <2> HIDE DEF After, n, Turn, base
  <2>1. 0 \in 0..n /\ \A i \in 1..n : i \in 0..n /\ i # 0
    BY <1>1
  <2> QED
    BY <1>7, <2>1
<1> HIDE DEF After, Turn, base, Is
<1> DEFINE P(i) == Holds(After[i], W(i), room) /\ \E c \in BOOLEAN : After[i].needs = <<c>> /\ c = (i > 0)
<1>9. \A i \in 0..n : P(i)
  <2> DEFINE Bad == {i \in Nat : i <= n /\ ~P(i)}
  <2> HIDE DEF P, n
  <2> SUFFICES ASSUME Bad # {} PROVE FALSE
    BY <1>1
  <2>1. PICK i \in Bad : \A j \in Bad : i <= j
    <3>1. Bad \in SUBSET Nat
      OBVIOUS
    <3> HIDE DEF Bad
    <3> QED
      BY <3>1, LeastNumber
  <2> HIDE DEF P
  <2>2. i \in Nat /\ i <= n /\ ~P(i)
    OBVIOUS
  <2>3. CASE i = 0
    <3>1. SubSeq(es, 1, 0) = <<>>
      BY SubSeqEmpty
    <3>2. Body(<<>>) = <<>>
      <4>1. Parts(<<>>) = <<>>
        BY DEF Parts
      <4> QED
        BY <4>1, FlattenEmpty DEF Body
    <3>3. W(0) = o
      BY <1>4, <3>1, <3>2, ConcatEmptySeq
    <3> HIDE DEF W, o
    <3>4. Holds(After[0], W(0), room) /\ After[0].needs = <<FALSE>>
      BY <1>5, <1>8, <3>3
    <3>5. P(0)
      <4>1. FALSE = (0 > 0)
        OBVIOUS
      <4> QED
        BY <3>4, <4>1 DEF P
    <3> QED
      BY <2>2, <2>3, <3>5
  <2>4. CASE i > 0
    <3>1. i \in 1..n /\ i - 1 \in Nat /\ i - 1 <= n /\ i - 1 \notin Bad
      <4> HIDE DEF Bad
      <4> QED
        BY <1>1, <2>1, <2>2, <2>4
    <3>2. P(i - 1)
      BY <3>1
    <3> HIDE DEF Bad
    <3>3. PICK c \in BOOLEAN : After[i - 1].needs = <<c>> /\ c = (i - 1 > 0)
      BY <3>2 DEF P
    <3> DEFINE gs == SubSeq(es, 1, i - 1)
               f == fs[i]
               u == Written(f)
    <3>4. f \in FieldType /\ u \in FieldType /\ es[i] = u
      BY <1>1, <1>2, <3>1, WrittenIs
    <3>5. gs \in Seq(FieldType) /\ SubSeq(es, 1, i) = Append(gs, u) /\ (gs = <<>> <=> ~c)
      <4> HIDE DEF es, n
      <4>1. \A j \in 1..(i - 1) : es[j] \in FieldType
        BY <1>1, <1>2, <3>1, ElementOfSeq
      <4>2. gs \in Seq(FieldType) /\ Len(gs) = i - 1
        BY <3>1, <4>1, SubSeqProperties
      <4>3. SubSeq(es, 1, i) = gs \o <<es[i]>>
        <5>1. 1 \in 1..Len(es) /\ i \in 1..Len(es)
          BY <1>1, <1>2, <3>1
        <5> QED
          BY <1>2, <5>1, SubSeqRecursiveSecond
      <4> HIDE DEF gs, u, f
      <4>4. Append(gs, u) = gs \o <<u>>
        BY <3>4, <4>2, AppendIsConcat
      <4>5. gs = <<>> <=> i - 1 = 0
        BY <3>1, <4>2, EmptySeq
      <4>6. c <=> i - 1 > 0
        BY <3>3
      <4> QED
        BY <3>1, <3>4, <4>2, <4>3, <4>4, <4>5, <4>6
    <3> DEFINE a == Body(gs)
               p == PartOf(u, ~c)
               v == W(i - 1)
               w == W(i)
    <3>6. Body(SubSeq(es, 1, i)) = a \o p /\ a \in Seq(Token) /\ p \in Seq(Token)
      <4> HIDE DEF gs, u, f
      <4>1. Body(Append(gs, u)) = Body(gs) \o PartOf(u, gs = <<>>)
        BY <3>4, <3>5, BodyAppend
      <4>2. PartOf(u, gs = <<>>) = PartOf(u, ~c)
        BY <3>5 DEF PartOf
      <4>3. Body(gs) \in Seq(Token)
        BY <3>5, BodyShape DEF BodyIs
      <4>4. PartOf(u, ~c) \in Seq(Token)
        <5>1. CASE c
          <6>1. PartOf(u, ~c) = PartOf(u, FALSE)
            BY <5>1
          <6> QED
            BY <3>4, <6>1, PartShape
        <5>2. CASE ~c
          <6>1. PartOf(u, ~c) = PartOf(u, TRUE)
            BY <5>2
          <6> QED
            BY <3>4, <6>1, PartShape
        <5> QED
          BY <5>1, <5>2
      <4> QED
        BY <3>5, <4>1, <4>2, <4>3, <4>4
    <3>7. v = o \o a /\ w = o \o (a \o p)
      BY <3>6
    <3> HIDE DEF v, w, a, p, o, W
    <3>8. w = v \o p
      <4>1. o \in Seq(Token) /\ a \in Seq(Token) /\ p \in Seq(Token)
        BY <1>4, <3>6
      <4>2. Together(o \o a, p, o \o (a \o p))
        BY <4>1, JoinThree
      <4> QED
        BY <3>7, <4>2 DEF Together
    <3>9. /\ Holds(Turn(i, After[i - 1]), v \o p, room)
          /\ Turn(i, After[i - 1]).needs = <<TRUE>>
      <4>1. Holds(After[i - 1], v, room)
        BY <3>2 DEF P, v
      <4> QED
        BY <3>3, <3>4, <4>1, FieldHolds DEF Turn, p, u, f
    <3>10. Holds(After[i], w, room) /\ After[i].needs = <<TRUE>>
      BY <1>8, <3>1, <3>8, <3>9
    <3>11. P(i)
      BY <2>4, <3>10 DEF P, w
    <3> QED
      BY <2>2, <3>11
  <2> QED
    BY <2>2, <2>3, <2>4
<1>10. PICK c \in BOOLEAN : After[n].needs = <<c>>
  <2>1. P(n)
    <3> HIDE DEF P
    <3> QED
      BY <1>1, <1>9
  <2> QED
    BY <2>1
<1>11. Holds(After[n], o \o Body(es), room)
  <2>1. P(n)
    <3> HIDE DEF P
    <3> QED
      BY <1>1, <1>9
  <2>2. SubSeq(es, 1, n) = es
    <3> HIDE DEF es, n
    <3> QED
      BY <1>2, SubSeqFull
  <2> QED
    BY <2>1, <2>2
<1> DEFINE w == o \o Body(es)
           out == endObject(After[n]).out
           whole == Append(w, Mark("}"))
<1>12. ObjectTokens(es) = whole
  <2>1. ObjectTokens(es) = (<<Mark("{")>> \o Body(es)) \o <<Mark("}")>>
    BY ObjectIsParts
  <2>2. w \in Seq(Token)
    BY <1>11 DEF Holds
  <2> HIDE DEF w
  <2>3. whole = w \o <<Mark("}")>>
    BY <1>4, <2>2, AppendIsConcat
  <2> QED
    BY <2>1, <2>3 DEF w
<1> HIDE DEF w, P, W, o, es, n
<1>13. /\ out \in Seq(Token) /\ Len(Text(out)) <= room
       /\ \/ out = whole
          \/ Len(out) < Len(whole) /\ CutOff(out, whole)
  <2>1. Holds(After[n], w, room)
    BY <1>11 DEF w
  <2> QED
    BY <1>10, <2>1, EndHolds
<1> QED
  BY <1>3, <1>12, <1>13 DEF Encoded, es

-----------------------------------------------------------------------------
\* The steps of the dispatch.

LEMMA Bounds ==
  /\ BufferSize \in Nat \ {0} /\ LineCap \in Nat /\ LineCap > 0 /\ HostSize \in Nat
  /\ IntRange \in Nat /\ IntRange > 1 /\ BufferSize >= Len(OldCommand.src)
<1>1. /\ BufferSize \in Nat \ {0} /\ LineCap \in Nat \ {0} /\ HostSize \in Nat \ {0}
      /\ IntRange \in Nat \ {0} /\ PortMax \in Nat \ {0} /\ PortMax < IntRange
      /\ BufferSize >= Len(OldCommand.src)
  BY ConstantsAssumption
<1> QED
  BY <1>1

LEMMA NarrowIs == \A i \in Int : Narrow(i) \in 0..(IntRange - 1)
  BY Bounds DEF Narrow

LEMMA OverlayIs ==
  ASSUME NEW T, NEW old \in Seq(T), NEW new \in Seq(T), NEW n \in Nat,
         Len(old) <= n, Len(new) <= n
  PROVE  Overlay(old, new) \in Seq(T) /\ Len(Overlay(old, new)) <= n
<1> DEFINE a == Len(new)
           b == Len(old)
           s == SubSeq(old, a + 1, b)
           d == new \o s
<1>1. a \in Nat /\ b \in Nat /\ a <= n /\ b <= n
  BY LenProperties
<1>2. \A i \in (a + 1)..b : old[i] \in T
  BY <1>1, ElementOfSeq
<1> HIDE DEF a, b
<1>3. s \in Seq(T) /\ Len(s) = IF a + 1 <= b THEN b - (a + 1) + 1 ELSE 0
  BY <1>1, <1>2, SubSeqProperties
<1> HIDE DEF s
<1>4. d \in Seq(T) /\ Follows(d, new, s, a, Len(s))
  BY <1>1, ConcatAt, <1>3 DEF a
<1> HIDE DEF d
<1>5. Len(d) <= n
  BY <1>1, <1>3, <1>4 DEF Follows
<1> QED
  BY <1>4, <1>5 DEF d, s, a, b, Overlay

MailboxType == [src : Seq(Decoded), len : 0..BufferSize, seq : 0..(IntRange - 1), ready : BOOLEAN]
LocalsType == [t_val : Seq(Decoded), src_len : 0..BufferSize, seq : 0..(IntRange - 1), ts_ms : Int,
               saw_t_bridge : BOOLEAN, host : Seq(Decoded), port : 0..(IntRange - 1)]

\* The line and the place of the reader in it; the mailbox; the locals; and the
\* envelope, which is what Encode makes of the fields that were meant.
ControlInv ==
  /\ pc \in {"start", "done"} \cup Loops
  /\ caller \in {"dispatch_line", "parseReply"} /\ torn \in BOOLEAN
ReaderInv == line \in Seq(Token) /\ r \in ReaderOf(line)
MailboxInv == mailbox \in MailboxType /\ Len(mailbox.src) <= BufferSize
LocalsInv == got \in LocalsType /\ Len(got.host) <= HostSize
QueuedInv ==
  /\ queued.meant \in Seq(FieldType)
  /\ queued.out \in {<<>>, Encode(queued.meant, LineCap)}
TypeInv == ControlInv /\ ReaderInv /\ MailboxInv /\ LocalsInv /\ QueuedInv

LEMMA LoopsAre ==
  /\ Loops = {"type", "lua_exec", "ping", "reply"}
  /\ DOMAIN Wanted["type"] = {"t"} /\ Wanted["type"]["t"] = "str"
  /\ DOMAIN Wanted["lua_exec"] = {"seq", "src"}
  /\ Wanted["lua_exec"]["seq"] = "int" /\ Wanted["lua_exec"]["src"] = "str"
  /\ DOMAIN Wanted["ping"] = {"ts_ms"} /\ Wanted["ping"]["ts_ms"] = "int"
  /\ DOMAIN Wanted["reply"] = {"t", "host", "port"}
  /\ Wanted["reply"]["t"] = "str" /\ Wanted["reply"]["host"] = "str"
  /\ Wanted["reply"]["port"] = "int"
  BY DEF Loops, Wanted

\* What nextField and the read of a value return at a turn of a loop.
LEMMA FieldIs ==
  ASSUME ReaderInv
  PROVE  /\ Field.ok \in BOOLEAN /\ Field.r \in ReaderOf(line)
         /\ Field.ok => Field.val.s \in Seq(Decoded)
<1>1. line \in Seq(Token) /\ r \in ReaderOf(line) /\ Field = nextField(line, r)
  BY DEF ReaderInv, Field
<1> DEFINE v == nextField(line, r)
<1>2. /\ v.ok \in BOOLEAN /\ v.r \in ReaderOf(line)
      /\ v.ok => v.val.s \in Seq(Decoded)
  BY <1>1, NextFieldIs
<1> QED
  BY <1>1, <1>2

LEMMA ValueIs ==
  ASSUME ReaderInv, NEW word
  PROVE  /\ Value(word).ok \in BOOLEAN /\ Value(word).r \in ReaderOf(line)
         /\ Value(word).ok /\ Wanted[pc][word] = "str" => Value(word).val.s \in Seq(Decoded)
         /\ Value(word).ok /\ Wanted[pc][word] = "int" => Value(word).val.n \in Int
<1>1. line \in Seq(Token) /\ Field.r \in ReaderOf(line)
  BY FieldIs DEF ReaderInv
<1> DEFINE s == nextString(line, Field.r)
           i == nextInt(line, Field.r)
<1>2. Value(word) = IF Wanted[pc][word] = "str" THEN s ELSE i
  BY DEF Value
<1> HIDE DEF Field
<1>3. s.ok \in BOOLEAN /\ s.r \in ReaderOf(line) /\ (s.ok => s.val.s \in Seq(Decoded))
  BY <1>1, NextStringIs
<1>4. i.ok \in BOOLEAN /\ i.r \in ReaderOf(line) /\ (i.ok => i.val.n \in Int)
  BY <1>1, NextIntIs
<1> HIDE DEF s, i
<1> QED
  BY <1>2, <1>3, <1>4

LEMMA EnterIs ==
  ASSUME NEW b \in Seq(Token)
  PROVE  LET entered == enterObject(b, NewReader)
         IN  /\ entered.ok \in BOOLEAN /\ entered.r \in ReaderOf(b)
             /\ entered.ok <=> KindAt(b, 1) = "{"
             /\ entered.ok => entered.r = [p |-> 2, needs_comma |-> FALSE, error |-> FALSE]
<1>1. NewReader \in ReaderOf(b) /\ NewReader.p = 1 /\ Len(b) \in Nat
  BY DEF NewReader, ReaderOf
<1>2. CASE KindAt(b, 1) = "{"
  <2>1. "{" \in TokenKinds
    BY DEF TokenKinds
  <2>2. 1 \in 1..Len(b)
    BY <1>2, <2>1, KindInside
  <2> DEFINE r1 == [p |-> 2, needs_comma |-> FALSE, error |-> FALSE]
             r2 == [NewReader EXCEPT !.p = NewReader.p + 1]
  <2>3. r2 = r1
    <3>1. NewReader.p = 1 /\ NewReader.needs_comma = FALSE /\ NewReader.error = FALSE
      BY DEF NewReader
    <3>2. r2 = [p |-> NewReader.p + 1, needs_comma |-> NewReader.needs_comma,
                error |-> NewReader.error]
      BY <1>1 DEF ReaderOf
    <3>3. NewReader.p + 1 = 2
      BY <3>1
    <3> HIDE DEF r2
    <3> QED
      BY <3>1, <3>2, <3>3, Zenon
  <2>4. KindAt(b, NewReader.p) = "{"
    BY <1>1, <1>2
  <2>5. enterObject(b, NewReader) = Yes(r2, Mark("{"))
    BY <2>4, Zenon DEF enterObject
  <2>6. Yes(r2, Mark("{")).ok = TRUE /\ Yes(r2, Mark("{")).r = r2
    BY DEF Yes
  <2>7. [p |-> 2, needs_comma |-> FALSE, error |-> FALSE] \in ReaderOf(b)
    BY <1>1, <2>2 DEF ReaderOf
  <2> QED
    BY <1>2, <2>3, <2>5, <2>6, <2>7
<1>3. CASE KindAt(b, 1) # "{"
  <2>1. enterObject(b, NewReader) = Fail(NewReader)
    BY <1>3 DEF enterObject, NewReader
  <2> QED
    BY <1>1, <1>3, <2>1, FailIs
<1> QED
  BY <1>2, <1>3

LEMMA TypeInit == Init => TypeInv
<1> SUFFICES ASSUME Init PROVE TypeInv
  OBVIOUS
<1>1. <<>> \in Seq(Token) /\ Len(<<>>) = 0 /\ <<>> \in Seq(Decoded) /\ <<>> \in Seq(FieldType)
  BY EmptySeq
<1>2. ControlInv
  BY DEF Init, ControlInv
<1>3. ReaderInv
  BY <1>1 DEF Init, ReaderInv, ReaderOf, NewReader
<1>4. MailboxInv
  <2>1. <<"old", "old">> \in Seq(Decoded)
    BY ConstantsAssumption DEF Decoded
  <2>2. mailbox.src = <<"old", "old">> /\ Len(<<"old", "old">>) = 2
    BY DEF Init, OldCommand
  <2>3. 2 \in 0..BufferSize /\ 1 \in 0..(IntRange - 1)
    <3>1. Len(OldCommand.src) = 2
      BY DEF OldCommand
    <3> QED
      BY <3>1, Bounds
  <2> QED
    BY <2>1, <2>2, <2>3 DEF Init, OldCommand, MailboxInv, MailboxType
<1>5. LocalsInv
  <2>1. 0 \in 0..BufferSize /\ 0 \in 0..(IntRange - 1) /\ HostSize >= 0
    BY Bounds
  <2> QED
    BY <1>1, <2>1 DEF Init, NoLocals, LocalsInv, LocalsType
<1>6. QueuedInv
  BY <1>1 DEF Init, QueuedInv
<1> QED
  BY <1>2, <1>3, <1>4, <1>5, <1>6 DEF TypeInv

LEMMA ArriveType ==
  ASSUME TypeInv, NEW who \in {"dispatch_line", "parseReply"}, NEW fs \in Seq(FieldType),
         Arrive(who, fs)
  PROVE  TypeInv'
<1> DEFINE b == ObjectTokens(fs)
<1>1. b \in Seq(Token)
  BY ObjectShape
<1> HIDE DEF b
<1>2. line' \in Seq(Token) /\ torn' \in BOOLEAN
  <2>1. PICK n \in 0..Len(b), cut \in BOOLEAN :
          /\ cut => n > 0 /\ CanBeCut(b[n])
          /\ line' = FirstTokens(b, n, cut) /\ torn' = (n < Len(b))
    BY DEF Arrive, b
  <2>2. FirstTokens(b, n, cut) \in Seq(Token)
    BY <1>1, <2>1, FirstTokensAre
  <2> QED
    BY <2>1, <2>2
<1> DEFINE entered == enterObject(line', NewReader)
<1>3. r' = entered.r /\ entered.r \in ReaderOf(line')
  <2>1. entered.r \in ReaderOf(line')
    BY <1>2, EnterIs
  <2> QED
    BY <2>1 DEF Arrive
<1>4. pc' \in {"done", "reply", "type"} /\ caller' = who
  BY DEF Arrive
<1>5. UNCHANGED <<got, mailbox, queued>>
  BY DEF Arrive
<1> HIDE DEF entered
<1>6. ControlInv'
  BY <1>2, <1>4, LoopsAre DEF ControlInv
<1>7. ReaderInv'
  <2>1. r' \in ReaderOf(line')
    BY <1>3
  <2> QED
    BY <1>2, <2>1 DEF ReaderInv, ReaderOf
<1> QED
  BY <1>5, <1>6, <1>7 DEF TypeInv, MailboxInv, LocalsInv, QueuedInv

\* A value is read: the reader goes on, and the locals and the mailbox keep
\* their types whatever the value is.
LEMMA FieldTakenType ==
  ASSUME TypeInv, FieldTaken
  PROVE  TypeInv'
<1>1. \E loop \in Loops : \E word : Take(loop, word)
  BY LoopsAre DEF FieldTaken, TypeField, SeqField, SrcField, TsField, BridgeField,
                  HostField, PortField
<1>2. UNCHANGED <<pc, caller, line, torn, queued>>
  BY <1>1 DEF Take, input
<1>3. r' \in ReaderOf(line)
  <2>1. PICK loop \in Loops : \E word : Take(loop, word)
    BY <1>1
  <2>2. PICK word : Take(loop, word)
    BY <2>1
  <2>3. Value(word).r \in ReaderOf(line) /\ r' = Value(word).r
    BY <2>2, ValueIs DEF TypeInv, Take
  <2> QED
    BY <2>3
<1>4. ControlInv' /\ ReaderInv' /\ QueuedInv'
  BY <1>2, <1>3 DEF TypeInv, ControlInv, ReaderInv, QueuedInv, ReaderOf
<1>5. LocalsInv /\ MailboxInv /\ ReaderInv
  BY DEF TypeInv
<1>6. CASE TypeField
  <2>1. pc = "type" /\ Value("t").ok
    BY <1>6 DEF TypeField, Take
  <2>2. Value("t").val.s \in Seq(Decoded)
    BY <1>5, <2>1, ValueIs, LoopsAre
  <2>3. got' = [got EXCEPT !.t_val = Value("t").val.s] /\ UNCHANGED mailbox
    BY <1>6 DEF TypeField
  <2> DEFINE x == Value("t").val.s
  <2> HIDE DEF x
  <2>4. LocalsInv'
    BY <1>5, <2>2, <2>3 DEF LocalsInv, LocalsType, x
  <2> QED
    BY <1>4, <1>5, <2>3, <2>4 DEF TypeInv, MailboxInv
<1>7. CASE SeqField
  <2>1. pc = "lua_exec" /\ Value("seq").ok
    BY <1>7 DEF SeqField, Take
  <2>2. Narrow(Value("seq").val.n) \in 0..(IntRange - 1)
    BY <1>5, <2>1, ValueIs, LoopsAre, NarrowIs
  <2>3. got' = [got EXCEPT !.seq = Narrow(Value("seq").val.n)] /\ UNCHANGED mailbox
    BY <1>7 DEF SeqField
  <2>4. LocalsInv'
    BY <1>5, <2>2, <2>3 DEF LocalsInv, LocalsType
  <2> QED
    BY <1>4, <1>5, <2>3, <2>4 DEF TypeInv, MailboxInv
<1>8. CASE SrcField
  <2> DEFINE x == Value("src").val.s
             src == Prefix(x, BufferSize)
             over == Overlay(mailbox.src, src)
  <2>1. pc = "lua_exec" /\ Value("src").ok
    BY <1>8 DEF SrcField, Take
  <2>2. x \in Seq(Decoded)
    BY <1>5, <2>1, ValueIs, LoopsAre
  <2>3. /\ got' = [got EXCEPT !.src_len = Len(src)]
        /\ mailbox' = [mailbox EXCEPT !.src = over]
    BY <1>8 DEF SrcField
  <2> HIDE DEF x
  <2>4. src \in Seq(Decoded) /\ Len(src) \in 0..BufferSize
    <3>1. /\ src \in Seq(Decoded)
          /\ Len(src) = IF BufferSize < Len(x) THEN BufferSize ELSE Len(x)
      BY <2>2, Bounds, PrefixIs
    <3>2. Len(x) \in Nat
      BY <2>2, LenProperties
    <3> HIDE DEF src
    <3> QED
      BY <3>1, <3>2, Bounds
  <2> HIDE DEF src
  <2>5. over \in Seq(Decoded) /\ Len(over) <= BufferSize
    <3>1. mailbox.src \in Seq(Decoded) /\ Len(mailbox.src) <= BufferSize
      BY <1>5 DEF MailboxInv, MailboxType
    <3>2. Len(src) <= BufferSize /\ BufferSize \in Nat
      BY <2>4, Bounds
    <3> QED
      BY <2>4, <3>1, <3>2, OverlayIs
  <2> HIDE DEF over
  <2>6. LocalsInv'
    BY <1>5, <2>3, <2>4 DEF LocalsInv, LocalsType
  <2>7. MailboxInv'
    BY <1>5, <2>3, <2>5 DEF MailboxInv, MailboxType
  <2> QED
    BY <1>4, <2>6, <2>7 DEF TypeInv
<1>9. CASE TsField
  <2>1. pc = "ping" /\ Value("ts_ms").ok
    BY <1>9 DEF TsField, Take
  <2>2. Value("ts_ms").val.n \in Int
    BY <1>5, <2>1, ValueIs, LoopsAre
  <2>3. got' = [got EXCEPT !.ts_ms = Value("ts_ms").val.n] /\ UNCHANGED mailbox
    BY <1>9 DEF TsField
  <2>4. LocalsInv'
    BY <1>5, <2>2, <2>3 DEF LocalsInv, LocalsType
  <2> QED
    BY <1>4, <1>5, <2>3, <2>4 DEF TypeInv, MailboxInv
<1>10. CASE BridgeField
  <2> DEFINE saw == got.saw_t_bridge \/ Value("t").val.s = <<"bridge">>
  <2>1. got' = [got EXCEPT !.saw_t_bridge = saw] /\ UNCHANGED mailbox
    BY <1>10 DEF BridgeField
  <2>2. saw \in BOOLEAN
    OBVIOUS
  <2> HIDE DEF saw
  <2>3. LocalsInv'
    BY <1>5, <2>1, <2>2 DEF LocalsInv, LocalsType
  <2> QED
    BY <1>4, <1>5, <2>1, <2>3 DEF TypeInv, MailboxInv
<1>11. CASE HostField
  <2> DEFINE x == Value("host").val.s
             host == Prefix(x, HostSize)
  <2>1. pc = "reply" /\ Value("host").ok
    BY <1>11 DEF HostField, Take
  <2>2. x \in Seq(Decoded)
    BY <1>5, <2>1, ValueIs, LoopsAre
  <2>3. got' = [got EXCEPT !.host = host] /\ UNCHANGED mailbox
    BY <1>11 DEF HostField
  <2> HIDE DEF x
  <2>4. host \in Seq(Decoded) /\ Len(host) <= HostSize
    <3>1. /\ host \in Seq(Decoded)
          /\ Len(host) = IF HostSize < Len(x) THEN HostSize ELSE Len(x)
      BY <2>2, Bounds, PrefixIs
    <3>2. Len(x) \in Nat
      BY <2>2, LenProperties
    <3> HIDE DEF host
    <3> QED
      BY <3>1, <3>2, Bounds
  <2> HIDE DEF host
  <2>5. LocalsInv'
    BY <1>5, <2>3, <2>4 DEF LocalsInv, LocalsType
  <2> QED
    BY <1>4, <1>5, <2>3, <2>5 DEF TypeInv, MailboxInv
<1>12. CASE PortField
  <2>1. pc = "reply" /\ Value("port").ok
    BY <1>12 DEF PortField, Take
  <2>2. Narrow(Value("port").val.n) \in 0..(IntRange - 1)
    BY <1>5, <2>1, ValueIs, LoopsAre, NarrowIs
  <2>3. got' = [got EXCEPT !.port = Narrow(Value("port").val.n)] /\ UNCHANGED mailbox
    BY <1>12 DEF PortField
  <2>4. LocalsInv'
    BY <1>5, <2>2, <2>3 DEF LocalsInv, LocalsType
  <2> QED
    BY <1>4, <1>5, <2>3, <2>4 DEF TypeInv, MailboxInv
<1> QED
  BY <1>6, <1>7, <1>8, <1>9, <1>10, <1>11, <1>12 DEF FieldTaken

\* The steps that write an envelope.
LEMMA WriteType ==
  ASSUME NEW fs \in Seq(FieldType), Write(fs)
  PROVE  QueuedInv'
  BY DEF Write, QueuedInv

LEMMA PongFields ==
  ASSUME NEW ts \in Int
  PROVE  <<[key |-> <<"t">>, val |-> Str(<<"pong">>)],
           [key |-> <<"ts_ms">>, val |-> Int64(ts)]>> \in Seq(FieldType)
<1>1. {"t", "pong", "ts_ms"} \subseteq Char
  BY ConstantsAssumption
<1>2. <<"t">> \in Seq(Char) /\ <<"pong">> \in Seq(Char) /\ <<"ts_ms">> \in Seq(Char)
  BY <1>1
<1> DEFINE a == [key |-> <<"t">>, val |-> Str(<<"pong">>)]
           b == [key |-> <<"ts_ms">>, val |-> Int64(ts)]
<1>3. a \in FieldType
  BY <1>2, TokenTypes DEF FieldType
<1>4. b \in FieldType
  BY <1>2, TokenTypes DEF FieldType
<1> HIDE DEF a, b
<1>5. <<a, b>> \in Seq(FieldType)
  BY <1>3, <1>4
<1> QED
  BY <1>5 DEF a, b

LEMMA TypeStep == TypeInv /\ [Next]_vars => TypeInv'
<1> SUFFICES ASSUME TypeInv, [Next]_vars PROVE TypeInv'
  OBVIOUS
<1> USE DEF TypeInv
<1>1. ASSUME NEW fs \in Lines, Arrive("dispatch_line", fs) PROVE TypeInv'
  <2>1. fs \in Seq(FieldType)
    BY ConstantsAssumption
  <2> QED
    BY <1>1, <2>1, ArriveType
<1>2. ASSUME NEW fs \in Replies, Arrive("parseReply", fs) PROVE TypeInv'
  <2>1. fs \in Seq(FieldType)
    BY ConstantsAssumption
  <2> QED
    BY <1>2, <2>1, ArriveType
<1>3. CASE FieldTaken
  BY <1>3, FieldTakenType
<1>4. CASE SkipField
  <2>1. Field.r \in ReaderOf(line) /\ line \in Seq(Token)
    BY FieldIs DEF ReaderInv
  <2>2. r' = skipValue(line, Field.r) /\ UNCHANGED <<pc, caller, line, torn, got, mailbox, queued>>
    BY <1>4 DEF SkipField, input
  <2> HIDE DEF Field
  <2>3. skipValue(line, Field.r) \in ReaderOf(line)
    BY <2>1, SkipIs
  <2>4. ReaderInv'
    BY <2>1, <2>2, <2>3 DEF ReaderInv, ReaderOf
  <2> QED
    BY <2>2, <2>4 DEF ControlInv, MailboxInv, LocalsInv, QueuedInv
<1>5. CASE GiveUp
  <2>1. pc' = "done" /\ UNCHANGED <<caller, line, torn, r, got, mailbox, queued>>
    BY <1>5 DEF GiveUp, input
  <2> QED
    BY <2>1 DEF ControlInv, ReaderInv, ReaderOf, MailboxInv, LocalsInv, QueuedInv
<1>6. ASSUME NEW word \in {"lua_exec", "ping"}, SecondPass(word) PROVE TypeInv'
  <2>1. pc' = word /\ r' = enterObject(line, NewReader).r
    BY <1>6 DEF SecondPass
  <2>2. UNCHANGED <<caller, line, torn, got, mailbox, queued>>
    BY <1>6 DEF SecondPass, input
  <2>3. r' \in ReaderOf(line)
    BY <2>1, EnterIs DEF ReaderInv
  <2>4. ControlInv' /\ ReaderInv'
    BY <2>1, <2>2, <2>3, LoopsAre DEF ControlInv, ReaderInv, ReaderOf
  <2> QED
    BY <2>2, <2>4 DEF MailboxInv, LocalsInv, QueuedInv
<1>7. CASE HelloAck \/ UnknownType \/ ReplyEnds
  <2>1. pc' = "done" /\ UNCHANGED <<caller, line, torn, r, got, mailbox, queued>>
    BY <1>7 DEF HelloAck, UnknownType, ReplyEnds, Return, input
  <2> QED
    BY <2>1 DEF ControlInv, ReaderInv, ReaderOf, MailboxInv, LocalsInv, QueuedInv
<1>8. CASE Kick
  <2>1. pc' = "done" /\ UNCHANGED <<caller, line, torn, r, got, queued>>
    BY <1>8 DEF Kick, Return, input
  <2>2. mailbox' = [mailbox EXCEPT !.ready = FALSE]
    BY <1>8 DEF Kick
  <2>3. MailboxInv'
    BY <2>2 DEF MailboxInv, MailboxType
  <2> QED
    BY <2>1, <2>3 DEF ControlInv, ReaderInv, ReaderOf, LocalsInv, QueuedInv
<1>9. CASE HandOver
  <2>1. pc' = "done" /\ UNCHANGED <<caller, line, torn, r, got, queued>>
    BY <1>9 DEF HandOver, Return, input
  <2>2. mailbox' = [mailbox EXCEPT !.len = got.src_len, !.seq = got.seq, !.ready = TRUE]
    BY <1>9 DEF HandOver
  <2>3. MailboxInv'
    BY <2>2 DEF MailboxInv, MailboxType, LocalsInv, LocalsType
  <2> QED
    BY <2>1, <2>3 DEF ControlInv, ReaderInv, ReaderOf, LocalsInv, QueuedInv
<1>10. CASE enqueue_pong
  <2>1. pc' = "done" /\ UNCHANGED <<caller, line, torn, r, got, mailbox>>
    BY <1>10 DEF enqueue_pong, Return, input
  <2> DEFINE fs == <<[key |-> <<"t">>, val |-> Str(<<"pong">>)],
                     [key |-> <<"ts_ms">>, val |-> Int64(got.ts_ms)]>>
  <2>2. Write(fs)
    BY <1>10 DEF enqueue_pong
  <2>3. fs \in Seq(FieldType)
    BY PongFields DEF LocalsInv, LocalsType
  <2> HIDE DEF fs
  <2>4. QueuedInv'
    BY <2>2, <2>3, WriteType
  <2> QED
    BY <2>1, <2>4 DEF ControlInv, ReaderInv, ReaderOf, MailboxInv, LocalsInv
<1>11. ASSUME NEW fs \in Envelopes, WriteEnvelope(fs) PROVE TypeInv'
  <2>1. pc' = "done" /\ UNCHANGED <<caller, line, torn, r, got, mailbox>>
    BY <1>11 DEF WriteEnvelope, input
  <2>2. fs \in Seq(FieldType)
    BY ConstantsAssumption
  <2>3. QueuedInv'
    BY <1>11, <2>2, WriteType DEF WriteEnvelope
  <2> QED
    BY <2>1, <2>3 DEF ControlInv, ReaderInv, ReaderOf, MailboxInv, LocalsInv
<1>12. CASE UNCHANGED vars
  BY <1>12 DEF vars, ControlInv, ReaderInv, ReaderOf, MailboxInv, LocalsInv, QueuedInv
<1> QED
  BY <1>1, <1>2, <1>3, <1>4, <1>5, <1>6, <1>7, <1>8, <1>9, <1>10, <1>11, <1>12 DEF Next

\* What the types say of an envelope: it fits into the LineBuffer.
LEMMA EnvelopeIs ==
  ASSUME QueuedInv, queued.out # <<>>
  PROVE  Encoded(queued.out, ObjectTokens(WrittenFields(queued.meant)), LineCap)
<1>1. queued.out = Encode(queued.meant, LineCap) /\ queued.meant \in Seq(FieldType)
  BY DEF QueuedInv
<1> QED
  BY <1>1, Bounds, EncodeIs

LEMMA TypeImplies == TypeInv => TypeOK
<1> SUFFICES ASSUME TypeInv PROVE TypeOK
  OBVIOUS
<1>1. line \in Seq(Token) /\ \A i \in DOMAIN line : line[i].k \in TokenKinds
  <2>1. line \in Seq(Token)
    BY DEF TypeInv, ReaderInv
  <2>2. \A i \in DOMAIN line : line[i] \in Token
    BY <2>1
  <2> QED
    BY <2>1, <2>2 DEF Token
<1>2. r.p \in 1..(Len(line) + 1)
  BY DEF TypeInv, ReaderInv, ReaderOf
<1>3. /\ Len(mailbox.src) <= BufferSize /\ mailbox.len <= BufferSize
      /\ mailbox.seq \in 0..(IntRange - 1) /\ mailbox.ready \in BOOLEAN
  <2>1. mailbox.len \in 0..BufferSize
    BY DEF TypeInv, MailboxInv, MailboxType
  <2>2. mailbox.len <= BufferSize
    BY <2>1, Bounds
  <2> QED
    BY <2>2 DEF TypeInv, MailboxInv, MailboxType
<1>4. Len(got.host) <= HostSize /\ got.port \in 0..(IntRange - 1)
  BY DEF TypeInv, LocalsInv, LocalsType
<1>5. Len(Text(queued.out)) <= LineCap
  <2>1. CASE queued.out = <<>>
    <3>1. Mark("{") \in Token
      BY TokenTypes DEF TokenKinds
    <3>2. <<>> \in Seq(Token)
      BY EmptySeq
    <3>3. Len(Text(<<>>)) = 0
      BY <3>1, <3>2, TextAppend
    <3> QED
      BY <2>1, <3>3, Bounds
  <2>2. CASE queued.out # <<>>
    BY <2>2, EnvelopeIs DEF TypeInv, Encoded
  <2> QED
    BY <2>1, <2>2
<1> QED
  BY <1>1, <1>2, <1>3, <1>4, <1>5 DEF TypeOK, TypeInv, ControlInv

LEMMA TypeAlways == Spec => []TypeInv
<1> QED
  BY TypeInit, TypeStep, PTL DEF Spec

\* No source outgrows the mailbox, no host its array and no envelope the
\* LineBuffer, whatever lines, answers and envelopes there are: dispatch_line of
\* remote_api.cpp, parseReply of discovery.cpp, the Encoder of json_line.cpp.
THEOREM LineDispatchTypes == Spec => []TypeOK
<1> QED
  BY TypeAlways, TypeImplies, PTL

-----------------------------------------------------------------------------
\* What a line does to the command that waits in the mailbox.

\* Until the second pass of a lua_exec nothing is written; in it the source is.
OnlySource == got.t_val = <<"lua_exec">> /\ [mailbox EXCEPT !.src = before.src] = before
KeptInv ==
  /\ pc \in {"start", "type", "ping", "reply"} => mailbox = before
  /\ pc = "lua_exec" => OnlySource
  /\ PendingKept

LEMMA KeptStep == TypeInv /\ KeptInv /\ [Next]_vars => KeptInv'
<1> SUFFICES ASSUME TypeInv, KeptInv, [Next]_vars PROVE KeptInv'
  OBVIOUS
<1>1. mailbox \in MailboxType /\ got \in LocalsType
  BY DEF TypeInv, MailboxInv, LocalsInv
<1>2. pc \in {"start", "done", "type", "lua_exec", "ping", "reply"}
  BY LoopsAre DEF TypeInv, ControlInv
<1>3. /\ pc \in {"start", "type", "ping", "reply"} => mailbox = before
      /\ pc = "lua_exec" => OnlySource
  BY DEF KeptInv
\* A loop that only reads.
<1>4. ASSUME UNCHANGED <<pc, before, mailbox, got, did>> PROVE KeptInv'
  BY <1>4 DEF KeptInv, OnlySource, PendingKept
\* A step that ends the line and leaves the mailbox alone.
<1>5. ASSUME pc # "done", pc' = "done", UNCHANGED <<before, mailbox, got>> PROVE KeptInv'
  BY <1>2, <1>3, <1>5 DEF KeptInv, OnlySource, PendingKept
<1>6. ASSUME NEW who, NEW fs, Arrive(who, fs) PROVE KeptInv'
  <2>1. pc = "start" /\ pc' \in {"done", "reply", "type"} /\ before' = mailbox /\ mailbox' = mailbox
    BY <1>6 DEF Arrive
  <2> QED
    BY <2>1 DEF KeptInv, PendingKept
<1>7. CASE FieldTaken
  <2>1. UNCHANGED <<pc, before, did>>
    BY <1>7 DEF FieldTaken, TypeField, SeqField, SrcField, TsField, BridgeField, HostField,
                PortField, Take, input
  <2>2. CASE SrcField
    <3>1. pc = "lua_exec" /\ OnlySource
      BY <1>3, <2>2 DEF SrcField, Take
    <3>2. /\ \E n : got' = [got EXCEPT !.src_len = n]
          /\ \E src : mailbox' = [mailbox EXCEPT !.src = src]
      BY <2>2, Zenon DEF SrcField
    <3>3. got'.t_val = got.t_val
      BY <1>1, <3>2 DEF LocalsType
    <3>4. [mailbox' EXCEPT !.src = before.src] = [mailbox EXCEPT !.src = before.src]
      BY <1>1, <3>2 DEF MailboxType
    <3> QED
      BY <2>1, <3>1, <3>3, <3>4 DEF KeptInv, OnlySource, PendingKept
  <2>3. CASE SeqField
    <3>1. pc = "lua_exec" /\ OnlySource
      BY <1>3, <2>3 DEF SeqField, Take
    <3>2. mailbox' = mailbox /\ \E n : got' = [got EXCEPT !.seq = n]
      BY <2>3, Zenon DEF SeqField
    <3>3. got'.t_val = got.t_val
      BY <1>1, <3>2 DEF LocalsType
    <3> QED
      BY <2>1, <3>1, <3>2, <3>3 DEF KeptInv, OnlySource, PendingKept
  <2>4. CASE TypeField \/ TsField \/ BridgeField \/ HostField \/ PortField
    <3>1. pc \in {"type", "ping", "reply"} /\ mailbox' = mailbox
      BY <2>4 DEF TypeField, TsField, BridgeField, HostField, PortField, Take
    <3> QED
      BY <1>3, <2>1, <3>1 DEF KeptInv, PendingKept
  <2> QED
    BY <1>7, <2>2, <2>3, <2>4 DEF FieldTaken
<1>8. CASE SkipField
  <2>1. UNCHANGED <<pc, before, mailbox, got, did>>
    BY <1>8 DEF SkipField, input
  <2> QED
    BY <1>4, <2>1
<1>9. CASE GiveUp
  <2>1. pc \in Loops /\ pc' = "done" /\ UNCHANGED <<before, mailbox, got>>
    BY <1>9 DEF GiveUp, input
  <2> QED
    BY <1>5, <2>1, LoopsAre
<1>10. ASSUME NEW word \in {"lua_exec", "ping"}, SecondPass(word) PROVE KeptInv'
  <2>1. pc = "type" /\ pc' = word /\ got.t_val = <<word>>
    BY <1>10 DEF SecondPass, LoopEnds
  <2>2. UNCHANGED <<before, mailbox, got>>
    BY <1>10 DEF SecondPass, input
  <2>3. mailbox = before /\ [mailbox EXCEPT !.src = before.src] = mailbox
    BY <1>1, <1>3, <2>1 DEF MailboxType
  <2> QED
    BY <2>1, <2>2, <2>3 DEF KeptInv, OnlySource, PendingKept
<1>11. CASE HelloAck \/ UnknownType \/ ReplyEnds \/ enqueue_pong
  <2>1. pc \in {"type", "ping", "reply"} /\ pc' = "done" /\ UNCHANGED <<before, mailbox, got>>
    BY <1>11 DEF HelloAck, UnknownType, ReplyEnds, enqueue_pong, LoopEnds, Return, input
  <2> QED
    BY <1>5, <2>1
<1>12. CASE Kick
  <2>1. pc' = "done" /\ did'.kind = "closed"
    BY <1>12 DEF Kick, Return
  <2> QED
    BY <2>1 DEF KeptInv, PendingKept
<1>13. CASE HandOver
  <2>1. pc' = "done" /\ did'.kind = "command"
    BY <1>13 DEF HandOver, Command, Return
  <2> QED
    BY <2>1 DEF KeptInv, PendingKept
<1>14. ASSUME NEW fs, WriteEnvelope(fs) PROVE KeptInv'
  <2>1. pc = "start" /\ pc' = "done" /\ UNCHANGED <<before, mailbox, got>>
    BY <1>14 DEF WriteEnvelope, input
  <2> QED
    BY <1>5, <2>1
<1>15. CASE UNCHANGED vars
  BY <1>4, <1>15 DEF vars
<1> QED
  BY <1>6, <1>7, <1>8, <1>9, <1>10, <1>11, <1>12, <1>13, <1>14, <1>15 DEF Next

\* A line that hands nothing over leaves the waiting command as it was, but for
\* the source when a lua_exec is given up: dispatch_line copies the source into
\* the mailbox before it has seen the rest of the line.
THEOREM WaitingCommandIsKept == Spec => []PendingKept
<1>1. Init => KeptInv
  BY DEF Init, KeptInv, PendingKept
<1>2. KeptInv => PendingKept
  BY DEF KeptInv
<1> QED
  BY <1>1, <1>2, TypeAlways, KeptStep, PTL DEF Spec

-----------------------------------------------------------------------------
\* What the PC receives.

LEMMA PrefixesAgree ==
  ASSUME NEW T, NEW a \in Seq(T), NEW b \in Seq(T), NEW n \in Nat, n <= Len(a), n <= Len(b),
         \A i \in 1..n : a[i] = b[i]
  PROVE  Prefix(a, n) = Prefix(b, n)
<1> DEFINE x == Prefix(a, n)
           y == Prefix(b, n)
<1>1. Len(a) \in Nat /\ Len(b) \in Nat
  BY LenProperties
<1>2. /\ x \in Seq(T) /\ Len(x) = IF n < Len(a) THEN n ELSE Len(a)
      /\ \A i \in 1..Len(x) : x[i] = a[i]
  BY PrefixIs
<1>3. /\ y \in Seq(T) /\ Len(y) = IF n < Len(b) THEN n ELSE Len(b)
      /\ \A i \in 1..Len(y) : y[i] = b[i]
  BY PrefixIs
<1> HIDE DEF x, y
<1>4. Len(x) = n /\ Len(y) = n
  BY <1>1, <1>2, <1>3
<1>5. \A i \in 1..n : x[i] = y[i]
  BY <1>2, <1>3, <1>4
<1>6. x = y
  BY <1>2, <1>3, <1>4, <1>5, SeqEqual
<1> QED
  BY <1>6 DEF x, y

LEMMA EnvelopeHolds == TypeInv => EnvelopeAsMeant
<1> SUFFICES ASSUME TypeInv, queued.out # <<>> PROVE EnvelopeAsMeant
  BY DEF EnvelopeAsMeant
<1> DEFINE out == queued.out
           whole == ObjectTokens(WrittenFields(queued.meant))
           n == Len(out)
<1>1. Encoded(out, whole, LineCap) /\ queued.meant \in Seq(FieldType)
  BY EnvelopeIs DEF TypeInv, QueuedInv
<1>2. whole = ObjectTokens([i \in DOMAIN queued.meant |->
                 [queued.meant[i] EXCEPT !.val.s = Escape(@)]])
  BY DEF WrittenFields, Written
<1>3. CASE out = whole
  BY <1>2, <1>3 DEF EnvelopeAsMeant
<1>4. CASE Len(out) < Len(whole) /\ CutOff(out, whole)
  <2>1. WrittenFields(queued.meant) \in Seq(FieldType)
    <3> DEFINE fs == queued.meant
    <3>1. fs \in Seq(FieldType) /\ \A i \in DOMAIN fs : fs[i] \in FieldType
      BY <1>1
    <3> HIDE DEF fs
    <3>2. \A i \in DOMAIN fs : Written(fs[i]) \in FieldType
      BY <3>1, WrittenIs
    <3>3. WrittenFields(fs) \in Seq(FieldType)
      BY <3>1, <3>2 DEF WrittenFields
    <3> QED
      BY <3>3 DEF fs
  <2>2. whole \in Seq(Token) /\ out \in Seq(Token)
    <3>1. whole \in Seq(Token)
      BY <2>1, ObjectShape
    <3> QED
      BY <1>1, <3>1 DEF Encoded
  <2> HIDE DEF out, whole
  <2>3. /\ n \in 1..Len(whole) /\ \A i \in 1..(n - 1) : out[i] = whole[i]
        /\ out[n] \in {whole[n], Mark("cut")} /\ n < Len(whole)
    BY <1>4 DEF CutOff
  <2>4. n - 1 \in Nat /\ n - 1 <= Len(out) /\ n - 1 <= Len(whole)
    BY <2>2, <2>3
  <2>5. Prefix(out, n - 1) = Prefix(whole, n - 1)
    BY <2>2, <2>3, <2>4, PrefixesAgree
  <2> QED
    BY <1>2, <2>3, <2>5 DEF EnvelopeAsMeant, out, whole
<1> QED
  BY <1>1, <1>3, <1>4 DEF Encoded

\* Every envelope on the queue is the object that was meant, escapes and commas
\* included, or a beginning of it that lacks the closing brace: the Encoder of
\* json_line.cpp over a LineBuffer, for envelopes of any length.
THEOREM EnvelopesAreAsMeant == Spec => []EnvelopeAsMeant
<1> QED
  BY TypeAlways, EnvelopeHolds, PTL

-----------------------------------------------------------------------------
\* What a line comes to.

\* What a line means by the fields it shows.
Meaning == IF caller = "parseReply" THEN MeaningOfReply(seen)
                                    ELSE MeaningOfLine(seen)

\* Where a line stands against the fields that it shows: they are at their
\* places, what follows the last of them has no value, and behind a whole
\* line there is no further key.
LineInv ==
  /\ seen \in Seq(FieldType) /\ 4 * Len(seen) <= Len(line)
  /\ line # <<>> => line[1] = Mark("{")
  /\ FieldsAt(line, seen, 1)
  /\ KindAt(line, 4 * Len(seen) + 4) \in {"cut", "end"}
  /\ ~torn => Len(line) <= 4 * Len(seen) + 2

\* A field that ends the loop, and one whose value is of the wanted kind.
Stop(loop, f) ==
  \/ "bad" \in ToSet(Name(f))
  \/ /\ Name(f) \notin {<<w>> : w \in DOMAIN Wanted[loop]}
     /\ f.val.k # "null" /\ ~Readable(f.val)
OfKind(loop, word, val) ==
  IF Wanted[loop][word] = "str" THEN Readable(val) ELSE val.k = "int"
Right(loop, f) ==
  \A word \in DOMAIN Wanted[loop] : Name(f) = <<word>> => OfKind(loop, word, f.val)

\* The first i fields were read, and nothing more will be.
Fine(fs, loop, i) == \A j \in 1..i : ~Stop(loop, fs[j]) /\ Right(loop, fs[j])
Ended(fs, loop, i) == i = Len(fs) \/ Stop(loop, fs[i + 1])

\* The reader behind field i.
ReaderAt(i) ==
  IF i = 0 THEN [p |-> 2, needs_comma |-> FALSE, error |-> FALSE]
           ELSE [p |-> 4 * i + 1, needs_comma |-> TRUE, error |-> FALSE]

\* The last of the first i fields with one name, or a default.
Named(fs, word, i) == {j \in 1..i : Name(fs[j]) = <<word>>}
LastIn(fs, at, default) ==
  IF at = {} THEN default ELSE fs[CHOOSE k \in at : \A j \in at : j <= k].val
LastOf(fs, word, i, default) == LastIn(fs, Named(fs, word, i), default)

TypeKnown == ~IllTyped(seen, "type") /\ got.t_val = Chars(LastValue(seen, "type", "t", Str(<<>>)))

\* What the locals of a loop hold after i fields.
KnowsType(i) == got = [NoLocals EXCEPT !.t_val = Chars(LastOf(seen, "t", i, Str(<<>>)))]
KnowsExec(i) ==
  /\ TypeKnown /\ got.t_val = <<"lua_exec">>
  /\ got.seq = Narrow(LastOf(seen, "seq", i, Int64(0)).n)
  /\ Prefix(mailbox.src, got.src_len) =
       Prefix(Chars(LastOf(seen, "src", i, Str(<<>>))), BufferSize)
KnowsPing(i) ==
  /\ TypeKnown /\ got.t_val = <<"ping">>
  /\ got.ts_ms = LastOf(seen, "ts_ms", i, Int64(0)).n
KnowsReply(i) ==
  /\ got.saw_t_bridge <=> \E j \in Named(seen, "t", i) : Chars(seen[j].val) = <<"bridge">>
  /\ got.host = Prefix(Chars(LastOf(seen, "host", i, Str(<<>>))), HostSize)
  /\ got.port = Narrow(LastOf(seen, "port", i, Int64(0)).n)
Knows(loop, i) ==
  /\ loop = "type" => KnowsType(i)
  /\ loop = "lua_exec" => KnowsExec(i)
  /\ loop = "ping" => KnowsPing(i)
  /\ loop = "reply" => KnowsReply(i)

InLoop(loop, i) ==
  /\ Fine(seen, loop, i) /\ Knows(loop, i)
  /\ r = ReaderAt(i) \/ (r.error /\ Ended(seen, loop, i))

\* A loop stands behind some field, all before it read and none of them
\* lost; what it has led to at the end is what the line means.
MeaningInv ==
  /\ LineInv
  /\ pc = "start" => line = <<>> /\ got = NoLocals
  /\ pc # "done" => did = Nothing
  /\ pc \in Loops => /\ line # <<>>
                     /\ caller = IF pc = "reply" THEN "parseReply" ELSE "dispatch_line"
                     /\ \E i \in 0..Len(seen) : InLoop(pc, i)
  /\ pc = "done" /\ line # <<>> => did = Meaning \/ (torn /\ did = Nothing)

\* The fields before the first that ends the loop are those that are reached.
LEMMA ReachedIs ==
  ASSUME seen \in Seq(FieldType), NEW loop, NEW i \in 0..Len(seen), Fine(seen, loop, i), Ended(seen, loop, i)
  PROVE  Reached(seen, DOMAIN Wanted[loop]) = 1..i
<1> DEFINE stops == {j \in DOMAIN seen : Stop(loop, seen[j])}
           n == Len(seen)
<1>1. n \in Nat /\ DOMAIN seen = 1..n
  BY LenProperties
<1>2. Reached(seen, DOMAIN Wanted[loop]) = {j \in DOMAIN seen : \A k \in stops : j < k}
  BY DEF Reached, Stop
<1>3. \A k \in stops : k \in 1..n /\ k > i
  <2> SUFFICES ASSUME NEW k \in stops, k <= i PROVE FALSE
    BY <1>1
  <2>1. k \in 1..i /\ Stop(loop, seen[k])
    BY <1>1
  <2> QED
    BY <2>1 DEF Fine
<1>4. i < n => i + 1 \in stops
  <2> SUFFICES ASSUME i < n PROVE i + 1 \in stops
    OBVIOUS
  <2>1. i # Len(seen) /\ i + 1 \in 1..n
    <3>1. n = Len(seen) /\ n \in Nat /\ i \in 0..n
      BY <1>1
    <3> HIDE DEF stops, n
    <3> QED
      BY <3>1
  <2>2. Stop(loop, seen[i + 1])
    BY <2>1, Zenon DEF Ended
  <2> QED
    BY <1>1, <2>1, <2>2
<1> HIDE DEF stops, n
<1>5. ASSUME NEW j \in 1..n PROVE (\A k \in stops : j < k) <=> j \in 1..i
  <2>1. CASE j <= i
    BY <1>1, <1>3, <2>1
  <2>2. CASE j > i
    <3>1. i + 1 \in stops /\ ~(j < i + 1)
      BY <1>1, <1>4, <2>2
    <3> QED
      BY <2>2, <3>1
  <2> QED
    BY <1>1, <2>1, <2>2
<1>6. 1..i \subseteq 1..n
  BY <1>1 DEF n
<1> QED
  BY <1>1, <1>2, <1>5, <1>6

\* At the end of a loop no field within reach is ill-typed, and the last with a
\* name is the last one read.
LEMMA EndMeaning ==
  ASSUME seen \in Seq(FieldType), NEW loop, NEW i \in 0..Len(seen), Fine(seen, loop, i), Ended(seen, loop, i)
  PROVE  /\ ~IllTyped(seen, loop)
         /\ \A word, default : LastValue(seen, loop, word, default) = LastOf(seen, word, i, default)
<1>1. Reached(seen, DOMAIN Wanted[loop]) = 1..i
  BY ReachedIs
<1>2. ~IllTyped(seen, loop)
  <2>1. \A j \in 1..i : \A word \in DOMAIN Wanted[loop] :
          Name(seen[j]) = <<word>> => OfKind(loop, word, seen[j].val)
    BY DEF Fine, Right
  <2> QED
    BY <1>1, <2>1 DEF IllTyped, OfKind
<1>3. ASSUME NEW word, NEW default
      PROVE  LastValue(seen, loop, word, default) = LastOf(seen, word, i, default)
  <2> DEFINE at == {j \in Reached(seen, DOMAIN Wanted[loop]) : Name(seen[j]) = <<word>>}
  <2>1. at = Named(seen, word, i)
    BY <1>1 DEF Named
  <2>2. LastValue(seen, loop, word, default) =
          IF at = {} THEN default ELSE seen[CHOOSE k \in at : \A j \in at : j <= k].val
    BY DEF LastValue
  <2> HIDE DEF at
  <2> QED
    BY <2>1, <2>2 DEF LastOf, LastIn
<1> QED
  BY <1>2, <1>3

\* A wanted field of another kind is within reach.
LEMMA IllTypedAt ==
  ASSUME seen \in Seq(FieldType), NEW loop, NEW i \in 0..(Len(seen) - 1), Fine(seen, loop, i),
         ~Stop(loop, seen[i + 1]), ~Right(loop, seen[i + 1])
  PROVE  IllTyped(seen, loop)
<1> DEFINE stops == {j \in DOMAIN seen : Stop(loop, seen[j])}
           n == Len(seen)
<1>1. n \in Nat /\ DOMAIN seen = 1..n /\ i + 1 \in 1..n
  BY LenProperties
<1>2. Reached(seen, DOMAIN Wanted[loop]) = {j \in DOMAIN seen : \A k \in stops : j < k}
  BY DEF Reached, Stop
<1>3. \A k \in stops : i + 1 < k
  <2> SUFFICES ASSUME NEW k \in stops, k <= i + 1 PROVE FALSE
    BY <1>1
  <2>1. k \in 1..n /\ Stop(loop, seen[k])
    BY <1>1
  <2>2. CASE k = i + 1
    BY <2>1, <2>2
  <2>3. CASE k # i + 1
    <3>1. k \in 1..i
      BY <1>1, <2>1, <2>3
    <3> QED
      BY <2>1, <3>1 DEF Fine
  <2> QED
    BY <2>2, <2>3
<1>4. i + 1 \in Reached(seen, DOMAIN Wanted[loop])
  <2> HIDE DEF stops, n
  <2> QED
    BY <1>1, <1>2, <1>3
<1>5. \E word \in DOMAIN Wanted[loop] :
        Name(seen[i + 1]) = <<word>> /\ ~OfKind(loop, word, seen[i + 1].val)
  BY DEF Right
<1> QED
  BY <1>4, <1>5 DEF IllTyped, OfKind

\* One more field.
LEMMA LastOfNext ==
  ASSUME NEW word, NEW default
  PROVE  /\ LastOf(seen, word, 0, default) = default
         /\ \A i \in Nat :
              /\ Name(seen[i + 1]) = <<word>> => LastOf(seen, word, i + 1, default) = seen[i + 1].val
              /\ Name(seen[i + 1]) # <<word>> =>
                   /\ Named(seen, word, i + 1) = Named(seen, word, i)
                   /\ LastOf(seen, word, i + 1, default) = LastOf(seen, word, i, default)
<1>1. Named(seen, word, 0) = {}
  BY DEF Named
<1>2. LastOf(seen, word, 0, default) = default
  BY <1>1 DEF LastOf, LastIn
<1>3. ASSUME NEW i \in Nat, Name(seen[i + 1]) = <<word>>
      PROVE  LastOf(seen, word, i + 1, default) = seen[i + 1].val
  <2> DEFINE at == Named(seen, word, i + 1)
             Top(k) == k \in at /\ \A j \in at : j <= k
  <2>1. i + 1 \in at /\ \A j \in at : j \in Nat /\ j <= i + 1
    BY <1>3 DEF Named
  <2> HIDE DEF at
  <2>2. \A k \in at : (\A j \in at : j <= k) <=> k = i + 1
    BY <2>1
  <2>3. (CHOOSE k \in at : \A j \in at : j <= k) = i + 1
    BY <2>1, <2>2
  <2>4. at # {}
    BY <2>1
  <2> QED
    BY <2>3, <2>4 DEF LastOf, LastIn, at
<1>4. ASSUME NEW i \in Nat, Name(seen[i + 1]) # <<word>>
      PROVE  /\ Named(seen, word, i + 1) = Named(seen, word, i)
             /\ LastOf(seen, word, i + 1, default) = LastOf(seen, word, i, default)
  <2>1. \A j : j \in 1..(i + 1) <=> j \in 1..i \/ j = i + 1
    OBVIOUS
  <2>2. Named(seen, word, i + 1) = Named(seen, word, i)
    BY <1>4, <2>1 DEF Named
  <2> QED
    BY <2>2, Zenon DEF LastOf
<1> QED
  BY <1>2, <1>3, <1>4

\* One more field is read.
LEMMA FineNext ==
  ASSUME NEW loop, NEW i \in Nat, Fine(seen, loop, i), ~Stop(loop, seen[i + 1]), Right(loop, seen[i + 1])
  PROVE  Fine(seen, loop, i + 1)
<1>1. \A j \in 1..(i + 1) : j \in 1..i \/ j = i + 1
  OBVIOUS
<1> QED
  BY <1>1 DEF Fine

-----------------------------------------------------------------------------
\* A turn of a loop.

LEMMA SeenIs ==
  ASSUME LineInv
  PROVE  seen \in Seq(FieldType) /\ Len(seen) \in Nat /\ DOMAIN seen = 1..Len(seen)
<1>1. seen \in Seq(FieldType)
  BY DEF LineInv
<1> QED
  BY <1>1, LenProperties

\* With the reader behind field i, nextField delivers the name of the next one
\* and leaves the reader before its value; behind the last one it delivers a
\* name only if the line is torn there.
LEMMA TurnIs ==
  ASSUME LineInv, ReaderInv, NEW i \in 0..Len(seen), r = ReaderAt(i)
  PROVE  /\ i < Len(seen) => /\ Field.ok <=> "bad" \notin ToSet(Name(seen[i + 1]))
                             /\ Field.ok => Field.val.s = Name(seen[i + 1])
                             /\ KindAt(line, 4 * i + 4) = seen[i + 1].val.k
                             /\ line[4 * i + 4] = seen[i + 1].val
         /\ i = Len(seen) /\ Field.ok => torn /\ KindAt(line, 4 * i + 4) \in {"cut", "end"}
         /\ Field.ok => Field.r = [p |-> 4 * i + 4, needs_comma |-> TRUE, error |-> FALSE]
<1> DEFINE n == Len(seen)
           v == nextField(line, r)
           at == IF r.needs_comma THEN r.p + 1 ELSE r.p
<1>1. /\ n \in Nat /\ i \in Nat /\ i <= n /\ line \in Seq(Token) /\ seen \in Seq(FieldType)
      /\ r \in ReaderOf(line) /\ Len(line) \in Nat /\ DOMAIN line = 1..Len(line)
      /\ 4 * n <= Len(line)
  <2>1. /\ line \in Seq(Token) /\ seen \in Seq(FieldType) /\ r \in ReaderOf(line)
        /\ 4 * n <= Len(line)
    BY Zenon DEF LineInv, ReaderInv
  <2>2. /\ Len(line) \in Nat /\ DOMAIN line = 1..Len(line) /\ n \in Nat
    BY <2>1, LenProperties
  <2> HIDE DEF n, v, at
  <2>3. i \in 0..n
    BY DEF n
  <2> QED
    BY <2>1, <2>2, <2>3
<1>2. /\ r.p = IF i = 0 THEN 2 ELSE 4 * i + 1
      /\ r.needs_comma <=> i > 0
      /\ ~r.error
  <2>1. i = 0 \/ i > 0
    BY <1>1 DEF n
  <2> QED
    BY <1>1, <2>1 DEF ReaderAt
<1> HIDE DEF n
<1>3. at = 4 * i + 2
  <2>1. CASE i = 0
    BY <1>2, <2>1
  <2>2. CASE i > 0
    BY <1>1, <1>2, <2>2
  <2> QED
    BY <1>1, <2>1, <2>2
<1>4. Field = v
  BY DEF Field
<1>5. /\ v.ok \in BOOLEAN
      /\ v.ok <=> /\ ~r.error /\ KindAt(line, r.p) # "}"
                  /\ r.needs_comma => KindAt(line, r.p) = ","
                  /\ KindAt(line, at) = "str" /\ KindAt(line, at + 1) = ":"
                  /\ "bad" \notin ToSet(Decode(line[at].s))
      /\ v.ok => /\ v.val.s = Decode(line[at].s)
                 /\ v.r = [p |-> at + 2, needs_comma |-> TRUE, error |-> FALSE]
  BY <1>1, NextFieldIs
<1> HIDE DEF v, at
<1>6. at + 1 = 4 * i + 3 /\ at + 2 = 4 * i + 4
  BY <1>1, <1>3
<1>7. Field.ok => Field.r = [p |-> 4 * i + 4, needs_comma |-> TRUE, error |-> FALSE]
  BY <1>4, <1>5, <1>6
<1>8. ASSUME i < n
      PROVE  /\ Field.ok <=> "bad" \notin ToSet(Name(seen[i + 1]))
             /\ Field.ok => Field.val.s = Name(seen[i + 1])
             /\ KindAt(line, 4 * i + 4) = seen[i + 1].val.k
             /\ line[4 * i + 4] = seen[i + 1].val
  <2> DEFINE j == i + 1
             f == seen[j]
  <2>1. /\ j \in 1..n /\ 1 + 4 * j - 3 = 4 * i + 2 /\ 1 + 4 * j - 2 = 4 * i + 3
        /\ 1 + 4 * j - 1 = 4 * i + 4 /\ 1 + 4 * j - 4 = 4 * i + 1
    BY <1>1, <1>8
  <2>2. /\ line[1 + 4 * j - 3] = Str(f.key) /\ line[1 + 4 * j - 2] = Mark(":")
        /\ line[1 + 4 * j - 1] = f.val /\ (j > 1 => line[1 + 4 * j - 4] = Mark(","))
    BY <2>1 DEF LineInv, FieldsAt, n
  <2>3. /\ line[4 * i + 2] = Str(f.key) /\ line[4 * i + 3] = Mark(":")
        /\ line[4 * i + 4] = f.val /\ (i > 0 => line[4 * i + 1] = Mark(","))
    <3>1. j > 1 <=> i > 0
      BY <1>1
    <3> HIDE DEF f
    <3> QED
      BY <2>1, <2>2, <3>1
  <2>4. /\ 4 * i + 1 \in DOMAIN line /\ 4 * i + 2 \in DOMAIN line
        /\ 4 * i + 3 \in DOMAIN line /\ 4 * i + 4 \in DOMAIN line
    BY <1>1, <1>8
  <2> HIDE DEF f
  <2>5. /\ KindAt(line, 4 * i + 2) = "str" /\ KindAt(line, 4 * i + 3) = ":"
        /\ KindAt(line, 4 * i + 4) = f.val.k
        /\ i > 0 => KindAt(line, 4 * i + 1) = ","
        /\ line[4 * i + 2].s = f.key
    <3>1. \A p \in DOMAIN line : KindAt(line, p) = line[p].k
      BY DEF KindAt
    <3>2. /\ KindAt(line, 4 * i + 2) = line[4 * i + 2].k
          /\ KindAt(line, 4 * i + 3) = line[4 * i + 3].k
          /\ KindAt(line, 4 * i + 4) = line[4 * i + 4].k
          /\ KindAt(line, 4 * i + 1) = line[4 * i + 1].k
      BY <2>4, <3>1
    <3>3. /\ Str(f.key).k = "str" /\ Str(f.key).s = f.key
          /\ Mark(":").k = ":" /\ Mark(",").k = ","
      BY DEF Str, Mark
    <3> QED
      BY <2>3, <3>2, <3>3, Zenon
  <2>6. /\ ~r.error /\ KindAt(line, r.p) # "}"
        /\ r.needs_comma => KindAt(line, r.p) = ","
        /\ KindAt(line, at) = "str" /\ KindAt(line, at + 1) = ":"
    <3>1. CASE i = 0
      <4>1. r.p = 2 /\ 4 * i + 2 = 2 /\ ~r.needs_comma /\ ~r.error
        BY <1>2, <3>1
      <4> QED
        BY <1>3, <1>6, <2>5, <4>1
    <3>2. CASE i > 0
      <4>1. r.p = 4 * i + 1 /\ ~r.error
        BY <1>2, <3>2
      <4> QED
        BY <1>3, <1>6, <2>5, <3>2, <4>1
    <3>3. i = 0 \/ i > 0
      BY <1>1
    <3> QED
      BY <3>1, <3>2, <3>3, Zenon
  <2>7. Decode(line[at].s) = Name(f)
    BY <1>3, <2>5 DEF Name
  <2>8. /\ v.ok <=> "bad" \notin ToSet(Name(f))
        /\ v.ok => v.val.s = Name(f)
    BY <1>5, <2>6, <2>7
  <2> QED
    BY <1>4, <2>3, <2>5, <2>8 DEF f
<1>9. ASSUME i = n, Field.ok PROVE torn /\ KindAt(line, 4 * i + 4) \in {"cut", "end"}
  <2>1. KindAt(line, 4 * i + 3) = ":"
    BY <1>4, <1>5, <1>6, <1>9
  <2>2. 4 * i + 3 <= Len(line)
    <3>1. ":" \in TokenKinds /\ 4 * i + 3 \in Nat
      BY <1>1 DEF TokenKinds
    <3>2. 4 * i + 3 \in 1..Len(line)
      BY <1>1, <2>1, <3>1, KindInside
    <3> QED
      BY <3>2
  <2>3. torn
    <3>1. ~torn => Len(line) <= 4 * n + 2
      BY DEF LineInv, n
    <3> QED
      BY <1>1, <1>9, <2>2, <3>1
  <2>4. KindAt(line, 4 * n + 4) \in {"cut", "end"}
    BY DEF LineInv, n
  <2> QED
    BY <1>9, <2>3, <2>4
<1> QED
  BY <1>7, <1>8, <1>9 DEF n

\* A loop whose reader has failed ends.
LEMMA StuckEnds ==
  ASSUME ReaderInv, r.error
  PROVE  ~Field.ok
<1>1. line \in Seq(Token) /\ r \in ReaderOf(line) /\ Field = nextField(line, r)
  BY DEF ReaderInv, Field
<1> DEFINE v == nextField(line, r)
<1>2. v.ok => ~r.error
  BY <1>1, NextFieldIs
<1> QED
  BY <1>1, <1>2

\* A loop ends behind the last field or at one that it cannot skip.
LEMMA LoopEndsAt ==
  ASSUME LineInv, ReaderInv, NEW loop, NEW i \in 0..Len(seen), InLoop(loop, i), ~Field.ok
  PROVE  Ended(seen, loop, i)
<1>1. CASE r.error /\ Ended(seen, loop, i)
  BY <1>1
<1>2. CASE r = ReaderAt(i) /\ i < Len(seen)
  <2>1. "bad" \in ToSet(Name(seen[i + 1]))
    BY <1>2, TurnIs
  <2> QED
    BY <2>1 DEF Ended, Stop
<1>3. CASE i = Len(seen)
  BY <1>3 DEF Ended
<1>4. i < Len(seen) \/ i = Len(seen)
  <2>1. Len(seen) \in Nat
    BY LenProperties DEF LineInv
  <2> QED
    BY <2>1
<1> QED
  BY <1>1, <1>2, <1>3, <1>4 DEF InLoop

\* The reader goes on by one token.
LEMMA Moved ==
  ASSUME NEW b, NEW r0 \in ReaderOf(b), NEW q
  PROVE  [r0 EXCEPT !.p = q] = [p |-> q, needs_comma |-> r0.needs_comma, error |-> r0.error]
BY DEF ReaderOf

LEMMA Advanced ==
  ASSUME NEW b, NEW r0 \in ReaderOf(b), NEW i,
         r0 = [p |-> i, needs_comma |-> TRUE, error |-> FALSE]
  PROVE  [r0 EXCEPT !.p = r0.p + 1] = [p |-> i + 1, needs_comma |-> TRUE, error |-> FALSE]
<1> DEFINE r1 == [r0 EXCEPT !.p = r0.p + 1]
<1>1. r0.p = i /\ r0.needs_comma = TRUE /\ r0.error = FALSE
  OBVIOUS
<1>2. r1 = [p |-> r0.p + 1, needs_comma |-> r0.needs_comma, error |-> r0.error]
  BY Moved, Zenon
<1> HIDE DEF r1
<1>3. r1 = [p |-> i + 1, needs_comma |-> TRUE, error |-> FALSE]
  BY <1>1, <1>2, Zenon
<1> QED
  BY <1>3 DEF r1

\* A string, a number and a skip at the value of field i + 1: the reader stands
\* behind it, or the value is of another kind.
LEMMA AfterField ==
  ASSUME NEW i, i # 0
  PROVE  ReaderAt(i) = [p |-> 4 * i + 1, needs_comma |-> TRUE, error |-> FALSE]
BY Zenon DEF ReaderAt

LEMMA StringAt ==
  ASSUME LineInv, ReaderInv, NEW i \in 0..Len(seen), r = ReaderAt(i), Field.ok
  PROVE  LET v == nextString(line, Field.r)
         IN  /\ i < Len(seen) => /\ v.ok <=> Readable(seen[i + 1].val)
                                 /\ v.ok => v.val.s = Chars(seen[i + 1].val) /\ v.r = ReaderAt(i + 1)
             /\ i = Len(seen) => ~v.ok
<1> DEFINE r0 == Field.r
           v == nextString(line, r0)
<1>1. r0 \in ReaderOf(line) /\ line \in Seq(Token)
  BY FieldIs DEF ReaderInv
<1>2. r0 = [p |-> 4 * i + 4, needs_comma |-> TRUE, error |-> FALSE] /\ r0.p = 4 * i + 4
  BY TurnIs
<1>3. /\ i < Len(seen) => /\ KindAt(line, 4 * i + 4) = seen[i + 1].val.k
                          /\ line[4 * i + 4] = seen[i + 1].val
      /\ i = Len(seen) => KindAt(line, 4 * i + 4) \in {"cut", "end"}
  BY TurnIs
<1> HIDE DEF r0
<1>4. /\ v.ok \in BOOLEAN
      /\ v.ok <=> /\ ~r0.error /\ KindAt(line, r0.p) = "str"
                  /\ "bad" \notin ToSet(Decode(line[r0.p].s))
      /\ v.ok => v.val.s = Decode(line[r0.p].s) /\ v.r = [r0 EXCEPT !.p = r0.p + 1]
  BY <1>1, NextStringIs
<1> HIDE DEF v
<1>5. ~r0.error
  BY <1>2
<1>6. [r0 EXCEPT !.p = r0.p + 1] = ReaderAt(i + 1)
  <2>1. (4 * i + 4) + 1 = 4 * (i + 1) + 1 /\ i + 1 # 0
    <3>1. i \in Nat
      BY SeenIs
    <3> QED
      BY <3>1
  <2>3. ReaderAt(i + 1) = [p |-> 4 * (i + 1) + 1, needs_comma |-> TRUE, error |-> FALSE]
    BY <2>1, AfterField
  <2>2. [r0 EXCEPT !.p = r0.p + 1] =
          [p |-> (4 * i + 4) + 1, needs_comma |-> TRUE, error |-> FALSE]
    BY <1>1, <1>2, Advanced
  <2> QED
    BY <2>1, <2>2, <2>3
<1>7. ASSUME i < Len(seen)
      PROVE  /\ v.ok <=> Readable(seen[i + 1].val)
             /\ v.ok => v.val.s = Chars(seen[i + 1].val) /\ v.r = ReaderAt(i + 1)
  BY <1>2, <1>3, <1>4, <1>5, <1>6, <1>7 DEF Readable, Chars
<1>8. i = Len(seen) => ~v.ok
  BY <1>2, <1>3, <1>4
<1> QED
  BY <1>7, <1>8 DEF v, r0

LEMMA IntAt ==
  ASSUME LineInv, ReaderInv, NEW i \in 0..Len(seen), r = ReaderAt(i), Field.ok
  PROVE  LET v == nextInt(line, Field.r)
         IN  /\ i < Len(seen) => /\ v.ok <=> seen[i + 1].val.k = "int"
                                 /\ v.ok => v.val = seen[i + 1].val /\ v.r = ReaderAt(i + 1)
             /\ i = Len(seen) => ~v.ok
<1> DEFINE r0 == Field.r
           v == nextInt(line, r0)
<1>1. r0 \in ReaderOf(line) /\ line \in Seq(Token)
  BY FieldIs DEF ReaderInv
<1>2. r0 = [p |-> 4 * i + 4, needs_comma |-> TRUE, error |-> FALSE] /\ r0.p = 4 * i + 4
  BY TurnIs
<1>3. /\ i < Len(seen) => /\ KindAt(line, 4 * i + 4) = seen[i + 1].val.k
                          /\ line[4 * i + 4] = seen[i + 1].val
      /\ i = Len(seen) => KindAt(line, 4 * i + 4) \in {"cut", "end"}
  BY TurnIs
<1> HIDE DEF r0
<1>4. /\ v.ok \in BOOLEAN
      /\ v.ok <=> ~r0.error /\ KindAt(line, r0.p) = "int"
      /\ v.ok => v.val = line[r0.p] /\ v.r = [r0 EXCEPT !.p = r0.p + 1]
  BY <1>1, NextIntIs
<1> HIDE DEF v
<1>5. ~r0.error
  BY <1>2
<1>6. [r0 EXCEPT !.p = r0.p + 1] = ReaderAt(i + 1)
  <2>1. (4 * i + 4) + 1 = 4 * (i + 1) + 1 /\ i + 1 # 0
    <3>1. i \in Nat
      BY SeenIs
    <3> QED
      BY <3>1
  <2>3. ReaderAt(i + 1) = [p |-> 4 * (i + 1) + 1, needs_comma |-> TRUE, error |-> FALSE]
    BY <2>1, AfterField
  <2>2. [r0 EXCEPT !.p = r0.p + 1] =
          [p |-> (4 * i + 4) + 1, needs_comma |-> TRUE, error |-> FALSE]
    BY <1>1, <1>2, Advanced
  <2> QED
    BY <2>1, <2>2, <2>3
<1>7. ASSUME i < Len(seen)
      PROVE  /\ v.ok <=> seen[i + 1].val.k = "int"
             /\ v.ok => v.val = seen[i + 1].val /\ v.r = ReaderAt(i + 1)
  BY <1>2, <1>3, <1>4, <1>5, <1>6, <1>7
<1>8. i = Len(seen) => ~v.ok
  BY <1>2, <1>3, <1>4
<1> QED
  BY <1>7, <1>8 DEF v, r0

LEMMA SkipAt ==
  ASSUME LineInv, ReaderInv, NEW i \in 0..Len(seen), r = ReaderAt(i), Field.ok
  PROVE  LET x == skipValue(line, Field.r)
         IN  /\ i < Len(seen) =>
                  IF seen[i + 1].val.k = "null" \/ Readable(seen[i + 1].val)
                  THEN x = ReaderAt(i + 1) ELSE x.error
             /\ i = Len(seen) => x.error
<1> DEFINE r0 == Field.r
           x == skipValue(line, r0)
           readable == \/ KindAt(line, r0.p) = "null"
                       \/ /\ KindAt(line, r0.p) = "str"
                          /\ "bad" \notin ToSet(Decode(line[r0.p].s))
<1>1. r0 \in ReaderOf(line) /\ line \in Seq(Token)
  BY FieldIs DEF ReaderInv
<1>2. r0 = [p |-> 4 * i + 4, needs_comma |-> TRUE, error |-> FALSE] /\ r0.p = 4 * i + 4
  BY TurnIs
<1>3. /\ i < Len(seen) => /\ KindAt(line, 4 * i + 4) = seen[i + 1].val.k
                          /\ line[4 * i + 4] = seen[i + 1].val
      /\ i = Len(seen) => KindAt(line, 4 * i + 4) \in {"cut", "end"}
  BY TurnIs
<1> HIDE DEF r0
<1>4. /\ ~r0.error /\ readable => x = [r0 EXCEPT !.p = r0.p + 1]
      /\ ~readable => x.error
  BY <1>1, SkipIs
<1> HIDE DEF x
<1>5. ~r0.error
  BY <1>2
<1>6. [r0 EXCEPT !.p = r0.p + 1] = ReaderAt(i + 1)
  <2>1. (4 * i + 4) + 1 = 4 * (i + 1) + 1 /\ i + 1 # 0
    <3>1. i \in Nat
      BY SeenIs
    <3> QED
      BY <3>1
  <2>3. ReaderAt(i + 1) = [p |-> 4 * (i + 1) + 1, needs_comma |-> TRUE, error |-> FALSE]
    BY <2>1, AfterField
  <2>2. [r0 EXCEPT !.p = r0.p + 1] =
          [p |-> (4 * i + 4) + 1, needs_comma |-> TRUE, error |-> FALSE]
    BY <1>1, <1>2, Advanced
  <2> QED
    BY <2>1, <2>2, <2>3
<1>7. i < Len(seen) => (readable <=> seen[i + 1].val.k = "null" \/ Readable(seen[i + 1].val))
  BY <1>2, <1>3 DEF Readable
<1>8. i = Len(seen) => ~readable
  BY <1>2, <1>3
<1> HIDE DEF readable
<1> QED
  BY <1>4, <1>5, <1>6, <1>7, <1>8 DEF x, r0

\* What a turn with a wanted field knows: the field is whole and of the right
\* kind, or the caller gives up for a reason.
LEMMA WantedAt ==
  ASSUME LineInv, ReaderInv, NEW i \in 0..Len(seen), InLoop(pc, i), pc \in Loops,
         NEW word \in DOMAIN Wanted[pc], Field.ok, Field.val.s = <<word>>
  PROVE  /\ Value(word).ok =>
              /\ i + 1 \in 0..Len(seen) /\ i \in Nat
              /\ Name(seen[i + 1]) = <<word>> /\ Fine(seen, pc, i + 1)
              /\ Value(word).r = ReaderAt(i + 1)
              /\ Wanted[pc][word] = "str" => Value(word).val.s = Chars(seen[i + 1].val)
              /\ Wanted[pc][word] = "int" => Value(word).val = seen[i + 1].val
         /\ ~Value(word).ok => torn \/ IllTyped(seen, pc)
<1>1. r = ReaderAt(i) /\ Fine(seen, pc, i)
  BY StuckEnds DEF InLoop
<1>2. seen \in Seq(FieldType) /\ Len(seen) \in Nat /\ i \in Nat /\ i <= Len(seen)
  BY SeenIs
<1> DEFINE f == seen[i + 1]
           v == Value(word)
<1>3. /\ i < Len(seen) => /\ v.ok <=> OfKind(pc, word, f.val)
                          /\ v.ok => v.r = ReaderAt(i + 1)
                          /\ v.ok /\ Wanted[pc][word] = "str" => v.val.s = Chars(f.val)
                          /\ v.ok /\ Wanted[pc][word] # "str" => v.val = f.val
      /\ i = Len(seen) => ~v.ok
  <2>1. CASE Wanted[pc][word] = "str"
    <3>1. v = nextString(line, Field.r)
      BY <2>1 DEF Value
    <3>2. OfKind(pc, word, f.val) = Readable(f.val)
      BY <2>1 DEF OfKind
    <3> HIDE DEF v, f
    <3>3. LET s == nextString(line, Field.r)
          IN  /\ i < Len(seen) => /\ s.ok <=> Readable(f.val)
                                  /\ s.ok => s.val.s = Chars(f.val) /\ s.r = ReaderAt(i + 1)
              /\ i = Len(seen) => ~s.ok
      BY <1>1, StringAt DEF f
    <3> QED
      BY <2>1, <3>1, <3>2, <3>3
  <2>2. CASE Wanted[pc][word] # "str"
    <3>1. v = nextInt(line, Field.r)
      BY <2>2 DEF Value
    <3>2. OfKind(pc, word, f.val) <=> f.val.k = "int"
      BY <2>2 DEF OfKind
    <3> HIDE DEF v, f
    <3>3. LET s == nextInt(line, Field.r)
          IN  /\ i < Len(seen) => /\ s.ok <=> f.val.k = "int"
                                  /\ s.ok => s.val = f.val /\ s.r = ReaderAt(i + 1)
              /\ i = Len(seen) => ~s.ok
      BY <1>1, IntAt DEF f
    <3> QED
      BY <2>2, <3>1, <3>2, <3>3
  <2> QED
    BY <2>1, <2>2
<1> HIDE DEF v
<1>4. CASE i < Len(seen)
  <2>1. "bad" \notin ToSet(Name(f)) /\ Name(f) = <<word>>
    BY <1>1, <1>4, TurnIs
  <2> HIDE DEF f
  <2>2. ~Stop(pc, f)
    BY <2>1 DEF Stop
  <2>3. Right(pc, f) <=> OfKind(pc, word, f.val)
    <3>1. \A w \in DOMAIN Wanted[pc] : Name(f) = <<w>> => w = word
      BY <2>1
    <3> QED
      BY <2>1, <3>1 DEF Right
  <2>4. CASE v.ok
    <3>1. Right(pc, seen[i + 1]) /\ ~Stop(pc, seen[i + 1])
      BY <1>3, <1>4, <2>2, <2>3, <2>4 DEF f
    <3>2. Fine(seen, pc, i + 1)
      BY <1>1, <1>2, <3>1, FineNext
    <3>3. i + 1 \in 0..Len(seen)
      BY <1>2, <1>4
    <3> QED
      BY <1>2, <1>3, <1>4, <2>1, <2>4, <3>2, <3>3 DEF v, f
  <2>5. CASE ~v.ok
    <3>1. ~Right(pc, seen[i + 1]) /\ ~Stop(pc, seen[i + 1])
      BY <1>3, <1>4, <2>2, <2>3, <2>5 DEF f
    <3>2. i \in 0..(Len(seen) - 1)
      BY <1>2, <1>4
    <3>3. IllTyped(seen, pc)
      BY <1>1, <1>2, <3>1, <3>2, IllTypedAt
    <3> QED
      BY <2>5, <3>3 DEF v
  <2> QED
    BY <2>4, <2>5
<1>5. CASE i = Len(seen)
  <2>1. torn
    BY <1>1, <1>5, TurnIs
  <2> QED
    BY <1>3, <1>5, <2>1 DEF v
<1> QED
  BY <1>2, <1>4, <1>5

-----------------------------------------------------------------------------
\* The loops.

LEMMA LineKept ==
  ASSUME LineInv, UNCHANGED input
  PROVE  LineInv'
<1>1. seen' = seen /\ line' = line /\ torn' = torn
  BY DEF input
<1> QED
  BY <1>1, Zenon DEF LineInv

\* A step within a loop, and one out of it.
LEMMA StillInLoop ==
  ASSUME MeaningInv, pc \in Loops, UNCHANGED <<pc, input, did>>,
         NEW i \in 0..Len(seen), InLoop(pc, i)'
  PROVE  MeaningInv'
<1>1. seen' = seen /\ line' = line /\ caller' = caller /\ pc' = pc /\ did' = did
  BY DEF input
<1>2. LineInv'
  BY LineKept DEF MeaningInv
<1>3. pc # "done" /\ pc # "start"
  BY LoopsAre
<1>4. \E j \in 0..Len(seen') : InLoop(pc, j)'
  BY <1>1
<1> QED
  BY <1>1, <1>2, <1>3, <1>4, Zenon DEF MeaningInv

LEMMA Returned ==
  ASSUME MeaningInv, UNCHANGED input, pc' = "done", did' = Meaning \/ (torn /\ did' = Nothing)
  PROVE  MeaningInv'
<1>1. seen' = seen /\ line' = line /\ caller' = caller /\ torn' = torn
  BY DEF input
<1>2. LineInv'
  BY LineKept DEF MeaningInv
<1>3. Meaning' = Meaning
  BY <1>1 DEF Meaning
<1>4. pc' # "start" /\ pc' \notin Loops
  BY LoopsAre
<1> QED
  BY <1>1, <1>2, <1>3, <1>4, Zenon DEF MeaningInv

\* A turn at field i + 1 of a loop that is not over.
LEMMA Turned ==
  ASSUME MeaningInv, pc \in Loops, UNCHANGED <<pc, input, did>>,
         NEW i \in Nat, i + 1 \in 0..Len(seen), Fine(seen, pc, i + 1), Knows(pc, i + 1)',
         r' = ReaderAt(i + 1)
  PROVE  MeaningInv'
<1>1. seen' = seen /\ pc' = pc
  BY DEF input
<1>2. InLoop(pc, i + 1)'
  BY <1>1, Zenon DEF InLoop
<1> QED
  BY <1>2, StillInLoop

\* A wanted field of the right kind, read.
ReadAt(loop, word, i) ==
  /\ InLoop(loop, i) /\ i + 1 \in 0..Len(seen) /\ Fine(seen, loop, i + 1)
  /\ Name(seen[i + 1]) = <<word>> /\ r' = ReaderAt(i + 1)
  /\ Wanted[loop][word] = "str" => Value(word).val.s = Chars(seen[i + 1].val)
  /\ Wanted[loop][word] = "int" => Value(word).val = seen[i + 1].val

LEMMA TakenAt ==
  ASSUME TypeInv, MeaningInv, NEW loop \in Loops, NEW word \in DOMAIN Wanted[loop],
         Take(loop, word)
  PROVE  \E i \in Nat : ReadAt(loop, word, i)
<1>1. /\ pc = loop /\ Field.ok /\ Field.val.s = <<word>> /\ Value(word).ok
      /\ r' = Value(word).r
  BY DEF Take
<1>2. PICK i \in 0..Len(seen) : InLoop(pc, i)
  BY <1>1 DEF MeaningInv
<1>3. LineInv /\ ReaderInv
  BY DEF MeaningInv, TypeInv
<1>4. /\ i + 1 \in 0..Len(seen) /\ i \in Nat
      /\ Name(seen[i + 1]) = <<word>> /\ Fine(seen, pc, i + 1)
      /\ Value(word).r = ReaderAt(i + 1)
      /\ Wanted[pc][word] = "str" => Value(word).val.s = Chars(seen[i + 1].val)
      /\ Wanted[pc][word] = "int" => Value(word).val = seen[i + 1].val
  BY <1>1, <1>2, <1>3, WantedAt
<1>5. ReadAt(loop, word, i)
  BY <1>1, <1>2, <1>4, Zenon DEF ReadAt
<1> QED
  BY <1>4, <1>5

\* Any other name keeps the value that it had.
LEMMA OthersKept ==
  ASSUME NEW i \in Nat, NEW word, NEW other, Name(seen[i + 1]) = <<word>>, other # word,
         NEW default
  PROVE  /\ LastOf(seen, other, i + 1, default) = LastOf(seen, other, i, default)
         /\ Named(seen, other, i + 1) = Named(seen, other, i)
<1>1. Name(seen[i + 1]) # <<other>>
  OBVIOUS
<1> QED
  BY <1>1, LastOfNext

\* The second pass does not forget the type that the first one found.
LEMMA TypeKnownKept ==
  ASSUME TypeKnown, UNCHANGED input, got'.t_val = got.t_val
  PROVE  TypeKnown'
<1>1. seen' = seen
  BY DEF input
<1> QED
  BY <1>1, Zenon DEF TypeKnown

\* The locals stand for the fields that were read.
LEMMA TypeFieldStep == TypeInv /\ MeaningInv /\ TypeField => MeaningInv'
<1> SUFFICES ASSUME TypeInv, MeaningInv, TypeField PROVE MeaningInv'
  OBVIOUS
<1>1. /\ pc = "type" /\ pc \in Loops /\ Take("type", "t") /\ UNCHANGED <<pc, input, did>>
      /\ got' = [got EXCEPT !.t_val = Value("t").val.s]
  BY LoopsAre DEF TypeField, Take
<1>2. PICK i \in Nat : ReadAt("type", "t", i)
  BY <1>1, TakenAt, LoopsAre
<1> DEFINE f == seen[i + 1]
<1>3. /\ InLoop("type", i) /\ i + 1 \in 0..Len(seen) /\ Name(f) = <<"t">>
      /\ Fine(seen, "type", i + 1) /\ r' = ReaderAt(i + 1) /\ Value("t").val.s = Chars(f.val)
  BY <1>2, LoopsAre DEF ReadAt
<1> HIDE DEF f
<1>4. LastOf(seen, "t", i + 1, Str(<<>>)) = f.val
  BY <1>3, LastOfNext DEF f
<1>5. KnowsType(i + 1)'
  <2>1. got = [NoLocals EXCEPT !.t_val = Chars(LastOf(seen, "t", i, Str(<<>>)))]
    BY <1>3 DEF InLoop, Knows, KnowsType
  <2>2. got' = [NoLocals EXCEPT !.t_val = Chars(f.val)]
    BY <1>1, <1>3, <2>1 DEF NoLocals
  <2>3. seen' = seen
    BY <1>1 DEF input
  <2> QED
    BY <1>4, <2>2, <2>3, Zenon DEF KnowsType
<1>6. Knows(pc, i + 1)'
  BY <1>1, <1>5 DEF Knows
<1> QED
  BY <1>1, <1>3, <1>6, Turned

LEMMA SeqFieldStep == TypeInv /\ MeaningInv /\ SeqField => MeaningInv'
<1> SUFFICES ASSUME TypeInv, MeaningInv, SeqField PROVE MeaningInv'
  OBVIOUS
<1>1. /\ pc = "lua_exec" /\ pc \in Loops /\ Take("lua_exec", "seq")
      /\ UNCHANGED <<pc, input, did>> /\ mailbox' = mailbox
      /\ got' = [got EXCEPT !.seq = Narrow(Value("seq").val.n)]
  BY LoopsAre DEF SeqField, Take
<1>2. PICK i \in Nat : ReadAt("lua_exec", "seq", i)
  BY <1>1, TakenAt, LoopsAre
<1> DEFINE f == seen[i + 1]
<1>3. /\ InLoop("lua_exec", i) /\ i + 1 \in 0..Len(seen) /\ Name(f) = <<"seq">>
      /\ Fine(seen, "lua_exec", i + 1) /\ r' = ReaderAt(i + 1) /\ Value("seq").val = f.val
  BY <1>2, LoopsAre DEF ReadAt
<1> HIDE DEF f
<1>4. /\ LastOf(seen, "seq", i + 1, Int64(0)) = f.val
      /\ LastOf(seen, "src", i + 1, Str(<<>>)) = LastOf(seen, "src", i, Str(<<>>))
  <2>1. LastOf(seen, "seq", i + 1, Int64(0)) = f.val
    BY <1>3, LastOfNext DEF f
  <2>2. "src" # "seq"
    OBVIOUS
  <2> QED
    BY <1>3, <2>1, <2>2, OthersKept DEF f
<1>5. KnowsExec(i + 1)'
  <2>1. KnowsExec(i)
    BY <1>3 DEF InLoop, Knows
  <2>2. /\ got'.seq = Narrow(f.val.n) /\ got'.t_val = got.t_val /\ got'.src_len = got.src_len
    BY <1>1, <1>3 DEF TypeInv, LocalsInv, LocalsType
  <2>3. seen' = seen /\ UNCHANGED input
    BY <1>1 DEF input
  <2>4. TypeKnown'
    BY <2>1, <2>2, <2>3, TypeKnownKept DEF KnowsExec
  <2> QED
    BY <1>1, <1>4, <2>1, <2>2, <2>3, <2>4, Zenon DEF KnowsExec
<1>6. Knows(pc, i + 1)'
  BY <1>1, <1>5 DEF Knows
<1> QED
  BY <1>1, <1>3, <1>6, Turned

\* The source that was copied is what the buffer starts with.
LEMMA OverlayPrefix ==
  ASSUME NEW T, NEW old \in Seq(T), NEW new \in Seq(T)
  PROVE  Prefix(Overlay(old, new), Len(new)) = new
<1> DEFINE a == Len(new)
           s == SubSeq(old, a + 1, Len(old))
           d == new \o s
           p == Prefix(d, a)
<1>1. a \in Nat /\ Len(old) \in Nat /\ \A i \in 1..Len(old) : old[i] \in T
  BY LenProperties, ElementOfSeq
<1>2. s \in Seq(T) /\ Len(s) \in Nat
  <2>1. \A i \in (a + 1)..Len(old) : old[i] \in T
    BY <1>1
  <2>2. s \in Seq(T)
    BY <1>1, <2>1, SubSeqProperties
  <2> HIDE DEF s
  <2> QED
    BY <2>2, LenProperties
<1> HIDE DEF s
<1>3. d \in Seq(T) /\ Follows(d, new, s, a, Len(s))
  BY <1>1, <1>2, ConcatAt DEF a
<1> HIDE DEF d
<1>4. Len(d) = a + Len(s) /\ \A i \in 1..a : d[i] = new[i]
  BY <1>3, <1>1, <1>2 DEF Follows
<1>5. p \in Seq(T) /\ Len(p) = a /\ \A i \in 1..a : p[i] = d[i]
  <2>1. /\ p \in Seq(T) /\ Len(p) = (IF a < Len(d) THEN a ELSE Len(d))
        /\ \A i \in 1..Len(p) : p[i] = d[i]
    BY <1>1, <1>3, PrefixIs
  <2> HIDE DEF p, a
  <2> QED
    BY <1>1, <1>2, <1>4, <2>1
<1> HIDE DEF p
<1>6. p = new
  BY <1>1, <1>4, <1>5, SeqEqual DEF a
<1> QED
  BY <1>6 DEF p, d, s, a, Overlay

LEMMA SrcFieldStep == TypeInv /\ MeaningInv /\ SrcField => MeaningInv'
<1> SUFFICES ASSUME TypeInv, MeaningInv, SrcField PROVE MeaningInv'
  OBVIOUS
<1> DEFINE src == Prefix(Value("src").val.s, BufferSize)
<1>1. /\ pc = "lua_exec" /\ pc \in Loops /\ Take("lua_exec", "src") /\ Value("src").ok
      /\ UNCHANGED <<pc, input, did>> /\ mailbox' = [mailbox EXCEPT !.src = Overlay(@, src)]
      /\ got' = [got EXCEPT !.src_len = Len(src)]
  BY LoopsAre DEF SrcField, Take
<1>2. PICK i \in Nat : ReadAt("lua_exec", "src", i)
  BY <1>1, TakenAt, LoopsAre
<1> DEFINE f == seen[i + 1]
<1>3. /\ InLoop("lua_exec", i) /\ i + 1 \in 0..Len(seen) /\ Name(f) = <<"src">>
      /\ Fine(seen, "lua_exec", i + 1) /\ r' = ReaderAt(i + 1)
      /\ Value("src").val.s = Chars(f.val)
  BY <1>2, LoopsAre DEF ReadAt
<1> HIDE DEF f
<1>4. /\ LastOf(seen, "src", i + 1, Str(<<>>)) = f.val
      /\ LastOf(seen, "seq", i + 1, Int64(0)) = LastOf(seen, "seq", i, Int64(0))
  <2>1. LastOf(seen, "src", i + 1, Str(<<>>)) = f.val
    BY <1>3, LastOfNext DEF f
  <2>2. "src" # "seq"
    OBVIOUS
  <2> QED
    BY <1>3, <2>1, <2>2, OthersKept DEF f
<1>5. src = Prefix(Chars(f.val), BufferSize) /\ src \in Seq(Decoded)
  <2>1. ReaderInv /\ Wanted[pc]["src"] = "str" /\ BufferSize \in Nat
    BY <1>1, LoopsAre, Bounds DEF TypeInv
  <2>2. Value("src").val.s \in Seq(Decoded)
    BY <1>1, <2>1, ValueIs
  <2> QED
    BY <1>3, <2>1, <2>2, PrefixIs
<1>6. Prefix(mailbox'.src, got'.src_len) = src
  <2>1. mailbox.src \in Seq(Decoded)
    BY DEF TypeInv, MailboxInv, MailboxType
  <2>2. mailbox'.src = Overlay(mailbox.src, src) /\ got'.src_len = Len(src)
    <3> HIDE DEF src
    <3> QED
      BY <1>1 DEF TypeInv, MailboxInv, MailboxType, LocalsInv, LocalsType
  <2> HIDE DEF src
  <2> QED
    BY <1>5, <2>1, <2>2, OverlayPrefix
<1> HIDE DEF src
<1>7. KnowsExec(i + 1)'
  <2>1. KnowsExec(i)
    BY <1>3 DEF InLoop, Knows
  <2>2. got'.seq = got.seq /\ got'.t_val = got.t_val
    BY <1>1 DEF TypeInv, LocalsInv, LocalsType
  <2>3. seen' = seen /\ UNCHANGED input
    BY <1>1 DEF input
  <2>4. TypeKnown'
    BY <2>1, <2>2, <2>3, TypeKnownKept DEF KnowsExec
  <2> QED
    BY <1>4, <1>5, <1>6, <2>1, <2>2, <2>3, <2>4, Zenon DEF KnowsExec
<1>8. Knows(pc, i + 1)'
  BY <1>1, <1>7 DEF Knows
<1> QED
  BY <1>1, <1>3, <1>8, Turned

LEMMA TsFieldStep == TypeInv /\ MeaningInv /\ TsField => MeaningInv'
<1> SUFFICES ASSUME TypeInv, MeaningInv, TsField PROVE MeaningInv'
  OBVIOUS
<1>1. /\ pc = "ping" /\ pc \in Loops /\ Take("ping", "ts_ms") /\ UNCHANGED <<pc, input, did>>
      /\ got' = [got EXCEPT !.ts_ms = Value("ts_ms").val.n]
  BY LoopsAre DEF TsField, Take
<1>2. PICK i \in Nat : ReadAt("ping", "ts_ms", i)
  BY <1>1, TakenAt, LoopsAre
<1> DEFINE f == seen[i + 1]
<1>3. /\ InLoop("ping", i) /\ i + 1 \in 0..Len(seen) /\ Name(f) = <<"ts_ms">>
      /\ Fine(seen, "ping", i + 1) /\ r' = ReaderAt(i + 1) /\ Value("ts_ms").val = f.val
  BY <1>2, LoopsAre DEF ReadAt
<1> HIDE DEF f
<1>4. LastOf(seen, "ts_ms", i + 1, Int64(0)) = f.val
  BY <1>3, LastOfNext DEF f
<1>5. KnowsPing(i + 1)'
  <2>1. KnowsPing(i)
    BY <1>3 DEF InLoop, Knows
  <2>2. got'.ts_ms = f.val.n /\ got'.t_val = got.t_val
    BY <1>1, <1>3 DEF TypeInv, LocalsInv, LocalsType
  <2>3. seen' = seen /\ UNCHANGED input
    BY <1>1 DEF input
  <2>4. TypeKnown'
    BY <2>1, <2>2, <2>3, TypeKnownKept DEF KnowsPing
  <2> QED
    BY <1>4, <2>1, <2>2, <2>3, <2>4, Zenon DEF KnowsPing
<1>6. Knows(pc, i + 1)'
  BY <1>1, <1>5 DEF Knows
<1> QED
  BY <1>1, <1>3, <1>6, Turned

\* The words of a datagram keep their values while another one is read.
ReplyKept(word, i) ==
  /\ word # "t" => Named(seen, "t", i + 1) = Named(seen, "t", i)
  /\ word # "host" => LastOf(seen, "host", i + 1, Str(<<>>)) = LastOf(seen, "host", i, Str(<<>>))
  /\ word # "port" => LastOf(seen, "port", i + 1, Int64(0)) = LastOf(seen, "port", i, Int64(0))

LEMMA ReplyIsKept ==
  ASSUME NEW word, NEW i \in Nat, Name(seen[i + 1]) = <<word>>
  PROVE  ReplyKept(word, i)
<1>1. ASSUME word # "t" PROVE Named(seen, "t", i + 1) = Named(seen, "t", i)
  BY <1>1, OthersKept
<1>2. ASSUME word # "host"
      PROVE  LastOf(seen, "host", i + 1, Str(<<>>)) = LastOf(seen, "host", i, Str(<<>>))
  BY <1>2, OthersKept
<1>3. ASSUME word # "port"
      PROVE  LastOf(seen, "port", i + 1, Int64(0)) = LastOf(seen, "port", i, Int64(0))
  BY <1>3, OthersKept
<1> QED
  BY <1>1, <1>2, <1>3, Zenon DEF ReplyKept

LEMMA BridgeFieldStep == TypeInv /\ MeaningInv /\ BridgeField => MeaningInv'
<1> SUFFICES ASSUME TypeInv, MeaningInv, BridgeField PROVE MeaningInv'
  OBVIOUS
<1>1. /\ pc = "reply" /\ pc \in Loops /\ Take("reply", "t") /\ UNCHANGED <<pc, input, did>>
      /\ got' = [got EXCEPT !.saw_t_bridge = @ \/ Value("t").val.s = <<"bridge">>]
  BY LoopsAre DEF BridgeField, Take
<1>2. PICK i \in Nat : ReadAt("reply", "t", i)
  BY <1>1, TakenAt, LoopsAre
<1> DEFINE f == seen[i + 1]
           Says(j) == Chars(seen[j].val) = <<"bridge">>
<1>3. /\ InLoop("reply", i) /\ i + 1 \in 0..Len(seen) /\ Name(f) = <<"t">>
      /\ Fine(seen, "reply", i + 1) /\ r' = ReaderAt(i + 1) /\ Value("t").val.s = Chars(f.val)
  BY <1>2, LoopsAre DEF ReadAt
<1>4. Named(seen, "t", i + 1) = Named(seen, "t", i) \cup {i + 1}
  <2>1. \A j : j \in 1..(i + 1) <=> j \in 1..i \/ j = i + 1
    OBVIOUS
  <2> QED
    BY <1>3, <2>1 DEF Named
<1>5. KnowsReply(i + 1)'
  <2>1. KnowsReply(i)
    BY <1>3 DEF InLoop, Knows
  <2>2. /\ got'.saw_t_bridge <=> got.saw_t_bridge \/ Says(i + 1)
        /\ got'.host = got.host /\ got'.port = got.port
    BY <1>1, <1>3 DEF TypeInv, LocalsInv, LocalsType
  <2>3. seen' = seen
    BY <1>1 DEF input
  <2>4. got.saw_t_bridge <=> \E j \in Named(seen, "t", i) : Says(j)
    BY <2>1 DEF KnowsReply
  <2>5. got'.saw_t_bridge <=> \E j \in Named(seen, "t", i + 1) : Says(j)
    <3> HIDE DEF Says
    <3> QED
      BY <1>4, <2>2, <2>4
  <2>6. ReplyKept("t", i)
    BY <1>3, ReplyIsKept
  <2>7. /\ got.host = Prefix(Chars(LastOf(seen, "host", i, Str(<<>>))), HostSize)
        /\ got.port = Narrow(LastOf(seen, "port", i, Int64(0)).n)
    BY <2>1, Zenon DEF KnowsReply
  <2>8. /\ LastOf(seen, "host", i + 1, Str(<<>>)) = LastOf(seen, "host", i, Str(<<>>))
        /\ LastOf(seen, "port", i + 1, Int64(0)) = LastOf(seen, "port", i, Int64(0))
    BY <2>6 DEF ReplyKept
  <2> QED
    BY <2>2, <2>3, <2>5, <2>7, <2>8, Zenon DEF KnowsReply
<1>6. Knows(pc, i + 1)'
  BY <1>1, <1>5 DEF Knows
<1> QED
  BY <1>1, <1>3, <1>6, Turned

LEMMA HostFieldStep == TypeInv /\ MeaningInv /\ HostField => MeaningInv'
<1> SUFFICES ASSUME TypeInv, MeaningInv, HostField PROVE MeaningInv'
  OBVIOUS
<1>1. /\ pc = "reply" /\ pc \in Loops /\ Take("reply", "host") /\ UNCHANGED <<pc, input, did>>
      /\ got' = [got EXCEPT !.host = Prefix(Value("host").val.s, HostSize)]
  BY LoopsAre DEF HostField, Take
<1>2. PICK i \in Nat : ReadAt("reply", "host", i)
  BY <1>1, TakenAt, LoopsAre
<1> DEFINE f == seen[i + 1]
<1>3. /\ InLoop("reply", i) /\ i + 1 \in 0..Len(seen) /\ Name(f) = <<"host">>
      /\ Fine(seen, "reply", i + 1) /\ r' = ReaderAt(i + 1)
      /\ Value("host").val.s = Chars(f.val)
  BY <1>2, LoopsAre DEF ReadAt
<1> HIDE DEF f
<1>4. LastOf(seen, "host", i + 1, Str(<<>>)) = f.val
  BY <1>3, LastOfNext DEF f
<1>5. KnowsReply(i + 1)'
  <2>1. KnowsReply(i)
    BY <1>3 DEF InLoop, Knows
  <2>2. /\ got'.saw_t_bridge = got.saw_t_bridge /\ got'.port = got.port
        /\ got'.host = Prefix(Chars(f.val), HostSize)
    BY <1>1, <1>3 DEF TypeInv, LocalsInv, LocalsType
  <2>3. seen' = seen
    BY <1>1 DEF input
  <2>4. ReplyKept("host", i)
    BY <1>3, ReplyIsKept DEF f
  <2>5. /\ Named(seen, "t", i + 1) = Named(seen, "t", i)
        /\ LastOf(seen, "port", i + 1, Int64(0)) = LastOf(seen, "port", i, Int64(0))
    BY <2>4 DEF ReplyKept
  <2> QED
    BY <1>4, <2>1, <2>2, <2>3, <2>5, Zenon DEF KnowsReply
<1>6. Knows(pc, i + 1)'
  BY <1>1, <1>5 DEF Knows
<1> QED
  BY <1>1, <1>3, <1>6, Turned

LEMMA PortFieldStep == TypeInv /\ MeaningInv /\ PortField => MeaningInv'
<1> SUFFICES ASSUME TypeInv, MeaningInv, PortField PROVE MeaningInv'
  OBVIOUS
<1>1. /\ pc = "reply" /\ pc \in Loops /\ Take("reply", "port") /\ UNCHANGED <<pc, input, did>>
      /\ got' = [got EXCEPT !.port = Narrow(Value("port").val.n)]
  BY LoopsAre DEF PortField, Take
<1>2. PICK i \in Nat : ReadAt("reply", "port", i)
  BY <1>1, TakenAt, LoopsAre
<1> DEFINE f == seen[i + 1]
<1>3. /\ InLoop("reply", i) /\ i + 1 \in 0..Len(seen) /\ Name(f) = <<"port">>
      /\ Fine(seen, "reply", i + 1) /\ r' = ReaderAt(i + 1) /\ Value("port").val = f.val
  BY <1>2, LoopsAre DEF ReadAt
<1> HIDE DEF f
<1>4. LastOf(seen, "port", i + 1, Int64(0)) = f.val
  BY <1>3, LastOfNext DEF f
<1>5. KnowsReply(i + 1)'
  <2>1. KnowsReply(i)
    BY <1>3 DEF InLoop, Knows
  <2>2. /\ got'.saw_t_bridge = got.saw_t_bridge /\ got'.host = got.host
        /\ got'.port = Narrow(f.val.n)
    BY <1>1, <1>3 DEF TypeInv, LocalsInv, LocalsType
  <2>3. seen' = seen
    BY <1>1 DEF input
  <2>4. ReplyKept("port", i)
    BY <1>3, ReplyIsKept DEF f
  <2>5. /\ Named(seen, "t", i + 1) = Named(seen, "t", i)
        /\ LastOf(seen, "host", i + 1, Str(<<>>)) = LastOf(seen, "host", i, Str(<<>>))
    BY <2>4 DEF ReplyKept
  <2> QED
    BY <1>4, <2>1, <2>2, <2>3, <2>5, Zenon DEF KnowsReply
<1>6. Knows(pc, i + 1)'
  BY <1>1, <1>5 DEF Knows
<1> QED
  BY <1>1, <1>3, <1>6, Turned

\* A field that nobody asked for changes no local.
LEMMA KnowsKept ==
  ASSUME NEW i \in Nat, NEW loop \in Loops, Knows(loop, i), UNCHANGED <<input, got, mailbox>>,
         \A word \in DOMAIN Wanted[loop] : Name(seen[i + 1]) # <<word>>
  PROVE  Knows(loop, i + 1)'
<1>1. seen' = seen /\ got' = got /\ mailbox' = mailbox
  BY DEF input
<1>2. TypeKnown => TypeKnown'
  BY <1>1, TypeKnownKept
<1>3. CASE loop = "type"
  <2>1. LastOf(seen, "t", i + 1, Str(<<>>)) = LastOf(seen, "t", i, Str(<<>>))
    <3>1. Name(seen[i + 1]) # <<"t">>
      BY <1>3, LoopsAre
    <3> QED
      BY <3>1, LastOfNext
  <2>2. KnowsType(i)
    BY <1>3 DEF Knows
  <2>3. KnowsType(i + 1)'
    BY <1>1, <2>1, <2>2, Zenon DEF KnowsType
  <2> QED
    BY <1>3, <2>3 DEF Knows
<1>4. CASE loop = "lua_exec"
  <2>1. /\ LastOf(seen, "seq", i + 1, Int64(0)) = LastOf(seen, "seq", i, Int64(0))
        /\ LastOf(seen, "src", i + 1, Str(<<>>)) = LastOf(seen, "src", i, Str(<<>>))
    <3>1. Name(seen[i + 1]) # <<"seq">> /\ Name(seen[i + 1]) # <<"src">>
      BY <1>4, LoopsAre
    <3> QED
      BY <3>1, LastOfNext
  <2>2. KnowsExec(i)
    BY <1>4 DEF Knows
  <2>3. KnowsExec(i + 1)'
    BY <1>1, <1>2, <2>1, <2>2, Zenon DEF KnowsExec
  <2> QED
    BY <1>4, <2>3 DEF Knows
<1>5. CASE loop = "ping"
  <2>1. LastOf(seen, "ts_ms", i + 1, Int64(0)) = LastOf(seen, "ts_ms", i, Int64(0))
    <3>1. Name(seen[i + 1]) # <<"ts_ms">>
      BY <1>5, LoopsAre
    <3> QED
      BY <3>1, LastOfNext
  <2>2. KnowsPing(i)
    BY <1>5 DEF Knows
  <2>3. KnowsPing(i + 1)'
    BY <1>1, <1>2, <2>1, <2>2, Zenon DEF KnowsPing
  <2> QED
    BY <1>5, <2>3 DEF Knows
<1>6. CASE loop = "reply"
  <2>1. /\ Named(seen, "t", i + 1) = Named(seen, "t", i)
        /\ LastOf(seen, "host", i + 1, Str(<<>>)) = LastOf(seen, "host", i, Str(<<>>))
        /\ LastOf(seen, "port", i + 1, Int64(0)) = LastOf(seen, "port", i, Int64(0))
    <3>1. Name(seen[i + 1]) # <<"t">> /\ Name(seen[i + 1]) # <<"host">> /\ Name(seen[i + 1]) # <<"port">>
      BY <1>6, LoopsAre
    <3> QED
      BY <3>1, LastOfNext
  <2>2. KnowsReply(i)
    BY <1>6 DEF Knows
  <2>3. KnowsReply(i + 1)'
    BY <1>1, <2>1, <2>2, Zenon DEF KnowsReply
  <2> QED
    BY <1>6, <2>3 DEF Knows
<1> QED
  BY <1>3, <1>4, <1>5, <1>6, LoopsAre

\* A loop that is stuck at a field stays there.
LEMMA Stuck ==
  ASSUME MeaningInv, pc \in Loops, UNCHANGED <<pc, input, got, mailbox, did>>,
         NEW i \in 0..Len(seen), Fine(seen, pc, i), Knows(pc, i),
         r'.error, Ended(seen, pc, i)
  PROVE  MeaningInv'
<1>1. seen' = seen /\ pc' = pc /\ got' = got /\ mailbox' = mailbox /\ UNCHANGED input
  BY DEF input
<1>2. Knows(pc, i)'
  <2>1. TypeKnown => TypeKnown'
    BY <1>1, TypeKnownKept
  <2>2. /\ KnowsType(i) => KnowsType(i)'
        /\ KnowsExec(i) => KnowsExec(i)'
        /\ KnowsPing(i) => KnowsPing(i)'
        /\ KnowsReply(i) => KnowsReply(i)'
    BY <1>1, <2>1, Zenon DEF KnowsType, KnowsExec, KnowsPing, KnowsReply
  <2> QED
    BY <1>1, <2>2, Zenon DEF Knows
<1>3. InLoop(pc, i)'
  BY <1>1, <1>2, Zenon DEF InLoop
<1> QED
  BY <1>3, StillInLoop

LEMMA SkipFieldStep == TypeInv /\ MeaningInv /\ SkipField => MeaningInv'
<1> SUFFICES ASSUME TypeInv, MeaningInv, SkipField PROVE MeaningInv'
  OBVIOUS
<1>1. /\ pc \in Loops /\ Field.ok /\ ~IsWanted /\ r' = skipValue(line, Field.r)
      /\ UNCHANGED <<pc, input, did>> /\ UNCHANGED <<input, got, mailbox>>
  BY DEF SkipField
<1>2. PICK i \in 0..Len(seen) : InLoop(pc, i)
  BY <1>1 DEF MeaningInv
<1>3. LineInv /\ ReaderInv
  BY DEF MeaningInv, TypeInv
<1>4. r = ReaderAt(i) /\ Fine(seen, pc, i) /\ Knows(pc, i)
  BY <1>1, <1>2, <1>3, StuckEnds DEF InLoop
<1>5. Len(seen) \in Nat /\ i \in Nat /\ i <= Len(seen)
  BY <1>3, SeenIs
<1> DEFINE f == seen[i + 1]
           x == skipValue(line, Field.r)
<1>6. /\ i < Len(seen) => IF f.val.k = "null" \/ Readable(f.val)
                          THEN x = ReaderAt(i + 1) ELSE x.error
      /\ i = Len(seen) => x.error
  BY <1>1, <1>3, <1>4, SkipAt
<1> HIDE DEF x
<1>7. CASE i = Len(seen)
  <2>1. r'.error /\ Ended(seen, pc, i)
    BY <1>1, <1>6, <1>7 DEF Ended, x
  <2> QED
    BY <1>1, <1>4, <2>1, Stuck
<1>8. CASE i < Len(seen)
  <2>1. "bad" \notin ToSet(Name(f)) /\ Field.val.s = Name(f)
    BY <1>1, <1>3, <1>4, <1>8, TurnIs
  <2>2. \A word \in DOMAIN Wanted[pc] : Name(f) # <<word>>
    BY <1>1, <2>1, Zenon DEF IsWanted
  <2> HIDE DEF f
  <2>3. Name(f) \notin {<<w>> : w \in DOMAIN Wanted[pc]}
    BY <2>2
  <2>4. Stop(pc, f) <=> f.val.k # "null" /\ ~Readable(f.val)
    BY <2>1, <2>3, Zenon DEF Stop
  <2>5. CASE f.val.k = "null" \/ Readable(f.val)
    <3>1. r' = ReaderAt(i + 1) /\ ~Stop(pc, seen[i + 1])
      BY <1>1, <1>6, <1>8, <2>4, <2>5 DEF x, f
    <3>2. Right(pc, seen[i + 1])
      BY <2>2, Zenon DEF Right, f
    <3>3. Fine(seen, pc, i + 1)
      BY <1>4, <1>5, <3>1, <3>2, FineNext
    <3>4. Knows(pc, i + 1)'
      BY <1>1, <1>4, <1>5, <2>2, KnowsKept DEF f
    <3>5. i + 1 \in 0..Len(seen)
      BY <1>5, <1>8
    <3> QED
      BY <1>1, <1>5, <3>1, <3>3, <3>4, <3>5, Turned
  <2>6. CASE ~(f.val.k = "null" \/ Readable(f.val))
    <3>1. r'.error
      BY <1>1, <1>6, <1>8, <2>6 DEF x
    <3>2. Ended(seen, pc, i)
      BY <2>4, <2>6, Zenon DEF Ended, f
    <3> QED
      BY <1>1, <1>4, <3>1, <3>2, Stuck
  <2> QED
    BY <2>5, <2>6
<1> QED
  BY <1>5, <1>7, <1>8

-----------------------------------------------------------------------------
\* The ways out.

\* What a line means once its type is known, and when a field is ill-typed.
LEMMA TypedMeaning ==
  ASSUME MeaningInv, pc \in {"lua_exec", "ping"}, NEW i \in 0..Len(seen), InLoop(pc, i)
  PROVE  /\ IllTyped(seen, pc) => Meaning = Nothing
         /\ ~IllTyped(seen, pc) /\ pc = "lua_exec" =>
              Meaning = Command(Prefix(Chars(LastValue(seen, "lua_exec", "src", Str(<<>>))), BufferSize),
                                Narrow(LastValue(seen, "lua_exec", "seq", Int64(0)).n))
         /\ ~IllTyped(seen, pc) /\ pc = "ping" =>
              Meaning = Pong(LastValue(seen, "ping", "ts_ms", Int64(0)).n)
<1>1. /\ ~IllTyped(seen, "type")
      /\ Chars(LastValue(seen, "type", "t", Str(<<>>))) = <<pc>>
  BY DEF InLoop, Knows, KnowsExec, KnowsPing, TypeKnown
<1>2. Meaning = MeaningOfLine(seen)
  BY LoopsAre DEF MeaningInv, Meaning
<1>3. /\ <<"lua_exec">> # <<"ping">> /\ <<"lua_exec">> # <<"hello_ack">>
      /\ <<"lua_exec">> # <<"kick">> /\ <<"ping">> # <<"hello_ack">> /\ <<"ping">> # <<"kick">>
  OBVIOUS
<1>4. CASE pc = "lua_exec"
  BY <1>1, <1>2, <1>3, <1>4 DEF MeaningOfLine
<1>5. CASE pc = "ping"
  BY <1>1, <1>2, <1>3, <1>5 DEF MeaningOfLine
<1> QED
  BY <1>4, <1>5

LEMMA GiveUpStep == TypeInv /\ MeaningInv /\ GiveUp => MeaningInv'
<1> SUFFICES ASSUME TypeInv, MeaningInv, GiveUp PROVE MeaningInv'
  OBVIOUS
<1>1. /\ pc \in Loops /\ Field.ok /\ pc' = "done" /\ UNCHANGED input /\ did' = did
  BY DEF GiveUp
<1>2. PICK word \in DOMAIN Wanted[pc] : Field.val.s = <<word>> /\ ~Value(word).ok
  BY DEF GiveUp
<1>3. PICK i \in 0..Len(seen) : InLoop(pc, i)
  BY <1>1 DEF MeaningInv
<1>4. LineInv /\ ReaderInv
  BY DEF MeaningInv, TypeInv
<1>5. torn \/ IllTyped(seen, pc)
  BY <1>1, <1>2, <1>3, <1>4, WantedAt
<1>6. did' = Nothing
  BY <1>1, LoopsAre DEF MeaningInv
<1>7. CASE torn
  BY <1>1, <1>6, <1>7, Returned
<1>8. CASE IllTyped(seen, pc)
  <2>1. Meaning = Nothing
    <3>1. CASE pc \in {"lua_exec", "ping"}
      BY <1>3, <1>8, <3>1, TypedMeaning
    <3>2. CASE pc = "type"
      BY <1>8, <3>2, LoopsAre DEF MeaningInv, Meaning, MeaningOfLine
    <3>3. CASE pc = "reply"
      BY <1>8, <3>3, LoopsAre DEF MeaningInv, Meaning, MeaningOfReply
    <3> QED
      BY <1>1, <3>1, <3>2, <3>3, LoopsAre
  <2> QED
    BY <1>1, <1>6, <2>1, Returned
<1> QED
  BY <1>5, <1>7, <1>8

\* At the end of a loop its locals hold what the fields within reach say.
LEMMA EndOf ==
  ASSUME TypeInv, MeaningInv, NEW loop \in Loops, LoopEnds(loop)
  PROVE  \E i \in 0..Len(seen) :
           /\ InLoop(loop, i) /\ ~IllTyped(seen, loop)
           /\ Reached(seen, DOMAIN Wanted[loop]) = 1..i
           /\ \A word, default :
                LastValue(seen, loop, word, default) = LastOf(seen, word, i, default)
<1>1. pc = loop /\ ~Field.ok
  BY DEF LoopEnds
<1>2. PICK i \in 0..Len(seen) : InLoop(loop, i)
  BY <1>1 DEF MeaningInv
<1>3. LineInv /\ ReaderInv /\ seen \in Seq(FieldType)
  BY DEF MeaningInv, TypeInv, LineInv
<1>4. Fine(seen, loop, i) /\ Ended(seen, loop, i)
  <2>1. Ended(seen, loop, i)
    BY <1>1, <1>2, <1>3, LoopEndsAt
  <2> QED
    BY <1>2, <2>1 DEF InLoop
<1>5. /\ ~IllTyped(seen, loop)
      /\ \A word, default :
           LastValue(seen, loop, word, default) = LastOf(seen, word, i, default)
  BY <1>3, <1>4, EndMeaning
<1>6. Reached(seen, DOMAIN Wanted[loop]) = 1..i
  BY <1>3, <1>4, ReachedIs
<1> QED
  BY <1>2, <1>5, <1>6, Zenon

\* The first pass ends with the type of the line.
LEMMA TypeEnds ==
  ASSUME TypeInv, MeaningInv, LoopEnds("type")
  PROVE  TypeKnown /\ got = [NoLocals EXCEPT !.t_val = got.t_val]
<1>1. PICK i \in 0..Len(seen) :
        /\ InLoop("type", i) /\ ~IllTyped(seen, "type")
        /\ \A word, default :
             LastValue(seen, "type", word, default) = LastOf(seen, word, i, default)
  BY EndOf, LoopsAre, Zenon
<1>2. LastValue(seen, "type", "t", Str(<<>>)) = LastOf(seen, "t", i, Str(<<>>))
  BY <1>1, Zenon
<1>3. KnowsType(i)
  BY <1>1 DEF InLoop, Knows
<1> DEFINE t == Chars(LastOf(seen, "t", i, Str(<<>>)))
<1>4. got = [NoLocals EXCEPT !.t_val = t]
  BY <1>3, Zenon DEF KnowsType
<1> HIDE DEF t
<1>5. got.t_val = t
  BY <1>4 DEF NoLocals
<1>6. TypeKnown
  BY <1>1, <1>2, <1>5, Zenon DEF TypeKnown, t
<1> QED
  BY <1>4, <1>5, <1>6, Zenon

\* What a line of a type without further fields means.
LEMMA PlainMeaning ==
  ASSUME MeaningInv, pc = "type", TypeKnown
  PROVE  /\ got.t_val = <<"hello_ack">> => Meaning = [kind |-> "subscribed"]
         /\ got.t_val = <<"kick">> => Meaning = [kind |-> "closed"]
         /\ got.t_val \notin {<<"lua_exec">>, <<"ping">>, <<"hello_ack">>, <<"kick">>} =>
              Meaning = Nothing
<1>1. /\ ~IllTyped(seen, "type")
      /\ Chars(LastValue(seen, "type", "t", Str(<<>>))) = got.t_val
  BY DEF TypeKnown
<1>2. Meaning = MeaningOfLine(seen)
  BY LoopsAre DEF MeaningInv, Meaning
<1>3. /\ <<"lua_exec">> # <<"ping">> /\ <<"lua_exec">> # <<"hello_ack">>
      /\ <<"lua_exec">> # <<"kick">> /\ <<"ping">> # <<"hello_ack">> /\ <<"ping">> # <<"kick">>
      /\ <<"hello_ack">> # <<"kick">>
  OBVIOUS
<1>4. CASE got.t_val = <<"hello_ack">>
  BY <1>1, <1>2, <1>3, <1>4 DEF MeaningOfLine
<1>5. CASE got.t_val = <<"kick">>
  BY <1>1, <1>2, <1>3, <1>5 DEF MeaningOfLine
<1>6. CASE got.t_val \notin {<<"lua_exec">>, <<"ping">>, <<"hello_ack">>, <<"kick">>}
  BY <1>1, <1>2, <1>6 DEF MeaningOfLine
<1> QED
  BY <1>3, <1>4, <1>5, <1>6

LEMMA PlainStep ==
  TypeInv /\ MeaningInv /\ (HelloAck \/ Kick \/ UnknownType) => MeaningInv'
<1> SUFFICES ASSUME TypeInv, MeaningInv, HelloAck \/ Kick \/ UnknownType PROVE MeaningInv'
  OBVIOUS
<1>1. /\ LoopEnds("type") /\ pc = "type" /\ pc' = "done" /\ UNCHANGED input
  BY DEF HelloAck, Kick, UnknownType, LoopEnds, Return
<1>2. TypeKnown /\ did = Nothing
  BY <1>1, TypeEnds DEF MeaningInv
<1>3. did' = Meaning
  <2>1. CASE HelloAck
    <3>1. got.t_val = <<"hello_ack">> /\ did' = [kind |-> "subscribed"]
      BY <2>1 DEF HelloAck
    <3> QED
      BY <1>1, <1>2, <3>1, PlainMeaning
  <2>2. CASE Kick
    <3>1. got.t_val = <<"kick">> /\ did' = [kind |-> "closed"]
      BY <2>2 DEF Kick
    <3> QED
      BY <1>1, <1>2, <3>1, PlainMeaning
  <2>3. CASE UnknownType
    <3>1. /\ got.t_val \notin {<<"lua_exec">>, <<"ping">>, <<"hello_ack">>, <<"kick">>}
          /\ did' = Nothing
      BY <1>2, <2>3 DEF UnknownType
    <3> QED
      BY <1>1, <1>2, <3>1, PlainMeaning
  <2> QED
    BY <2>1, <2>2, <2>3
<1> QED
  BY <1>1, <1>3, Returned

LEMMA HandOverStep == TypeInv /\ MeaningInv /\ HandOver => MeaningInv'
<1> SUFFICES ASSUME TypeInv, MeaningInv, HandOver PROVE MeaningInv'
  OBVIOUS
<1>1. /\ LoopEnds("lua_exec") /\ pc = "lua_exec" /\ pc' = "done" /\ UNCHANGED input
      /\ did' = Command(Prefix(mailbox.src, got.src_len), got.seq)
  BY DEF HandOver, LoopEnds, Return
<1>2. PICK i \in 0..Len(seen) :
        /\ InLoop("lua_exec", i) /\ ~IllTyped(seen, "lua_exec")
        /\ \A word, default :
             LastValue(seen, "lua_exec", word, default) = LastOf(seen, word, i, default)
  BY <1>1, EndOf, LoopsAre, Zenon
<1>3. KnowsExec(i)
  BY <1>2 DEF InLoop, Knows
<1>4. Meaning = Command(Prefix(Chars(LastOf(seen, "src", i, Str(<<>>))), BufferSize),
                        Narrow(LastOf(seen, "seq", i, Int64(0)).n))
  <2>1. /\ LastValue(seen, "lua_exec", "src", Str(<<>>)) = LastOf(seen, "src", i, Str(<<>>))
        /\ LastValue(seen, "lua_exec", "seq", Int64(0)) = LastOf(seen, "seq", i, Int64(0))
    BY <1>2, Zenon
  <2>2. Meaning = Command(Prefix(Chars(LastValue(seen, "lua_exec", "src", Str(<<>>))), BufferSize),
                          Narrow(LastValue(seen, "lua_exec", "seq", Int64(0)).n))
    BY <1>1, <1>2, TypedMeaning
  <2> QED
    BY <2>1, <2>2, Zenon
<1>5. did' = Meaning
  BY <1>1, <1>3, <1>4, Zenon DEF KnowsExec
<1> QED
  BY <1>1, <1>5, Returned

LEMMA PongStep == TypeInv /\ MeaningInv /\ enqueue_pong => MeaningInv'
<1> SUFFICES ASSUME TypeInv, MeaningInv, enqueue_pong PROVE MeaningInv'
  OBVIOUS
<1>1. /\ LoopEnds("ping") /\ pc = "ping" /\ pc' = "done" /\ UNCHANGED input
      /\ did' = Pong(got.ts_ms)
  BY DEF enqueue_pong, LoopEnds, Return
<1>2. PICK i \in 0..Len(seen) :
        /\ InLoop("ping", i) /\ ~IllTyped(seen, "ping")
        /\ \A word, default :
             LastValue(seen, "ping", word, default) = LastOf(seen, word, i, default)
  BY <1>1, EndOf, LoopsAre, Zenon
<1>3. KnowsPing(i)
  BY <1>2 DEF InLoop, Knows
<1>4. Meaning = Pong(LastOf(seen, "ts_ms", i, Int64(0)).n)
  <2>1. LastValue(seen, "ping", "ts_ms", Int64(0)) = LastOf(seen, "ts_ms", i, Int64(0))
    BY <1>2, Zenon
  <2>2. Meaning = Pong(LastValue(seen, "ping", "ts_ms", Int64(0)).n)
    BY <1>1, <1>2, TypedMeaning
  <2> QED
    BY <2>1, <2>2, Zenon
<1>5. did' = Meaning
  BY <1>1, <1>3, <1>4, Zenon DEF KnowsPing
<1> QED
  BY <1>1, <1>5, Returned

LEMMA ReplyEndsStep == TypeInv /\ MeaningInv /\ ReplyEnds => MeaningInv'
<1> SUFFICES ASSUME TypeInv, MeaningInv, ReplyEnds PROVE MeaningInv'
  OBVIOUS
<1>1. /\ LoopEnds("reply") /\ pc = "reply" /\ pc' = "done" /\ UNCHANGED input
      /\ did' = IF got.saw_t_bridge /\ got.host # <<>> /\ got.port \in 1..PortMax
                THEN Target(got.host, got.port) ELSE Nothing
  BY DEF ReplyEnds, LoopEnds, Return
<1>2. PICK i \in 0..Len(seen) :
        /\ InLoop("reply", i) /\ ~IllTyped(seen, "reply")
        /\ Reached(seen, DOMAIN Wanted["reply"]) = 1..i
        /\ \A word, default :
             LastValue(seen, "reply", word, default) = LastOf(seen, word, i, default)
  BY <1>1, EndOf, LoopsAre, Zenon
<1>3. KnowsReply(i)
  BY <1>2 DEF InLoop, Knows
<1> DEFINE host == Prefix(Chars(LastValue(seen, "reply", "host", Str(<<>>))), HostSize)
           port == Narrow(LastValue(seen, "reply", "port", Int64(0)).n)
           bridge == \E j \in Reached(seen, DOMAIN Wanted.reply) :
                       Name(seen[j]) = <<"t">> /\ Chars(seen[j].val) = <<"bridge">>
<1>4. Meaning = IF ~IllTyped(seen, "reply") /\ bridge /\ host # <<>> /\ port \in 1..PortMax
                THEN Target(host, port) ELSE Nothing
  <2>1. Meaning = MeaningOfReply(seen)
    BY <1>1, LoopsAre DEF MeaningInv, Meaning
  <2> QED
    BY <2>1 DEF MeaningOfReply
<1>5. got.host = host /\ got.port = port
  <2>1. /\ LastValue(seen, "reply", "host", Str(<<>>)) = LastOf(seen, "host", i, Str(<<>>))
        /\ LastValue(seen, "reply", "port", Int64(0)) = LastOf(seen, "port", i, Int64(0))
    BY <1>2, Zenon
  <2> QED
    BY <1>3, <2>1, Zenon DEF KnowsReply
<1>6. got.saw_t_bridge <=> bridge
  <2>1. Named(seen, "t", i) = {j \in Reached(seen, DOMAIN Wanted.reply) : Name(seen[j]) = <<"t">>}
    BY <1>2 DEF Named
  <2>2. got.saw_t_bridge <=> \E j \in Named(seen, "t", i) : Chars(seen[j].val) = <<"bridge">>
    BY <1>3, Zenon DEF KnowsReply
  <2> QED
    BY <2>1, <2>2, Zenon
<1> HIDE DEF host, port, bridge
<1>7. did' = Meaning
  BY <1>1, <1>2, <1>4, <1>5, <1>6, Zenon
<1> QED
  BY <1>1, <1>7, Returned

\* A loop starts with the reader behind the brace and nothing read.
LEMMA AtStart ==
  ASSUME NEW fs, NEW loop
  PROVE  /\ ReaderAt(0) = [p |-> 2, needs_comma |-> FALSE, error |-> FALSE]
         /\ Fine(fs, loop, 0)
         /\ \A word : Named(fs, word, 0) = {}
         /\ \A word, default : LastOf(fs, word, 0, default) = default
<1>1. ReaderAt(0) = [p |-> 2, needs_comma |-> FALSE, error |-> FALSE]
  BY Zenon DEF ReaderAt
<1>2. Fine(fs, loop, 0)
  BY DEF Fine
<1>3. \A word : Named(fs, word, 0) = {}
  BY DEF Named
<1>4. \A word, default : LastOf(fs, word, 0, default) = default
  BY <1>3, Zenon DEF LastOf, LastIn
<1> QED
  BY <1>1, <1>2, <1>3, <1>4, Zenon

\* Without a field the last value is the default, and the locals hold it.
LEMMA NoValues ==
  /\ Narrow(Int64(0).n) = 0 /\ Int64(0).n = 0
  /\ \A n \in Nat : Prefix(Chars(Str(<<>>)), n) = <<>>
  /\ \A s \in Seq(Decoded) : Prefix(s, 0) = <<>>
  /\ Chars(Str(<<>>)) = <<>>
<1>1. Int64(0).n = 0
  BY DEF Int64
<1>2. Narrow(0) = 0
  BY Bounds DEF Narrow
<1>3. Chars(Str(<<>>)) = <<>>
  <2>1. ToSet(<<>>) = {}
    BY DEF ToSet
  <2>2. Decode(<<>>) = <<>>
    BY <2>1, Zenon DEF Decode
  <2> QED
    BY <2>2 DEF Chars, Str
<1>4. ASSUME NEW n \in Nat PROVE Prefix(<<>>, n) = <<>>
  <2> DEFINE q == Prefix(<<>>, n)
  <2>1. <<>> \in Seq(Decoded) /\ Len(<<>>) = 0
    OBVIOUS
  <2>2. q \in Seq(Decoded) /\ Len(q) = 0
    <3>1. q \in Seq(Decoded) /\ Len(q) = IF n < Len(<<>>) THEN n ELSE Len(<<>>)
      BY <2>1, PrefixIs
    <3> HIDE DEF q
    <3> QED
      BY <2>1, <3>1
  <2> HIDE DEF q
  <2>3. q = <<>>
    BY <2>2, EmptySeq
  <2> QED
    BY <2>3 DEF q
<1>5. ASSUME NEW s \in Seq(Decoded) PROVE Prefix(s, 0) = <<>>
  <2>1. Prefix(s, 0) \in Seq(Decoded) /\ Len(s) \in Nat
    BY PrefixIs, LenProperties
  <2>2. Len(Prefix(s, 0)) = 0
    BY <2>1, PrefixIs
  <2> QED
    BY <2>1, <2>2, EmptySeq
<1> QED
  BY <1>1, <1>2, <1>3, <1>4, <1>5

LEMMA SecondPassStep ==
  ASSUME TypeInv, MeaningInv, NEW word \in {"lua_exec", "ping"}, SecondPass(word)
  PROVE  MeaningInv'
<1>1. /\ LoopEnds("type") /\ pc = "type" /\ got.t_val = <<word>> /\ pc' = word
      /\ r' = enterObject(line, NewReader).r
      /\ UNCHANGED input /\ seen' = seen /\ line' = line /\ caller' = caller
      /\ got' = got /\ mailbox' = mailbox /\ did' = did
  BY DEF SecondPass, LoopEnds, input
<1>2. /\ TypeKnown /\ got = [NoLocals EXCEPT !.t_val = <<word>>]
      /\ line # <<>> /\ caller = "dispatch_line" /\ did = Nothing /\ word \in Loops
      /\ LineInv /\ ReaderInv /\ seen \in Seq(FieldType) /\ line \in Seq(Token)
  <2>1. TypeKnown /\ got = [NoLocals EXCEPT !.t_val = got.t_val]
    BY <1>1, TypeEnds
  <2>2. line # <<>> /\ caller = "dispatch_line" /\ did = Nothing
    BY <1>1, LoopsAre DEF MeaningInv
  <2>3. LineInv /\ ReaderInv /\ seen \in Seq(FieldType) /\ line \in Seq(Token)
    BY DEF MeaningInv, TypeInv, LineInv, ReaderInv
  <2>4. word \in Loops
    BY LoopsAre
  <2> QED
    BY <1>1, <2>1, <2>2, <2>3, <2>4, Zenon
<1>3. r' = ReaderAt(0)
  <2>1. KindAt(line, 1) = "{"
    <3>1. line[1] = Mark("{")
      BY <1>2 DEF LineInv
    <3>2. Len(line) \in Nat /\ DOMAIN line = 1..Len(line) /\ Len(line) # 0
      BY <1>2, LenProperties, EmptySeq
    <3>3. 1 \in 1..Len(line)
      BY <3>2
    <3>4. KindAt(line, 1) = line[1].k
      BY <3>2, <3>3, Zenon DEF KindAt
    <3>5. Mark("{").k = "{"
      BY DEF Mark
    <3> QED
      BY <3>1, <3>4, <3>5, Zenon
  <2>2. enterObject(line, NewReader).r = [p |-> 2, needs_comma |-> FALSE, error |-> FALSE]
    BY <1>2, <2>1, EnterIs
  <2> QED
    BY <1>1, <1>2, <2>2, AtStart
<1>4. Knows(word, 0)'
  <2>1. TypeKnown' /\ got'.t_val = <<word>>
    BY <1>1, <1>2, TypeKnownKept
  <2>2. got'.seq = 0 /\ got'.src_len = 0 /\ got'.ts_ms = 0
    BY <1>1, <1>2 DEF NoLocals
  <2>3. \A name, default : LastOf(seen, name, 0, default) = default
    BY LastOfNext, Zenon
  <2>4. mailbox.src \in Seq(Decoded) /\ BufferSize \in Nat
    BY Bounds DEF TypeInv, MailboxInv, MailboxType
  <2>5. ASSUME word = "lua_exec" PROVE KnowsExec(0)'
    <3>1. got'.seq = Narrow(LastOf(seen, "seq", 0, Int64(0)).n)
      BY <2>2, <2>3, NoValues, Zenon
    <3>2. Prefix(mailbox'.src, got'.src_len) =
            Prefix(Chars(LastOf(seen, "src", 0, Str(<<>>))), BufferSize)
      BY <1>1, <2>2, <2>3, <2>4, NoValues, Zenon
    <3> QED
      BY <1>1, <2>1, <2>5, <3>1, <3>2, Zenon DEF KnowsExec
  <2>6. ASSUME word = "ping" PROVE KnowsPing(0)'
    <3>1. got'.ts_ms = LastOf(seen, "ts_ms", 0, Int64(0)).n
      BY <2>2, <2>3, NoValues, Zenon
    <3> QED
      BY <1>1, <2>1, <2>6, <3>1, Zenon DEF KnowsPing
  <2>7. word # "type" /\ word # "reply"
    OBVIOUS
  <2> QED
    BY <2>5, <2>6, <2>7, Zenon DEF Knows
<1>5. InLoop(word, 0)'
  <2>1. Fine(seen, word, 0)
    BY <1>2, AtStart
  <2> QED
    BY <1>1, <1>3, <1>4, <2>1, Zenon DEF InLoop
<1>6. 0 \in 0..Len(seen)
  BY <1>2, SeenIs
<1>7. LineInv'
  BY <1>1, <1>2, LineKept
<1>8. pc' # "start" /\ pc' # "done" /\ pc' # "reply"
  BY <1>1
<1> QED
  BY <1>1, <1>2, <1>5, <1>6, <1>7, <1>8, Zenon DEF MeaningInv

LEMMA WriteEnvelopeStep ==
  ASSUME MeaningInv, NEW fs, WriteEnvelope(fs)
  PROVE  MeaningInv'
<1>1. /\ pc = "start" /\ pc' = "done" /\ UNCHANGED input /\ line' = line
  BY DEF WriteEnvelope, input
<1>2. LineInv' /\ line = <<>>
  BY <1>1, LineKept DEF MeaningInv
<1>3. pc' \notin Loops
  BY <1>1, LoopsAre
<1> QED
  BY <1>1, <1>2, <1>3, Zenon DEF MeaningInv

LEMMA MeaningInit == Init => MeaningInv
<1> SUFFICES ASSUME Init PROVE MeaningInv
  OBVIOUS
<1>1. /\ pc = "start" /\ line = <<>> /\ seen = <<>> /\ got = NoLocals /\ did = Nothing
  BY DEF Init
<1>2. LineInv
  <2>1. /\ seen \in Seq(FieldType) /\ Len(seen) = 0 /\ Len(line) = 0
        /\ DOMAIN seen = {} /\ DOMAIN line = {}
    BY <1>1
  <2>2. FieldsAt(line, seen, 1)
    <3>1. 1..Len(seen) = {}
      BY <2>1
    <3> QED
      BY <3>1, Zenon DEF FieldsAt
  <2>3. KindAt(line, 4 * Len(seen) + 4) = "end"
    BY <2>1 DEF KindAt
  <2> QED
    BY <1>1, <2>1, <2>2, <2>3 DEF LineInv
<1>3. pc \notin Loops
  BY <1>1, LoopsAre
<1> QED
  BY <1>1, <1>2, <1>3, Zenon DEF MeaningInv

-----------------------------------------------------------------------------
\* A line as it arrives.

\* How many fields of fs are whole in the tokens x.
WholeUpTo(x, fs, m) ==
  /\ m \in 0..Len(fs) /\ 4 * m <= Len(x)
  /\ {i \in DOMAIN fs : 4 * i <= Len(x) /\ x[4 * i].k # "cut"} = 1..m
  /\ \A i \in 1..m : x[4 * i] \in FieldValue
  /\ KindAt(x, 4 * m + 4) \in {"cut", "end"}

\* A value that is cut is a string without its end or a smaller number.
LEMMA ShortenedIs ==
  ASSUME NEW v \in FieldValue
  PROVE  /\ v \in Token /\ v.k # "cut"
         /\ v.k = "str" => Shortened(v) = Mark("cut")
         /\ v.k # "str" => Shortened(v) \in FieldValue /\ Shortened(v).k # "cut"
<1>1. v \in Token /\ (v = Str(v.s) \/ v = Int64(v.n) \/ v \in {Mark("bool"), Mark("null"), Mark("open")})
  BY DEF FieldValue
<1>2. v.k # "cut"
  BY <1>1 DEF Str, Int64, Mark
<1>3. v.k = "str" => Shortened(v) = Mark("cut")
  BY DEF Shortened
<1>4. ASSUME v.k # "str" PROVE Shortened(v) \in FieldValue /\ Shortened(v).k # "cut"
  <2> DEFINE i == v.n \div 10
             w == Int64(i)
  <2>1. v.n \in Int
    BY <1>1 DEF Token
  <2>2. i \in Int
    BY <2>1
  <2>3. Shortened(v) = w
    BY <1>4 DEF Shortened
  <2> HIDE DEF i
  <2>4. w \in Token /\ w.n = i /\ w.k = "int"
    BY <2>2, TokenTypes DEF Int64
  <2> QED
    BY <2>3, <2>4 DEF FieldValue
<1> QED
  BY <1>1, <1>2, <1>3, <1>4

\* Wherever an object is cut, the fields before the cut are whole.
LEMMA SeenFieldsAre ==
  ASSUME NEW fs \in Seq(FieldType), NEW n \in 0..Len(ObjectTokens(fs)), NEW cut \in BOOLEAN,
         cut => n > 0 /\ CanBeCut(ObjectTokens(fs)[n])
  PROVE  LET x == FirstTokens(ObjectTokens(fs), n, cut)
         IN  \E m \in Nat : /\ WholeUpTo(x, fs, m)
                            /\ n = Len(ObjectTokens(fs)) => n <= 4 * m + 2
<1> DEFINE b == ObjectTokens(fs)
           x == FirstTokens(b, n, cut)
           L == Len(fs)
<1>1. /\ b \in Seq(Token) /\ Len(b) = ObjectLen(L) /\ FieldsAt(b, fs, 1)
  BY ObjectShape
<1>2. /\ x \in Seq(Token) /\ Len(x) = n
      /\ \A i \in 1..(n - 1) : x[i] = b[i]
      /\ n > 0 => x[n] = IF cut THEN Shortened(b[n]) ELSE b[n]
  BY <1>1, FirstTokensAre
<1>3. L \in Nat /\ DOMAIN fs = 1..L /\ DOMAIN x = 1..n /\ \A i \in 1..L : fs[i] \in FieldType
  BY <1>2, LenProperties, ElementOfSeq
<1>4. n \in Nat /\ n <= Len(b) /\ Len(b) = IF L = 0 THEN 2 ELSE 4 * L + 1
  BY <1>1, <1>3 DEF ObjectLen, BodyLen
<1> HIDE DEF x, b, L
<1> DEFINE q == n \div 4
<1>5. q \in Nat /\ 4 * q <= n /\ n < 4 * q + 4
  BY <1>4
<1>6. q <= L
  BY <1>3, <1>4, <1>5
<1> HIDE DEF q
<1>7. ASSUME NEW i \in 1..L
      PROVE  /\ b[4 * i] = fs[i].val /\ fs[i].val \in FieldValue
             /\ fs[i].val.k # "cut"
  <2>1. 1 + 4 * i - 1 = 4 * i
    BY <1>3
  <2>2. b[1 + 4 * i - 1] = fs[i].val
    BY <1>1 DEF FieldsAt, L
  <2>3. fs[i].val \in FieldValue
    BY <1>3, FieldTypes
  <2> QED
    BY <2>1, <2>2, <2>3, ShortenedIs
\* A field whose value stands before the last token is whole.
<1>8. ASSUME NEW i \in 1..L, 4 * i < n
      PROVE  x[4 * i] \in FieldValue /\ x[4 * i].k # "cut"
  <2>1. 4 * i \in 1..(n - 1)
    BY <1>3, <1>4, <1>8
  <2> QED
    BY <1>2, <1>7, <2>1
<1>9. ASSUME NEW i \in 1..L, 4 * i = n
      PROVE  \/ x[n] \in FieldValue /\ x[n].k # "cut"
             \/ x[n].k = "cut"
  <2>1. n > 0 /\ b[n] = fs[i].val /\ b[n] \in FieldValue /\ b[n].k # "cut"
    BY <1>3, <1>7, <1>9
  <2>2. CASE ~cut
    BY <1>2, <2>1, <2>2
  <2>3. CASE cut /\ b[n].k = "str"
    <3>1. x[n] = Mark("cut")
      BY <1>2, <2>1, <2>3, ShortenedIs
    <3> QED
      BY <3>1 DEF Mark
  <2>4. CASE cut /\ b[n].k # "str"
    BY <1>2, <2>1, <2>4, ShortenedIs
  <2> QED
    BY <2>2, <2>3, <2>4
<1> DEFINE last == n = 4 * q /\ q > 0 /\ x[n].k = "cut"
           m == IF last THEN q - 1 ELSE q
           whole == {i \in DOMAIN fs : 4 * i <= n /\ x[4 * i].k # "cut"}
<1>10. m \in 0..L /\ 4 * m <= n /\ m \in Nat
  BY <1>3, <1>5, <1>6
<1>11. ASSUME NEW i \in 1..L PROVE i \in whole <=> i \in 1..m
  <2>1. i \in Nat /\ i >= 1
    BY <1>3
  <2>2. CASE 4 * i < n
    <3>1. i \in whole
      BY <1>3, <1>8, <2>2, <2>1
    <3>2. i <= m
      BY <1>4, <1>5, <2>1, <2>2
    <3> QED
      BY <1>10, <2>1, <3>1, <3>2
  <2>3. CASE 4 * i = n
    <3>1. i = q
      BY <1>5, <2>1, <2>3
    <3>2. i \in whole <=> x[n].k # "cut"
      BY <1>3, <1>4, <2>3
    <3> QED
      BY <1>5, <2>1, <2>3, <3>1, <3>2
  <2>4. CASE 4 * i > n
    <3>1. i \notin whole /\ i > q
      BY <1>4, <1>5, <2>1, <2>4
    <3> QED
      BY <1>5, <1>10, <2>1, <3>1
  <2> QED
    BY <1>4, <2>1, <2>2, <2>3, <2>4
<1>12. whole = 1..m
  <2>1. whole \subseteq 1..L /\ 1..m \subseteq 1..L
    BY <1>3, <1>10
  <2> HIDE DEF whole, m
  <2> QED
    BY <1>11, <2>1
<1>13. \A i \in 1..m : x[4 * i] \in FieldValue
  <2> SUFFICES ASSUME NEW i \in 1..m PROVE x[4 * i] \in FieldValue
    OBVIOUS
  <2>1. i \in whole /\ i \in 1..L
    BY <1>3, <1>10, <1>12
  <2>2. 4 * i <= n /\ x[4 * i].k # "cut"
    BY <2>1
  <2> HIDE DEF whole, m
  <2>3. 4 * i < n \/ 4 * i = n
    BY <1>3, <1>4, <2>1, <2>2
  <2> QED
    BY <1>8, <1>9, <2>1, <2>2, <2>3
<1>14. KindAt(x, 4 * m + 4) \in {"cut", "end"}
  <2>1. CASE last
    <3>1. 4 * m + 4 = n /\ n \in 1..n
      BY <1>4, <1>5, <2>1
    <3> QED
      BY <1>3, <2>1, <3>1 DEF KindAt
  <2>2. CASE ~last
    <3>1. 4 * m + 4 \notin 1..n
      BY <1>4, <1>5, <2>2
    <3> QED
      BY <1>3, <3>1 DEF KindAt
  <2> QED
    BY <2>1, <2>2
<1>15. n = Len(b) => n <= 4 * m + 2
  BY <1>3, <1>4, <1>5, <1>6
<1> HIDE DEF m
<1>16. WholeUpTo(x, fs, m)
  BY <1>2, <1>10, <1>12, <1>13, <1>14 DEF WholeUpTo, L
<1> QED
  BY <1>10, <1>15, <1>16 DEF x, b

\* What a line shows against what was sent.
SentInv == seen \in Beginnings(sent) /\ (~torn => seen = sent)

LEMMA ArrivedLine ==
  ASSUME NEW who, NEW fs \in Seq(FieldType), Arrive(who, fs)
  PROVE  LineInv' /\ SentInv'
<1> DEFINE b == ObjectTokens(fs)
<1>1. PICK n \in 0..Len(b), cut \in BOOLEAN :
        /\ cut => n > 0 /\ CanBeCut(b[n])
        /\ line' = FirstTokens(b, n, cut) /\ torn' = (n < Len(b))
  BY DEF Arrive
<1> DEFINE x == FirstTokens(b, n, cut)
<1>2. seen' = SeenFields(fs, x) /\ line' = x
  BY <1>1 DEF Arrive
<1>3. PICK m \in Nat : /\ WholeUpTo(x, fs, m)
                       /\ n = Len(b) => n <= 4 * m + 2
  BY <1>1, SeenFieldsAre
<1>4. /\ b \in Seq(Token) /\ b[1] = Mark("{") /\ FieldsAt(b, fs, 1) /\ Len(b) \in Nat
  BY ObjectShape, LenProperties
<1>5. /\ x \in Seq(Token) /\ Len(x) = n
      /\ \A i \in 1..(n - 1) : x[i] = b[i]
      /\ n > 0 => x[n] = IF cut THEN Shortened(b[n]) ELSE b[n]
  BY <1>1, <1>4, FirstTokensAre
<1>6. /\ DOMAIN fs = 1..Len(fs) /\ Len(fs) \in Nat /\ n \in Nat /\ n <= Len(b)
      /\ \A i \in 1..Len(fs) : fs[i] \in FieldType
      /\ cut => CanBeCut(b[n]) /\ b[n].k \in {"str", "int"}
      /\ torn' <=> n < Len(b)
  <2>1. DOMAIN fs = 1..Len(fs) /\ Len(fs) \in Nat
    BY LenProperties
  <2>2. \A i \in 1..Len(fs) : fs[i] \in FieldType
    BY ElementOfSeq
  <2>3. (cut => CanBeCut(b[n])) /\ (torn' <=> n < Len(b))
    BY <1>1
  <2>5. CanBeCut(b[n]) => b[n].k \in {"str", "int"}
    BY DEF CanBeCut
  <2>4. n \in Nat /\ n <= Len(b)
    <3>1. Len(b) \in Nat /\ n \in 0..Len(b)
      BY <1>4
    <3> HIDE DEF b, x
    <3> QED
      BY <3>1
  <2> QED
    BY <2>1, <2>2, <2>3, <2>4, <2>5
<1>23. Len(b) = IF Len(fs) = 0 THEN 2 ELSE 4 * Len(fs) + 1
  <2>1. Len(b) = ObjectLen(Len(fs))
    BY ObjectShape
  <2>2. ObjectLen(Len(fs)) = IF Len(fs) = 0 THEN 2 ELSE 4 * Len(fs) + 1
    BY <1>6 DEF ObjectLen, BodyLen
  <2> QED
    BY <2>1, <2>2
<1> HIDE DEF b, x
<1> DEFINE S == [i \in 1..m |-> [fs[i] EXCEPT !.val = x[4 * i]]]
<1>7. /\ m \in 0..Len(fs) /\ 4 * m <= n
      /\ {i \in DOMAIN fs : 4 * i <= Len(x) /\ x[4 * i].k # "cut"} = 1..m
      /\ \A i \in 1..m : x[4 * i] \in FieldValue
      /\ KindAt(x, 4 * m + 4) \in {"cut", "end"}
  BY <1>3, <1>5 DEF WholeUpTo
<1>8. seen' = S
  <2>1. SeenFields(fs, x) = S
    BY <1>7 DEF SeenFields
  <2> QED
    BY <1>2, <2>1
<1>9. \A i \in 1..m : i \in 1..Len(fs)
  BY <1>6, <1>7
<1>10. \A i \in 1..m : [fs[i] EXCEPT !.val = x[4 * i]] \in FieldType
  <2> SUFFICES ASSUME NEW i \in 1..m PROVE [fs[i] EXCEPT !.val = x[4 * i]] \in FieldType
    OBVIOUS
  <2>1. fs[i] \in FieldType /\ x[4 * i] \in FieldValue
    BY <1>6, <1>7, <1>9
  <2> QED
    BY <2>1 DEF FieldType
<1>11. S \in Seq(FieldType) /\ Len(S) = m
  BY <1>10
<1>12. \A i \in 1..m : S[i].key = fs[i].key /\ S[i].val = x[4 * i]
  <2> SUFFICES ASSUME NEW i \in 1..m PROVE S[i].key = fs[i].key /\ S[i].val = x[4 * i]
    OBVIOUS
  <2>1. fs[i] \in FieldType
    BY <1>6, <1>9
  <2>2. S[i] = [fs[i] EXCEPT !.val = x[4 * i]]
    OBVIOUS
  <2> HIDE DEF S
  <2> QED
    BY <2>1, <2>2 DEF FieldType
<1> HIDE DEF S
<1>13. x # <<>> => x[1] = Mark("{")
  <2> SUFFICES ASSUME x # <<>> PROVE x[1] = Mark("{")
    OBVIOUS
  <2>1. n >= 1
    BY <1>5, <1>6, EmptySeq
  <2>2. CASE n > 1
    <3>1. 1 \in 1..(n - 1)
      BY <1>6, <2>2
    <3> QED
      BY <1>4, <1>5, <3>1
  <2>3. CASE n = 1
    <3>1. ~cut
      <4>1. b[n] = Mark("{") /\ Mark("{").k = "{"
        BY <1>4, <2>3 DEF Mark
      <4>2. cut => b[n].k \in {"str", "int"}
        BY <1>6
      <4> QED
        BY <4>1, <4>2
    <3>2. n > 0
      BY <2>3
    <3>3. x[n] = b[n]
      BY <1>5, <3>1, <3>2
    <3> QED
      BY <1>4, <2>3, <3>3
  <2>4. n > 1 \/ n = 1
    BY <1>6, <2>1
  <2> QED
    BY <2>2, <2>3, <2>4
<1>14. FieldsAt(x, S, 1)
  <2> SUFFICES ASSUME NEW i \in 1..m
               PROVE  /\ x[1 + 4 * i - 3] = Str(S[i].key) /\ x[1 + 4 * i - 2] = Mark(":")
                      /\ x[1 + 4 * i - 1] = S[i].val
                      /\ i > 1 => x[1 + 4 * i - 4] = Mark(",")
    BY <1>11, Zenon DEF FieldsAt
  <2>1. /\ b[1 + 4 * i - 3] = Str(fs[i].key) /\ b[1 + 4 * i - 2] = Mark(":")
        /\ i > 1 => b[1 + 4 * i - 4] = Mark(",")
    BY <1>4, <1>9 DEF FieldsAt
  <2>2. /\ 1 + 4 * i - 3 \in 1..(n - 1) /\ 1 + 4 * i - 2 \in 1..(n - 1)
        /\ 1 + 4 * i - 1 = 4 * i /\ (i > 1 => 1 + 4 * i - 4 \in 1..(n - 1))
    BY <1>6, <1>7
  <2> QED
    BY <1>5, <1>12, <2>1, <2>2
<1>15. ~torn' => Len(x) <= 4 * m + 2
  BY <1>3, <1>5, <1>6
<1>16. LineInv'
  BY <1>2, <1>5, <1>7, <1>8, <1>11, <1>13, <1>14, <1>15 DEF LineInv
\* Only the value at the cut can differ from what was sent.
<1>17. ASSUME NEW i \in 1..m
       PROVE  /\ fs[i] \in FieldType /\ b[4 * i] = fs[i].val
              /\ x[4 * i] = fs[i].val => S[i] = fs[i]
  <2>1. fs[i] \in FieldType /\ 1 + 4 * i - 1 = 4 * i
    BY <1>6, <1>7, <1>9
  <2>2. b[1 + 4 * i - 1] = fs[i].val
    BY <1>4, <1>9 DEF FieldsAt
  <2>3. S[i] = [fs[i] EXCEPT !.val = x[4 * i]]
    BY DEF S
  <2>4. x[4 * i] = fs[i].val => S[i] = fs[i]
    BY <2>1, <2>3 DEF FieldType
  <2> QED
    BY <2>1, <2>2, <2>4
<1>18. ASSUME NEW i \in 1..m, 4 * i < n \/ ~cut PROVE S[i] = fs[i]
  <2>1. n > 0 /\ (4 * i \in 1..(n - 1) \/ (4 * i = n /\ ~cut))
    BY <1>6, <1>7, <1>18
  <2>2. x[4 * i] = b[4 * i]
    BY <1>5, <2>1
  <2> QED
    BY <1>17, <2>2
<1> DEFINE P == Prefix(fs, m)
<1>19. P \in Seq(FieldType) /\ Len(P) = m /\ \A i \in 1..m : P[i] = fs[i]
  <2>1. m \in Nat /\ m <= Len(fs)
    BY <1>6, <1>7
  <2> QED
    BY <1>6, <2>1, PrefixIs
<1> HIDE DEF P
<1>20. P = [i \in 1..m |-> P[i]] /\ S = [i \in 1..m |-> S[i]] /\ m \in 0..Len(fs)
  BY <1>7, <1>11, <1>19
<1>21. CASE \A i \in 1..m : 4 * i < n \/ ~cut
  <2>1. S = P
    BY <1>18, <1>19, <1>20, <1>21
  <2>2. P \in Beginnings(fs)
    BY <1>20 DEF Beginnings, P
  <2>3. ASSUME ~torn' PROVE S = fs
    <3>1. n = Len(b) /\ n <= 4 * m + 2
      <4>1. ~(n < Len(b))
        BY <1>6, <2>3, Zenon
      <4>3. n \in Nat /\ n <= Len(b) /\ Len(b) \in Nat
        BY <1>4, <1>6, Zenon
      <4>2. n = Len(b)
        BY <4>1, <4>3
      <4> QED
        BY <1>3, <4>2
    <3>2. m = Len(fs)
      <4>1. m \in Nat /\ m <= Len(fs) /\ Len(fs) \in Nat
        BY <1>6, <1>20
      <4>2. Len(fs) = 0 \/ 4 * Len(fs) + 1 <= 4 * m + 2
        BY <1>6, <1>23, <3>1
      <4> QED
        BY <4>1, <4>2
    <3>3. fs = [i \in 1..m |-> fs[i]]
      BY <3>2
    <3> QED
      BY <1>19, <1>20, <2>1, <3>3
  <2>4. sent' = fs
    BY DEF Arrive
  <2> QED
    BY <1>8, <1>16, <2>1, <2>2, <2>3, <2>4 DEF SentInv
<1>22. CASE ~(\A i \in 1..m : 4 * i < n \/ ~cut)
  <2>1. m \in 1..Len(fs) /\ 4 * m = n /\ cut /\ m \in 1..m
    BY <1>6, <1>7, <1>22
  <2>2. x[n] = Shortened(b[n]) /\ x[n].k # "cut" /\ b[n] = fs[m].val /\ CanBeCut(b[n])
    <3>1. n > 0
      BY <1>6, <2>1
    <3>2. m \in {i \in DOMAIN fs : 4 * i <= Len(x) /\ x[4 * i].k # "cut"}
      BY <1>7, <2>1
    <3> QED
      BY <1>5, <1>6, <1>17, <2>1, <3>1, <3>2
  <2>3. fs[m].val.k = "int"
    <3>1. fs[m].val.k # "str"
      BY <2>2 DEF Shortened, Mark
    <3> QED
      BY <2>2, <3>1 DEF CanBeCut
  <2> DEFINE Q == [P EXCEPT ![m].val = Shortened(@)]
  <2>4. Q = [i \in 1..m |-> IF i = m THEN [P[m] EXCEPT !.val = Shortened(@)] ELSE P[i]]
    BY <1>20
  <2>5. \A i \in 1..m : S[i] = IF i = m THEN [P[m] EXCEPT !.val = Shortened(@)] ELSE P[i]
    <3> SUFFICES ASSUME NEW i \in 1..m
                 PROVE  S[i] = IF i = m THEN [P[m] EXCEPT !.val = Shortened(@)] ELSE P[i]
      OBVIOUS
    <3>1. CASE i = m
      <4>1. S[m] = [fs[m] EXCEPT !.val = x[4 * m]]
        BY <2>1 DEF S
      <4>2. x[4 * m] = Shortened(fs[m].val) /\ P[m] = fs[m]
        BY <1>19, <2>1, <2>2
      <4> QED
        BY <3>1, <4>1, <4>2
    <3>2. CASE i # m
      <4>1. 4 * i < n
        BY <1>6, <2>1, <3>2
      <4> QED
        BY <1>18, <1>19, <3>2, <4>1
    <3> QED
      BY <3>1, <3>2
  <2> HIDE DEF Q
  <2>6. S = Q
    BY <1>20, <2>4, <2>5
  <2>7. Q \in Beginnings(fs)
    BY <1>6, <2>1, <2>2, <2>3 DEF Beginnings, Q, P
  <2>8. torn'
    <3>1. n < Len(b)
      BY <1>6, <1>23, <2>1
    <3> QED
      BY <1>6, <3>1
  <2>9. sent' = fs
    BY DEF Arrive
  <2> QED
    BY <1>8, <1>16, <2>6, <2>7, <2>8, <2>9 DEF SentInv
<1> QED
  BY <1>16, <1>21, <1>22

LEMMA ArriveStep ==
  ASSUME TypeInv, TypeInv', MeaningInv, NEW who \in {"dispatch_line", "parseReply"},
         NEW fs \in Seq(FieldType), Arrive(who, fs)
  PROVE  MeaningInv'
<1>1. LineInv'
  BY ArrivedLine
<1> DEFINE entered == enterObject(line', NewReader)
<1>2. /\ pc = "start" /\ caller' = who /\ r' = entered.r
      /\ pc' = IF ~entered.ok THEN "done" ELSE IF who = "parseReply" THEN "reply" ELSE "type"
      /\ got' = got /\ did' = did
  BY DEF Arrive
<1>3. got' = NoLocals /\ did' = Nothing
  BY <1>2 DEF MeaningInv
<1>4. line' \in Seq(Token)
  BY DEF TypeInv, ReaderInv
<1>5. /\ entered.ok <=> KindAt(line', 1) = "{"
      /\ entered.ok => entered.r = [p |-> 2, needs_comma |-> FALSE, error |-> FALSE]
  BY <1>4, EnterIs
<1> HIDE DEF entered
<1>6. KindAt(line', 1) = "{" <=> line' # <<>>
  <2>1. CASE line' = <<>>
    <3>1. DOMAIN line' = {}
      BY <2>1
    <3> QED
      BY <2>1, <3>1 DEF KindAt
  <2>2. CASE line' # <<>>
    <3>1. line'[1] = Mark("{")
      BY <1>1, <2>2 DEF LineInv
    <3>2. Len(line') \in Nat /\ DOMAIN line' = 1..Len(line') /\ Len(line') # 0
      BY <1>4, <2>2, LenProperties, EmptySeq
    <3>3. 1 \in 1..Len(line')
      BY <3>2
    <3>4. KindAt(line', 1) = line'[1].k
      BY <3>2, <3>3, Zenon DEF KindAt
    <3>5. Mark("{").k = "{"
      BY DEF Mark
    <3> QED
      BY <2>2, <3>1, <3>4, <3>5, Zenon
  <2> QED
    BY <2>1, <2>2
<1>7. CASE line' = <<>>
  <2>1. pc' = "done"
    BY <1>2, <1>5, <1>6, <1>7
  <2>2. pc' \notin Loops
    BY <2>1, LoopsAre
  <2> QED
    BY <1>1, <1>7, <2>1, <2>2 DEF MeaningInv
<1>8. CASE line' # <<>>
  <2>1. /\ pc' = IF who = "parseReply" THEN "reply" ELSE "type"
        /\ r' = ReaderAt(0)
    BY <1>2, <1>5, <1>6, <1>8, AtStart
  <2>2. /\ caller' = IF pc' = "reply" THEN "parseReply" ELSE "dispatch_line"
        /\ pc' \in {"type", "reply"}
    BY <1>2, <2>1
  <2>3. \A word, default : LastOf(seen', word, 0, default) = default
    BY AtStart, Zenon
  <2>4. ASSUME pc' = "type" PROVE KnowsType(0)'
    <3>1. Chars(LastOf(seen', "t", 0, Str(<<>>))) = <<>>
      BY <2>3, NoValues, Zenon
    <3>2. NoLocals = [NoLocals EXCEPT !.t_val = <<>>]
      BY DEF NoLocals
    <3> QED
      BY <1>3, <3>1, <3>2, Zenon DEF KnowsType
  <2>5. ASSUME pc' = "reply" PROVE KnowsReply(0)'
    <3>1. /\ ~NoLocals.saw_t_bridge /\ NoLocals.host = <<>> /\ NoLocals.port = 0
      BY DEF NoLocals
    <3>2. Named(seen', "t", 0) = {}
      BY AtStart, Zenon
    <3>3. /\ Prefix(Chars(LastOf(seen', "host", 0, Str(<<>>))), HostSize) = <<>>
          /\ Narrow(LastOf(seen', "port", 0, Int64(0)).n) = 0
      BY <2>3, NoValues, Bounds, Zenon
    <3> QED
      BY <1>3, <3>1, <3>2, <3>3, Zenon DEF KnowsReply
  <2>6. ASSUME NEW loop \in {"type", "reply"}, pc' = loop PROVE InLoop(loop, 0)'
    <3>1. Fine(seen', loop, 0)
      BY AtStart, Zenon
    <3>2. loop = "type" => KnowsType(0)'
      BY <2>4, <2>6
    <3>3. loop = "reply" => KnowsReply(0)'
      BY <2>5, <2>6
    <3>4. loop # "lua_exec" /\ loop # "ping"
      OBVIOUS
    <3>5. Knows(loop, 0)'
      BY <3>2, <3>3, <3>4, Zenon DEF Knows
    <3> QED
      BY <2>1, <3>1, <3>5, Zenon DEF InLoop
  <2>7. InLoop(pc, 0)'
    BY <2>2, <2>6
  <2>8. 0 \in 0..Len(seen')
    <3>1. seen' \in Seq(FieldType)
      BY <1>1 DEF LineInv
    <3> QED
      BY <3>1, LenProperties
  <2>9. pc' # "start" /\ pc' # "done"
    BY <2>2
  <2>10. \E i \in 0..Len(seen') : InLoop(pc, i)'
    BY <2>7, <2>8
  <2> QED
    BY <1>1, <1>3, <1>8, <2>2, <2>9, <2>10, Zenon DEF MeaningInv
<1> QED
  BY <1>7, <1>8

-----------------------------------------------------------------------------
LEMMA MeaningStep == TypeInv /\ TypeInv' /\ MeaningInv /\ [Next]_vars => MeaningInv'
<1> SUFFICES ASSUME TypeInv, TypeInv', MeaningInv, [Next]_vars PROVE MeaningInv'
  OBVIOUS
<1>1. ASSUME NEW fs \in Lines, Arrive("dispatch_line", fs) PROVE MeaningInv'
  <2>1. fs \in Seq(FieldType)
    BY ConstantsAssumption
  <2> QED
    BY <1>1, <2>1, ArriveStep
<1>2. ASSUME NEW fs \in Replies, Arrive("parseReply", fs) PROVE MeaningInv'
  <2>1. fs \in Seq(FieldType)
    BY ConstantsAssumption
  <2> QED
    BY <1>2, <2>1, ArriveStep
<1>3. CASE FieldTaken
  BY <1>3, TypeFieldStep, SeqFieldStep, SrcFieldStep, TsFieldStep, BridgeFieldStep,
     HostFieldStep, PortFieldStep DEF FieldTaken
<1>4. CASE SkipField
  BY <1>4, SkipFieldStep
<1>5. CASE GiveUp
  BY <1>5, GiveUpStep
<1>6. CASE \E word \in {"lua_exec", "ping"} : SecondPass(word)
  BY <1>6, SecondPassStep
<1>7. CASE HelloAck \/ Kick \/ UnknownType
  BY <1>7, PlainStep
<1>8. CASE HandOver
  BY <1>8, HandOverStep
<1>9. CASE enqueue_pong
  BY <1>9, PongStep
<1>10. CASE ReplyEnds
  BY <1>10, ReplyEndsStep
<1>11. CASE \E fs \in Envelopes : WriteEnvelope(fs)
  BY <1>11, WriteEnvelopeStep
<1>12. CASE UNCHANGED vars
  <2>1. /\ pc' = pc /\ UNCHANGED input /\ seen' = seen /\ line' = line /\ caller' = caller
        /\ got' = got /\ did' = did /\ torn' = torn /\ r' = r /\ mailbox' = mailbox
    BY <1>12 DEF vars, input
  <2>2. LineInv'
    BY <2>1, LineKept DEF MeaningInv
  <2>3. Meaning' = Meaning
    BY <2>1 DEF Meaning
  <2>4. CASE pc \in Loops
    <3>1. PICK i \in 0..Len(seen) : InLoop(pc, i)
      BY <2>4 DEF MeaningInv
    <3>2. InLoop(pc, i)'
      <4>1. Knows(pc, i) => Knows(pc, i)'
        BY <2>1, Zenon DEF Knows, KnowsType, KnowsExec, KnowsPing, KnowsReply, TypeKnown
      <4> QED
        BY <2>1, <3>1, <4>1, Zenon DEF InLoop
    <3> QED
      BY <2>1, <2>4, <3>2, StillInLoop
  <2>5. CASE pc \notin Loops
    BY <2>1, <2>2, <2>3, <2>5, Zenon DEF MeaningInv
  <2> QED
    BY <2>4, <2>5
<1> QED
  BY <1>1, <1>2, <1>3, <1>4, <1>5, <1>6, <1>7, <1>8, <1>9, <1>10, <1>11, <1>12 DEF Next

LEMMA MeaningAlways == Spec => []MeaningInv
<1> QED
  BY TypeAlways, MeaningInit, MeaningStep, PTL DEF Spec

LEMMA SentInit == Init => SentInv
<1> SUFFICES ASSUME Init PROVE SentInv
  OBVIOUS
<1>1. seen = <<>> /\ sent = <<>>
  BY DEF Init
<1>2. 0 \in 0..Len(sent) /\ Prefix(sent, 0) = seen
  BY <1>1 DEF Prefix
<1> QED
  BY <1>1, <1>2 DEF SentInv, Beginnings

LEMMA SentStep == SentInv /\ [Next]_vars => SentInv'
<1> SUFFICES ASSUME SentInv, [Next]_vars PROVE SentInv'
  OBVIOUS
<1>1. ASSUME NEW fs \in Lines \cup Replies, NEW who, Arrive(who, fs) PROVE SentInv'
  <2>1. fs \in Seq(FieldType)
    BY ConstantsAssumption
  <2> QED
    BY <1>1, <2>1, ArrivedLine
<1>2. CASE UNCHANGED input
  BY <1>2 DEF SentInv, input
<1>3. (\E fs \in Lines \cup Replies, who \in {"dispatch_line", "parseReply"} : Arrive(who, fs))
      \/ UNCHANGED input
  BY Zenon DEF Next, vars, input, FieldTaken, TypeField, SeqField, SrcField, TsField, BridgeField,
     HostField, PortField, Take, SkipField, GiveUp, SecondPass, HelloAck, Kick, UnknownType,
     HandOver, enqueue_pong, ReplyEnds, Return, WriteEnvelope
<1> QED
  BY <1>1, <1>2, <1>3

LEMMA SentAlways == Spec => []SentInv
<1> QED
  BY SentInit, SentStep, PTL DEF Spec

\* A whole line leads to what the fields that were sent mean, up to the first
\* that the loop cannot skip: the two passes of dispatch_line and the one of
\* parseReply, for lines of any length.
THEOREM LinesAreAsMeant == Spec => []LineAsMeant
<1>1. MeaningInv /\ SentInv => LineAsMeant
  BY DEF MeaningInv, SentInv, LineAsMeant, Meaning, MeaningOf
<1> QED
  BY <1>1, MeaningAlways, SentAlways, PTL

\* A line without its end leads to what a beginning of the fields that were
\* sent means, or to nothing: of what line_buf or a receive buffer cuts, a
\* string never counts without its end, while a number counts without its last
\* digits and a field that is missing counts as 0 or empty.
THEOREM TornLinesLoseTheirEnd == Spec => []TornLineLosesItsEnd
<1>1. MeaningInv /\ SentInv => TornLineLosesItsEnd
  BY DEF MeaningInv, SentInv, TornLineLosesItsEnd, Meaning, MeaningOf
<1> QED
  BY <1>1, MeaningAlways, SentAlways, PTL
=============================================================================
