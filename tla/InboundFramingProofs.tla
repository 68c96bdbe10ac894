------------------------ MODULE InboundFramingProofs ------------------------
(***************************************************************************)
(* What holds of the line framing for buffers of every size, lines of      *)
(* every length and every way in which TCP cuts the stream: no index       *)
(* leaves its buffer, each line is dispatched in its turn, as a function   *)
(* of that line alone, and none is lost.  The invariant says of the bytes  *)
(* that are pending, in the buffer or still to be received, how a byte     *)
(* relates to the ones before it; the place of every line follows.         *)
(***************************************************************************)
EXTENDS InboundFraming, SequenceTheorems, FiniteSetTheorems, FunctionTheorems,
        WellFoundedInduction, TLAPS

\* The bytes of the connection that are not dispatched yet.
Pending == g_inbound \o stream

\* The place of a byte in its line; the newline is behind the last byte.
Off(b, s) == IF b.pos = 0 THEN s[b.line].len ELSE b.pos - 1

\* A stretch without a newline belongs to one line, byte after byte; behind a
\* newline the next line starts; the last newline is that of the last line.
InLines(q, s) ==
  \A j \in DOMAIN q : q[j].line \in DOMAIN s /\ q[j].pos <= s[q[j].line].len
Stretches(q, s) ==
  \A k, j \in DOMAIN q :
    k <= j /\ (\A l \in k..(j - 1) : q[l].pos # 0) =>
      q[j].line = q[k].line /\ Off(q[j], s) = Off(q[k], s) + (j - k)
NextStarts(q, s) ==
  \A k \in DOMAIN q : k + 1 \in DOMAIN q /\ q[k].pos = 0 =>
    q[k + 1].line = q[k].line + 1 /\ Off(q[k + 1], s) = 0
InOrder(q) ==
  \A j, k \in DOMAIN q : j < k =>
    q[j].line <= q[k].line /\ (q[j].pos = 0 => q[j].line < q[k].line)
Ends(q, s) == q # <<>> => q[Len(q)] = Newline(Len(s))
MadeOfLines(q, s) ==
  InLines(q, s) /\ Stretches(q, s) /\ NextStarts(q, s) /\ InOrder(q) /\ Ends(q, s)

\* The first pending byte is of the line that is dispatched next, and only full
\* buffers of that line are gone; every later line is there to its newline.
Starts(q, s, m) ==
  /\ q # <<>> => /\ q[1].line = m + 1
                 /\ \E c \in Nat : Off(q[1], s) = c * InboundCap
  /\ q = <<>> => m = Len(s)
EachEnds(q, s, m) ==
  \A i \in (m + 1)..Len(s) : \E j \in DOMAIN q : q[j] = Newline(i)

NoNewline(q) == \A j \in DOMAIN q : q[j].pos # 0

StreamPoint ==
  /\ MadeOfLines(Pending, sent)
  /\ wpc # "closed" => /\ Starts(Pending, sent, Len(dispatched))
                       /\ EachEnds(Pending, sent, Len(dispatched))
  /\ wpc = "closed" => g_inbound = <<>> /\ stream = <<>>
  /\ wpc = "poll" => NoNewline(g_inbound)

IInv == TypeOK /\ LinesAsExpected /\ StreamPoint

-----------------------------------------------------------------------------
\* The empty sequence, arithmetic, least elements.

\* The empty sequence, as facts of their own.
LEMMA NothingThere ==
  /\ \A S : <<>> \in Seq(S)
  /\ Len(<<>>) = 0 /\ DOMAIN <<>> = {}
<1>1. \A S : <<>> \in Seq(S) /\ Len(<<>>) = 0
  OBVIOUS
<1>2. DOMAIN <<>> = {}
  BY <1>1
<1> QED BY <1>1, <1>2

\* Min of a set of natural numbers is its least element.
LEMMA LeastOf ==
  ASSUME NEW S \in SUBSET Nat, S # {}
  PROVE  Min(S) \in S /\ \A y \in S : Min(S) <= y
<1> DEFINE R == {ss \in Nat \X Nat : ss[1] < ss[2]}
<1>1. IsWellFoundedOn(R, Nat)
  BY NatLessThanWellFounded, Zenon DEF OpToRel
<1>2. \A x, y \in Nat : <<y, x>> \in R <=> y < x
  OBVIOUS
<1> HIDE DEF R
<1>3. \E x \in S : \A y \in S : <<y, x>> \notin R
  BY <1>1, WFMin
<1>4. \E x \in S : \A y \in S : x <= y
  <2>1. PICK x \in S : \A y \in S : <<y, x>> \notin R
    BY <1>3
  <2>2. \A y \in S : x \in Nat /\ y \in Nat /\ ~ (y < x)
    BY <1>2, <2>1
  <2>3. \A y \in S : x <= y
    BY <2>2
  <2> QED BY <2>3
<1> QED BY <1>4 DEF Min

\* Min of two numbers, which is how the lengths of the code are bounded.
LEMMA MinOfTwo ==
  ASSUME NEW a \in Int, NEW b \in Int
  PROVE  Min({a, b}) = IF a <= b THEN a ELSE b
<1>1. \E x \in {a, b} : \A y \in {a, b} : x <= y
  OBVIOUS
<1> QED BY <1>1 DEF Min

\* Division undoes the product and the remainder.
LEMMA Quotient ==
  ASSUME NEW c \in Nat \ {0}, NEW q \in Nat, NEW r \in 0..(c - 1)
  PROVE  (q * c + r) \div c = q
<1> DEFINE a == q * c + r
<1> DEFINE d == a \div c
<1>0. a \in Nat
  OBVIOUS
<1>1. d \in Int /\ c * d <= a /\ a < c * d + c
  BY <1>0, SMT
<1>2. ~ (d < q)
  OBVIOUS
<1> QED BY <1>1

-----------------------------------------------------------------------------
\* What the helpers return.

\* find_newline finds the first newline, and 0 only when there is none.
LEMMA FirstNewline ==
  ASSUME TypeOK
  PROVE  \/ find_newline = 0 /\ NoNewline(g_inbound)
         \/ /\ find_newline \in 1..Len(g_inbound)
            /\ g_inbound[find_newline].pos = 0
            /\ \A l \in 1..(find_newline - 1) : g_inbound[l].pos # 0
<1> DEFINE newlines == {i \in DOMAIN g_inbound : g_inbound[i].pos = 0}
<1>1. DOMAIN g_inbound = 1..Len(g_inbound) /\ Len(g_inbound) \in Nat
  BY DEF TypeOK
<1>2. CASE newlines = {}
  BY <1>1, <1>2 DEF find_newline, NoNewline
<1>3. CASE newlines # {}
  <2>1. newlines \in SUBSET Nat
    BY <1>1
  <2> HIDE DEF newlines
  <2>2. Min(newlines) \in newlines /\ \A y \in newlines : Min(newlines) <= y
    BY <1>3, <2>1, LeastOf
  <2>3. find_newline = Min(newlines)
    BY <1>3 DEF find_newline, newlines
  <2>4. \A i : i \in newlines <=> i \in DOMAIN g_inbound /\ g_inbound[i].pos = 0
    BY DEF newlines
  <2>5. /\ find_newline \in 1..Len(g_inbound)
        /\ g_inbound[find_newline].pos = 0
    BY <1>1, <2>2, <2>3, <2>4
  <2>6. \A l \in 1..(find_newline - 1) : g_inbound[l].pos # 0
    <3> TAKE l \in 1..(find_newline - 1)
    <3>1. l \in DOMAIN g_inbound /\ l < find_newline
      BY <1>1, <2>5
    <3> QED BY <1>1, <2>2, <2>3, <2>4, <2>5, <3>1
  <2> QED BY <2>5, <2>6
<1> QED BY <1>2, <1>3

\* line_buf receives the bytes in front of the newline, up to LineCap.
LEMMA LineBufIs ==
  ASSUME TypeOK, NEW nl \in 1..Len(g_inbound)
  PROVE  /\ LineBuf(nl) \in Seq(Byte)
         /\ Len(LineBuf(nl)) = IF nl - 1 <= LineCap THEN nl - 1 ELSE LineCap
         /\ \A p \in 1..Len(LineBuf(nl)) : LineBuf(nl)[p] = g_inbound[p]
<1> DEFINE n == IF nl - 1 <= LineCap THEN nl - 1 ELSE LineCap
<1>1. Len(g_inbound) \in Nat /\ g_inbound \in Seq(Byte) /\ LineCap \in Nat
  BY CapsAssumption DEF TypeOK
<1>2. LineBuf(nl) = SubSeq(g_inbound, 1, n)
  BY <1>1, MinOfTwo DEF LineBuf
<1> QED BY <1>1, <1>2

\* What is behind the first d bytes.
LEMMA LeftIs ==
  ASSUME NEW q \in Seq(Byte), NEW d \in 0..Len(q)
  PROVE  LET t == SubSeq(q, d + 1, Len(q))
         IN  /\ t \in Seq(Byte) /\ Len(t) = Len(q) - d
             /\ DOMAIN t = 1..(Len(q) - d)
             /\ \A i \in 1..(Len(q) - d) : t[i] = q[d + i]
<1> DEFINE t == SubSeq(q, d + 1, Len(q))
<1>1. d \in Nat /\ Len(q) \in Nat /\ d <= Len(q)
  OBVIOUS
<1>2. t \in Seq(Byte) /\ Len(t) = Len(q) - d
  BY <1>1
<1>3. DOMAIN t = 1..(Len(q) - d)
  <2> HIDE DEF t
  <2> QED BY <1>2
<1>4. \A i \in 1..(Len(q) - d) : t[i] = q[d + i]
  BY <1>1
<1> QED BY <1>2, <1>3, <1>4

\* consume_line removes one line from the front of what is pending.
LEMMA ConsumeIs ==
  ASSUME TypeOK, NEW nl \in 1..Len(g_inbound)
  PROVE  /\ consume_line(nl) \in Seq(Byte)
         /\ Len(consume_line(nl)) = Len(g_inbound) - nl
         /\ consume_line(nl) \o stream = SubSeq(Pending, nl + 1, Len(Pending))
<1>1. /\ g_inbound \in Seq(Byte) /\ stream \in Seq(Byte)
      /\ Len(g_inbound) \in Nat /\ Len(stream) \in Nat
  BY DEF TypeOK
<1>2. /\ consume_line(nl) \in Seq(Byte)
      /\ Len(consume_line(nl)) = Len(g_inbound) - nl
      /\ \A i \in 1..(Len(g_inbound) - nl) : consume_line(nl)[i] = g_inbound[nl + i]
  BY <1>1 DEF consume_line
<1>3. /\ Pending \in Seq(Byte) /\ Len(Pending) = Len(g_inbound) + Len(stream)
      /\ \A i \in 1..Len(Pending) : Pending[i] =
           IF i <= Len(g_inbound) THEN g_inbound[i] ELSE stream[i - Len(g_inbound)]
  BY <1>1 DEF Pending
<1> DEFINE new == consume_line(nl) \o stream
           old == SubSeq(Pending, nl + 1, Len(Pending))
<1>4. /\ new \in Seq(Byte) /\ Len(new) = Len(Pending) - nl
      /\ \A i \in 1..Len(new) : new[i] = Pending[nl + i]
  <2> DEFINE c == consume_line(nl)
  <2>1. c \in Seq(Byte) /\ Len(c) = Len(g_inbound) - nl
    BY <1>2
  <2> HIDE DEF c
  <2>2. /\ c \o stream \in Seq(Byte)
        /\ Len(c \o stream) = Len(c) + Len(stream)
        /\ \A i \in 1..(Len(c) + Len(stream)) : (c \o stream)[i] =
             IF i <= Len(c) THEN c[i] ELSE stream[i - Len(c)]
    BY <1>1, <2>1, ConcatProperties
  <2>3. \A i \in 1..(Len(g_inbound) - nl) : c[i] = g_inbound[nl + i]
    BY <1>2 DEF c
  <2>4. \A i \in 1..Len(c \o stream) : (c \o stream)[i] = Pending[nl + i]
    <3> TAKE i \in 1..Len(c \o stream)
    <3>1. i \in Nat /\ nl + i \in 1..Len(Pending)
      BY <1>1, <1>3, <2>1, <2>2
    <3>2. CASE i <= Len(c)
      BY <1>1, <1>3, <2>1, <2>2, <2>3, <3>1, <3>2
    <3>3. CASE i > Len(c)
      <4>1. /\ i - Len(c) = (nl + i) - Len(g_inbound)
            /\ ~ (nl + i <= Len(g_inbound)) /\ ~ (i <= Len(c))
            /\ i \in 1..(Len(c) + Len(stream))
        BY <1>1, <2>1, <2>2, <3>1, <3>3
      <4>2. (c \o stream)[i] = stream[i - Len(c)]
        BY <2>2, <4>1
      <4>3. Pending[nl + i] = stream[(nl + i) - Len(g_inbound)]
        BY <1>3, <3>1, <4>1
      <4> QED BY <4>1, <4>2, <4>3
    <3> QED BY <2>1, <3>1, <3>2, <3>3
  <2> QED BY <1>1, <1>3, <2>1, <2>2, <2>4 DEF c
<1>5. /\ old \in Seq(Byte) /\ Len(old) = Len(Pending) - nl
      /\ \A i \in 1..Len(old) : old[i] = Pending[nl + i]
  <2>1. Pending \in Seq(Byte) /\ nl \in 0..Len(Pending)
    BY <1>1, <1>3
  <2> HIDE DEF old
  <2>2. /\ old \in Seq(Byte) /\ Len(old) = Len(Pending) - nl
        /\ \A i \in 1..(Len(Pending) - nl) : old[i] = Pending[nl + i]
    BY <2>1, LeftIs DEF old
  <2> QED BY <2>2
<1>6. new = old
  <2> HIDE DEF new, old
  <2> QED BY <1>4, <1>5, SeqEqual
<1> QED BY <1>2, <1>6

\* What drain_into_inbound keeps is the buffer, or nothing of a full one.
LEMMA KeptIs ==
  ASSUME TypeOK
  PROVE  /\ Kept \in Seq(Byte) /\ Len(Kept) < InboundCap
         /\ \/ Kept = g_inbound
            \/ Kept = <<>> /\ Len(g_inbound) = InboundCap
BY CapsAssumption DEF TypeOK, Kept

\* drain_into_inbound moves bytes from the stream to the buffer and loses none
\* but those of a buffer that is full.
LEMMA ReceivedIs ==
  ASSUME TypeOK, NEW n \in 1..Min({InboundCap - Len(Kept), Len(stream)})
  PROVE  LET g == Kept \o SubSeq(stream, 1, n)
             s == SubSeq(stream, n + 1, Len(stream))
         IN  /\ g \in Seq(Byte) /\ Len(g) <= InboundCap /\ s \in Seq(Byte)
             /\ g \o s = Kept \o stream
<1>1. /\ stream \in Seq(Byte) /\ Len(stream) \in Nat /\ Len(g_inbound) \in Nat
      /\ Kept \in Seq(Byte) /\ Len(Kept) \in Nat /\ Len(Kept) < InboundCap
      /\ InboundCap \in Nat
  BY KeptIs, CapsAssumption DEF TypeOK
<1>2. n \in 1..Len(stream) /\ n <= InboundCap - Len(Kept)
  BY <1>1, MinOfTwo
<1> DEFINE f == SubSeq(stream, 1, n)
           s == SubSeq(stream, n + 1, Len(stream))
<1>3. /\ f \in Seq(Byte) /\ Len(f) = n /\ s \in Seq(Byte)
      /\ f \o s = stream
  BY <1>1, <1>2, ConcatAdjacentSubSeq, SubSeqFull
<1>4. (Kept \o f) \o s = Kept \o stream
  <2> HIDE DEF f, s
  <2>1. \A a, b, c \in Seq(Byte) : (a \o b) \o c = a \o (b \o c)
    BY ConcatAssociative
  <2> QED BY <1>1, <1>3, <2>1
<1>5. (Kept \o f) \in Seq(Byte) /\ Len(Kept \o f) <= InboundCap
  <2> HIDE DEF f, s
  <2> QED BY <1>1, <1>2, <1>3
<1> QED BY <1>3, <1>4, <1>5

-----------------------------------------------------------------------------
\* What the bytes that are left keep when the first d are gone.

\* The lines stay lines when bytes in front of them are gone.
LEMMA DropKeepsLines ==
  ASSUME NEW q \in Seq(Byte), NEW s, MadeOfLines(q, s), NEW d \in 0..Len(q)
  PROVE  MadeOfLines(SubSeq(q, d + 1, Len(q)), s)
<1> DEFINE t == SubSeq(q, d + 1, Len(q))
<1>1. /\ t \in Seq(Byte) /\ Len(t) = Len(q) - d /\ Len(q) \in Nat /\ d \in Nat
      /\ DOMAIN t = 1..(Len(q) - d) /\ DOMAIN q = 1..Len(q)
      /\ \A i \in 1..(Len(q) - d) : t[i] = q[d + i]
  OBVIOUS
<1> HIDE DEF t
<1>2. \A i \in DOMAIN t : d + i \in DOMAIN q /\ t[i] = q[d + i]
  BY <1>1
<1>3. InLines(t, s)
  BY <1>2 DEF MadeOfLines, InLines
<1>4. Stretches(t, s)
  <2> SUFFICES ASSUME NEW k \in DOMAIN t, NEW j \in DOMAIN t, k <= j,
                      \A l \in k..(j - 1) : t[l].pos # 0
               PROVE  /\ t[j].line = t[k].line
                      /\ Off(t[j], s) = Off(t[k], s) + (j - k)
    BY DEF Stretches
  <2>1. /\ d + k \in DOMAIN q /\ d + j \in DOMAIN q /\ d + k <= d + j
        /\ (d + j) - (d + k) = j - k /\ t[k] = q[d + k] /\ t[j] = q[d + j]
    BY <1>1, <1>2
  <2>2. \A a, b \in DOMAIN q :
          a <= b /\ (\A l \in a..(b - 1) : q[l].pos # 0) =>
            q[b].line = q[a].line /\ Off(q[b], s) = Off(q[a], s) + (b - a)
    BY Zenon DEF MadeOfLines, Stretches
  <2>3. PICK a \in DOMAIN q, b \in DOMAIN q : a = d + k /\ b = d + j
    BY <2>1
  <2>4. \A l \in a..(b - 1) : q[l].pos # 0
    <3> TAKE l \in a..(b - 1)
    <3>1. l - d \in k..(j - 1) /\ l - d \in DOMAIN t /\ d + (l - d) = l
      BY <1>1, <2>3
    <3> QED BY <1>2, <3>1
  <2>5. a <= b
    BY <2>1, <2>3
  <2>6. q[b].line = q[a].line /\ Off(q[b], s) = Off(q[a], s) + (b - a)
    BY <2>2, <2>4, <2>5, Zenon
  <2> QED BY <2>1, <2>3, <2>6
<1>5. NextStarts(t, s)
  <2> SUFFICES ASSUME NEW k \in DOMAIN t, k + 1 \in DOMAIN t, t[k].pos = 0
               PROVE  t[k + 1].line = t[k].line + 1 /\ Off(t[k + 1], s) = 0
    BY DEF NextStarts
  <2>1. /\ d + k \in DOMAIN q /\ (d + k) + 1 \in DOMAIN q
        /\ t[k] = q[d + k] /\ t[k + 1] = q[(d + k) + 1]
    BY <1>1
  <2> QED BY <2>1 DEF MadeOfLines, NextStarts
<1>6. InOrder(t)
  <2> SUFFICES ASSUME NEW j \in DOMAIN t, NEW k \in DOMAIN t, j < k
               PROVE  /\ t[j].line <= t[k].line
                      /\ t[j].pos = 0 => t[j].line < t[k].line
    BY DEF InOrder
  <2>1. d + j < d + k
    BY <1>1
  <2> QED BY <1>2, <2>1 DEF MadeOfLines, InOrder
<1>7. Ends(t, s)
  <2>1. t # <<>> => Len(t) \in DOMAIN t /\ t[Len(t)] = q[Len(q)] /\ q # <<>>
    BY <1>1
  <2> QED BY <2>1 DEF MadeOfLines, Ends
<1> QED BY <1>3, <1>4, <1>5, <1>6, <1>7 DEF MadeOfLines, t

\* What the PC adds when it sends one more line.
LEMMA AddLine ==
  ASSUME NEW q \in Seq(Byte), NEW s \in Seq([len: 0..MaxLineLen, kick: BOOLEAN]),
         Len(s) < MaxLines, MadeOfLines(q, s),
         NEW e \in [len: 0..MaxLineLen, kick: BOOLEAN]
  PROVE  LET n == Len(s) + 1
             r == q \o Append(Payload(n, e.len), Newline(n))
         IN  /\ Append(Payload(n, e.len), Newline(n)) \in Seq(Byte)
             /\ r \in Seq(Byte) /\ Len(r) = Len(q) + e.len + 1
             /\ \A i \in DOMAIN q : r[i] = q[i]
             /\ r[Len(r)] = Newline(n)
             /\ q = <<>> => r[1].line = n /\ Off(r[1], Append(s, e)) = 0
             /\ MadeOfLines(r, Append(s, e))
<1> DEFINE n == Len(s) + 1
           len == e.len
           add == Append(Payload(n, len), Newline(n))
           r == q \o add
           s2 == Append(s, e)
           m == Len(q)
<1>1. /\ n \in 1..MaxLines /\ len \in 0..MaxLineLen /\ len \in Nat
      /\ MaxLines \in Nat /\ MaxLineLen \in Nat /\ m \in Nat /\ Len(s) \in Nat
      /\ DOMAIN q = 1..m
  BY CapsAssumption
<1>2. Payload(n, len) \in Seq(Byte) /\ Len(Payload(n, len)) = len
  <2>1. \A p \in 1..len : [line |-> n, pos |-> p] \in Byte
    BY <1>1 DEF Byte
  <2> QED BY <1>1, <2>1 DEF Payload
<1>3. Newline(n) \in Byte /\ Newline(n).line = n /\ Newline(n).pos = 0
  BY <1>1 DEF Byte, Newline
<1>4. /\ add \in Seq(Byte) /\ Len(add) = len + 1 /\ add[len + 1] = Newline(n)
      /\ \A p \in 1..len : add[p] = [line |-> n, pos |-> p]
  <2>1. \A p \in 1..len : Payload(n, len)[p] = [line |-> n, pos |-> p]
    BY <1>1 DEF Payload
  <2> QED BY <1>1, <1>2, <1>3, <2>1, AppendProperties
<1> HIDE DEF add
<1>5. /\ r \in Seq(Byte) /\ Len(r) = m + len + 1 /\ DOMAIN r = 1..(m + len + 1)
      /\ \A i \in 1..m : r[i] = q[i]
      /\ \A p \in 1..(len + 1) : r[m + p] = add[p]
  <2>1. /\ r \in Seq(Byte) /\ Len(r) = m + Len(add)
        /\ \A i \in 1..(m + Len(add)) : r[i] = IF i <= m THEN q[i] ELSE add[i - m]
    BY <1>4, ConcatProperties
  <2> HIDE DEF r
  <2>2. \A i \in 1..m : r[i] = q[i]
    BY <1>1, <1>4, <2>1
  <2>3. \A p \in 1..(len + 1) : r[m + p] = add[p]
    <3> TAKE p \in 1..(len + 1)
    <3>1. m + p \in 1..(m + Len(add)) /\ ~ (m + p <= m) /\ (m + p) - m = p
      BY <1>1, <1>4
    <3> QED BY <2>1, <3>1
  <2> QED BY <1>1, <1>4, <2>1, <2>2, <2>3
<1>6. /\ Len(s2) = n /\ DOMAIN s2 = 1..n /\ DOMAIN s = 1..Len(s) /\ s2[n].len = len
      /\ \A i \in DOMAIN s : i \in DOMAIN s2 /\ i # n /\ s2[i] = s[i]
  BY <1>1
<1> HIDE DEF r, s2
<1>7. \A i \in DOMAIN q : /\ i \in DOMAIN r /\ r[i] = q[i]
                          /\ r[i].line \in DOMAIN s /\ r[i].pos <= s[r[i].line].len
                          /\ r[i].line < n
                          /\ Off(r[i], s2) = Off(q[i], s)
  <2> TAKE i \in DOMAIN q
  <2>1. r[i] = q[i] /\ q[i].line \in DOMAIN s /\ q[i].pos <= s[q[i].line].len
    BY <1>1, <1>5 DEF MadeOfLines, InLines
  <2>2. Off(r[i], s2) = Off(q[i], s)
    BY <1>6, <2>1 DEF Off
  <2> QED BY <1>1, <1>5, <1>6, <2>1, <2>2
<1>8. \A p \in 1..(len + 1) : /\ m + p \in DOMAIN r /\ r[m + p].line = n
                              /\ r[m + p].pos = IF p = len + 1 THEN 0 ELSE p
                              /\ Off(r[m + p], s2) = p - 1
  <2> TAKE p \in 1..(len + 1)
  <2>1. r[m + p].line = n /\ r[m + p].pos = IF p = len + 1 THEN 0 ELSE p
    <3>1. CASE p = len + 1
      BY <1>3, <1>4, <1>5, <3>1
    <3>2. CASE p # len + 1
      <4>1. p \in 1..len
        BY <1>1, <3>2
      <4>2. r[m + p] = add[p] /\ add[p] = [line |-> n, pos |-> p]
        BY <1>4, <1>5, <4>1
      <4>3. r[m + p] = [line |-> n, pos |-> p]
        BY <4>2
      <4> QED BY <3>2, <4>3
    <3> QED BY <3>1, <3>2
  <2>2. Off(r[m + p], s2) = p - 1
    BY <1>1, <1>6, <2>1 DEF Off
  <2> QED BY <1>1, <1>5, <2>1, <2>2
<1>9. \A i \in DOMAIN r : \/ i \in DOMAIN q
                          \/ i - m \in 1..(len + 1) /\ i = m + (i - m)
  BY <1>1, <1>5
<1>10. InLines(r, s2)
  <2> SUFFICES ASSUME NEW i \in DOMAIN r
               PROVE  r[i].line \in DOMAIN s2 /\ r[i].pos <= s2[r[i].line].len
    BY DEF InLines
  <2>1. CASE i \in DOMAIN q
    BY <1>6, <1>7, <2>1
  <2>2. CASE i - m \in 1..(len + 1)
    <3>1. i = m + (i - m)
      BY <1>1, <1>5
    <3>2. /\ r[m + (i - m)].line = n
          /\ r[m + (i - m)].pos = IF i - m = len + 1 THEN 0 ELSE i - m
      BY <1>8, <2>2
    <3>3. r[i].line = n /\ r[i].pos <= len
      BY <1>1, <2>2, <3>1, <3>2
    <3> QED BY <1>1, <1>6, <3>3
  <2> QED BY <1>9, <2>1, <2>2
\* The last byte of q is a newline: no stretch reaches over it.
<1>11. \A k \in DOMAIN q, j \in DOMAIN r :
         j \notin DOMAIN q => m \in k..(j - 1) /\ r[m].pos = 0
  <2> TAKE k \in DOMAIN q, j \in DOMAIN r
  <2>1. q # <<>> /\ m \in DOMAIN q
    BY <1>1
  <2>2. r[m] = q[m] /\ q[m] = Newline(Len(s))
    BY <1>5, <1>7, <2>1 DEF MadeOfLines, Ends
  <2> QED BY <1>1, <1>5, <2>2 DEF Newline
<1>12. Stretches(r, s2)
  <2> SUFFICES ASSUME NEW k \in DOMAIN r, NEW j \in DOMAIN r, k <= j,
                      \A l \in k..(j - 1) : r[l].pos # 0
               PROVE  /\ r[j].line = r[k].line
                      /\ Off(r[j], s2) = Off(r[k], s2) + (j - k)
    BY DEF Stretches
  <2>1. CASE k \in DOMAIN q /\ j \in DOMAIN q
    <3>1. \A l \in k..(j - 1) : q[l].pos # 0
      <4> TAKE l \in k..(j - 1)
      <4>1. l \in DOMAIN q
        BY <1>1, <2>1
      <4> QED BY <1>7, <4>1
    <3>2. q[j].line = q[k].line /\ Off(q[j], s) = Off(q[k], s) + (j - k)
      BY <2>1, <3>1 DEF MadeOfLines, Stretches
    <3> QED BY <1>7, <2>1, <3>2
  <2>2. CASE k \in DOMAIN q /\ j \notin DOMAIN q
    BY <1>11, <2>2
  <2>3. CASE k \notin DOMAIN q
    <3>1. k - m \in 1..(len + 1) /\ j - m \in 1..(len + 1)
      BY <1>1, <1>5, <2>3
    <3>2. /\ r[m + (k - m)].line = n /\ Off(r[m + (k - m)], s2) = (k - m) - 1
          /\ r[m + (j - m)].line = n /\ Off(r[m + (j - m)], s2) = (j - m) - 1
      BY <1>8, <3>1
    <3>3. m + (k - m) = k /\ m + (j - m) = j
      BY <1>1, <1>5
    <3> QED BY <1>1, <1>5, <3>2, <3>3
  <2> QED BY <2>1, <2>2, <2>3
<1>13. NextStarts(r, s2)
  <2> SUFFICES ASSUME NEW k \in DOMAIN r, k + 1 \in DOMAIN r, r[k].pos = 0
               PROVE  r[k + 1].line = r[k].line + 1 /\ Off(r[k + 1], s2) = 0
    BY DEF NextStarts
  <2>1. CASE k + 1 \in DOMAIN q
    <3>1. k \in DOMAIN q
      BY <1>1, <1>5, <2>1
    <3>2. q[k + 1].line = q[k].line + 1 /\ Off(q[k + 1], s) = 0
      BY <1>7, <2>1, <3>1 DEF MadeOfLines, NextStarts
    <3> QED BY <1>7, <2>1, <3>1, <3>2
  <2>2. CASE k = m /\ k \in DOMAIN q
    <3>1. r[k].line = Len(s)
      <4>1. q # <<>>
        BY <1>1, <2>2
      <4>2. q[m] = Newline(Len(s))
        BY <4>1 DEF MadeOfLines, Ends
      <4> QED BY <1>7, <2>2, <4>2 DEF Newline
    <3>2. r[m + 1].line = n /\ Off(r[m + 1], s2) = 0
      <4>1. 1 \in 1..(len + 1) /\ 1 - 1 = 0
        BY <1>1
      <4> QED BY <1>8, <4>1
    <3> QED BY <1>1, <2>2, <3>1, <3>2
  <2>3. CASE k \notin DOMAIN q
    <3>1. k - m \in 1..len /\ m + (k - m) = k
      BY <1>1, <1>5, <2>3
    <3>2. r[m + (k - m)].pos = k - m
      <4>1. k - m \in 1..(len + 1) /\ k - m # len + 1
        BY <1>1, <3>1
      <4> QED BY <1>8, <4>1
    <3> QED BY <1>1, <3>1, <3>2
  <2>4. k + 1 \in DOMAIN q \/ (k = m /\ k \in DOMAIN q) \/ k \notin DOMAIN q
    BY <1>1, <1>5
  <2> QED BY <2>1, <2>2, <2>3, <2>4
<1>14. InOrder(r)
  <2> SUFFICES ASSUME NEW j \in DOMAIN r, NEW k \in DOMAIN r, j < k
               PROVE  /\ r[j].line <= r[k].line
                      /\ r[j].pos = 0 => r[j].line < r[k].line
    BY DEF InOrder
  <2>1. CASE j \in DOMAIN q /\ k \in DOMAIN q
    <3>1. q[j].line <= q[k].line /\ (q[j].pos = 0 => q[j].line < q[k].line)
      BY <2>1 DEF MadeOfLines, InOrder
    <3> QED BY <1>7, <2>1, <3>1
  <2>2. CASE j \in DOMAIN q /\ k \notin DOMAIN q
    <3>1. r[j].line < n /\ r[j].line \in DOMAIN s
      BY <1>7, <2>2
    <3>2. r[m + (k - m)].line = n /\ m + (k - m) = k
      BY <1>8, <1>9, <2>2
    <3> QED BY <1>1, <1>6, <3>1, <3>2
  <2>3. CASE j \notin DOMAIN q
    <3>1. j - m \in 1..len /\ k - m \in 1..(len + 1) /\ m + (j - m) = j /\ m + (k - m) = k
      BY <1>1, <1>5, <2>3
    <3>2. j - m \in 1..(len + 1) /\ j - m # len + 1 /\ j - m # 0
      BY <1>1, <3>1
    <3>3. r[m + (j - m)].line = n /\ r[m + (j - m)].pos # 0 /\ r[m + (k - m)].line = n
      BY <1>8, <3>1, <3>2
    <3> QED BY <1>1, <3>1, <3>3
  <2> QED BY <2>1, <2>2, <2>3
<1>15. r[Len(r)] = Newline(n)
  <2>1. len + 1 \in 1..(len + 1) /\ m + (len + 1) = Len(r)
    BY <1>1, <1>5
  <2> QED BY <1>4, <1>5, <2>1
<1>16. q = <<>> => r[1].line = n /\ Off(r[1], s2) = 0
  <2>1. q = <<>> => m = 0
    OBVIOUS
  <2> QED BY <1>1, <1>8, <2>1
<1>17. MadeOfLines(r, s2)
  BY <1>6, <1>10, <1>12, <1>13, <1>14, <1>15 DEF MadeOfLines, Ends
<1> QED BY <1>1, <1>4, <1>5, <1>7, <1>15, <1>16, <1>17 DEF r, s2, add

-----------------------------------------------------------------------------
\* Where the lines that are left begin and end.

\* The reset of a full buffer takes bytes of one line only.
LEMMA ResetKeepsLines ==
  ASSUME NEW q \in Seq(Byte), NEW s, MadeOfLines(q, s), NEW m \in Nat,
         Starts(q, s, m), EachEnds(q, s, m), InboundCap \in 1..Len(q),
         \A l \in 1..InboundCap : q[l].pos # 0
  PROVE  LET t == SubSeq(q, InboundCap + 1, Len(q))
         IN  Starts(t, s, m) /\ EachEnds(t, s, m)
<1> DEFINE d == InboundCap
           t == SubSeq(q, d + 1, Len(q))
<1>1. /\ d \in Nat \ {0} /\ Len(q) \in Nat /\ d <= Len(q) /\ q # <<>>
      /\ DOMAIN q = 1..Len(q) /\ DOMAIN t = 1..(Len(q) - d)
      /\ \A i \in 1..(Len(q) - d) : t[i] = q[d + i]
  BY CapsAssumption
<1>2. d + 1 \in DOMAIN q /\ 1 \in DOMAIN q
  <2>1. q[Len(q)] = Newline(Len(s))
    BY <1>1 DEF MadeOfLines, Ends
  <2>2. q[Len(q)].pos = 0
    BY <2>1 DEF Newline
  <2>3. Len(q) \in 1..d => FALSE
    BY <2>2
  <2> QED BY <1>1, <2>3
<1>3. t # <<>> /\ t[1] = q[d + 1]
  BY <1>1, <1>2
<1> HIDE DEF t
<1>4. q[d + 1].line = q[1].line /\ Off(q[d + 1], s) = Off(q[1], s) + d
  <2>1. 1 <= d + 1 /\ (d + 1) - 1 = d /\ \A l \in 1..((d + 1) - 1) : q[l].pos # 0
    BY <1>1
  <2>2. \A a, b \in DOMAIN q :
          a <= b /\ (\A l \in a..(b - 1) : q[l].pos # 0) =>
            q[b].line = q[a].line /\ Off(q[b], s) = Off(q[a], s) + (b - a)
    BY Zenon DEF MadeOfLines, Stretches
  <2>3. /\ q[d + 1].line = q[1].line
        /\ Off(q[d + 1], s) = Off(q[1], s) + ((d + 1) - 1)
    BY <1>2, <2>1, <2>2, Zenon
  <2> QED BY <2>1, <2>3
<1>5. Starts(t, s, m)
  <2>1. PICK c \in Nat : Off(q[1], s) = c * d
    BY <1>1 DEF Starts
  <2>2. Off(t[1], s) = (c + 1) * d /\ c + 1 \in Nat
    BY <1>1, <1>3, <1>4, <2>1
  <2>3. t[1].line = m + 1
    BY <1>1, <1>3, <1>4 DEF Starts
  <2> QED BY <1>3, <2>2, <2>3 DEF Starts
<1>6. EachEnds(t, s, m)
  <2> SUFFICES ASSUME NEW i \in (m + 1)..Len(s)
               PROVE  \E j \in DOMAIN t : t[j] = Newline(i)
    BY DEF EachEnds
  <2>1. PICK j \in DOMAIN q : q[j] = Newline(i)
    BY DEF EachEnds
  <2>2. q[j].pos = 0
    BY <2>1 DEF Newline
  <2>3. j - d \in DOMAIN t /\ d + (j - d) = j
    BY <1>1, <2>2
  <2>4. t[j - d] = q[j]
    BY <1>1, <2>3
  <2> QED BY <2>1, <2>3, <2>4
<1> QED BY <1>5, <1>6 DEF t

\* What the first newline ends is what is left of the line that is due, and the
\* next line starts behind it.
LEMMA FirstLineEnds ==
  ASSUME NEW q \in Seq(Byte), NEW s, Len(s) \in Nat, DOMAIN s = 1..Len(s),
         MadeOfLines(q, s), NEW m \in Nat,
         Starts(q, s, m), EachEnds(q, s, m), NEW nl \in 1..Len(q),
         q[nl].pos = 0, \A l \in 1..(nl - 1) : q[l].pos # 0
  PROVE  /\ m + 1 \in DOMAIN s
         /\ \A p \in 1..nl : /\ q[p].line = m + 1
                             /\ Off(q[p], s) = Off(q[1], s) + (p - 1)
         /\ LET t == SubSeq(q, nl + 1, Len(q))
            IN  Starts(t, s, m + 1) /\ EachEnds(t, s, m + 1)
<1> DEFINE t == SubSeq(q, nl + 1, Len(q))
<1> HIDE DEF t
<1>1. /\ nl \in Nat \ {0} /\ Len(q) \in Nat /\ nl <= Len(q) /\ q # <<>>
      /\ DOMAIN q = 1..Len(q) /\ DOMAIN t = 1..(Len(q) - nl)
      /\ Len(t) = Len(q) - nl /\ t \in Seq(Byte)
      /\ \A i \in 1..(Len(q) - nl) : t[i] = q[nl + i]
      /\ 1 \in DOMAIN q /\ nl \in DOMAIN q
  <2>1. /\ nl \in Nat \ {0} /\ Len(q) \in Nat /\ nl <= Len(q)
        /\ DOMAIN q = 1..Len(q) /\ nl \in 0..Len(q)
    OBVIOUS
  <2>2. 1 \in DOMAIN q /\ nl \in DOMAIN q /\ q # <<>>
    BY <2>1, NothingThere
  <2>3. /\ DOMAIN t = 1..(Len(q) - nl) /\ Len(t) = Len(q) - nl /\ t \in Seq(Byte)
        /\ \A i \in 1..(Len(q) - nl) : t[i] = q[nl + i]
    BY <2>1, LeftIs DEF t
  <2> QED BY <2>1, <2>2, <2>3
<1>2. \A p \in 1..nl : /\ q[p].line = m + 1
                       /\ Off(q[p], s) = Off(q[1], s) + (p - 1)
  <2> TAKE p \in 1..nl
  <2>1. 1 <= p /\ p \in DOMAIN q /\ \A l \in 1..(p - 1) : q[l].pos # 0
    BY <1>1
  <2>2. \A a, b \in DOMAIN q :
          a <= b /\ (\A l \in a..(b - 1) : q[l].pos # 0) =>
            q[b].line = q[a].line /\ Off(q[b], s) = Off(q[a], s) + (b - a)
    BY Zenon DEF MadeOfLines, Stretches
  <2>3. q[p].line = q[1].line /\ Off(q[p], s) = Off(q[1], s) + (p - 1)
    BY <1>1, <2>1, <2>2, Zenon
  <2> QED BY <1>1, <2>3 DEF Starts
<1>3. m + 1 \in DOMAIN s
  <2>1. q[1].line \in DOMAIN s
    BY <1>1 DEF MadeOfLines, InLines
  <2> QED BY <1>1, <2>1 DEF Starts
<1>4. Starts(t, s, m + 1)
  <2>1. CASE nl < Len(q)
    <3>1. nl + 1 \in DOMAIN q /\ t[1] = q[nl + 1] /\ t # <<>>
      BY <1>1, <2>1
    <3>2. q[nl + 1].line = q[nl].line + 1 /\ Off(q[nl + 1], s) = 0
      BY <1>1, <3>1 DEF MadeOfLines, NextStarts
    <3>3. q[nl].line = m + 1
      BY <1>1, <1>2
    <3>4. 0 \in Nat /\ 0 = 0 * InboundCap
      BY CapsAssumption
    <3> QED BY <3>1, <3>2, <3>3, <3>4 DEF Starts
  <2>2. CASE nl = Len(q)
    <3>1. t = <<>>
      BY <1>1, <2>2
    <3>2. q[nl].line = m + 1
      BY <1>1, <1>2
    <3>3. q[nl] = Newline(Len(s))
      BY <1>1, <2>2 DEF MadeOfLines, Ends
    <3>4. q[nl].line = Len(s)
      BY <3>3 DEF Newline
    <3> QED BY <3>1, <3>2, <3>4 DEF Starts
  <2> QED BY <1>1, <2>1, <2>2
<1>5. EachEnds(t, s, m + 1)
  <2> SUFFICES ASSUME NEW i \in ((m + 1) + 1)..Len(s)
               PROVE  \E j \in DOMAIN t : t[j] = Newline(i)
    BY DEF EachEnds
  <2>1. i \in (m + 1)..Len(s) /\ i # m + 1
    OBVIOUS
  <2>2. PICK j \in DOMAIN q : q[j] = Newline(i)
    BY <2>1 DEF EachEnds
  <2>3. q[j].pos = 0 /\ q[j].line = i
    BY <2>2 DEF Newline
  <2>4. j \notin 1..nl
    BY <1>2, <2>1, <2>3
  <2>5. j - nl \in DOMAIN t /\ nl + (j - nl) = j
    BY <1>1, <2>4
  <2>6. t[j - nl] = q[j]
    BY <1>1, <2>5
  <2> QED BY <2>2, <2>5, <2>6
<1> QED BY <1>2, <1>3, <1>4, <1>5 DEF t

\* A new line changes nothing about the lines before it.
LEMMA AddedLineEnds ==
  ASSUME NEW q \in Seq(Byte), NEW s \in Seq([len: 0..MaxLineLen, kick: BOOLEAN]),
         Len(s) < MaxLines, MadeOfLines(q, s), NEW m \in Nat,
         Starts(q, s, m), EachEnds(q, s, m),
         NEW e \in [len: 0..MaxLineLen, kick: BOOLEAN]
  PROVE  LET n == Len(s) + 1
             r == q \o Append(Payload(n, e.len), Newline(n))
         IN  Starts(r, Append(s, e), m) /\ EachEnds(r, Append(s, e), m)
<1> DEFINE n == Len(s) + 1
           r == q \o Append(Payload(n, e.len), Newline(n))
           s2 == Append(s, e)
<1>1. /\ r \in Seq(Byte) /\ Len(r) = Len(q) + e.len + 1
      /\ \A i \in DOMAIN q : r[i] = q[i]
      /\ r[Len(r)] = Newline(n)
      /\ q = <<>> => r[1].line = n /\ Off(r[1], s2) = 0
  BY AddLine
<1>2. /\ Len(s) \in Nat /\ Len(s2) = n /\ Len(q) \in Nat /\ e.len \in Nat
      /\ \A i \in DOMAIN s : s2[i] = s[i]
  BY CapsAssumption
<1> HIDE DEF r, s2
<1>3. r # <<>> /\ Len(r) \in DOMAIN r /\ DOMAIN q \subseteq DOMAIN r
  BY <1>1, <1>2
<1>4. Starts(r, s2, m)
  <2>1. CASE q = <<>>
    <3>1. 0 \in Nat /\ 0 = 0 * InboundCap
      BY CapsAssumption
    <3>2. m = Len(s)
      BY <2>1 DEF Starts
    <3> QED BY <1>1, <1>3, <2>1, <3>1, <3>2 DEF Starts
  <2>2. CASE q # <<>>
    <3>1. 1 \in DOMAIN q
      BY <2>2
    <3>2. r[1] = q[1] /\ q[1].line \in DOMAIN s
      BY <1>1, <3>1 DEF MadeOfLines, InLines
    <3>3. Off(r[1], s2) = Off(q[1], s)
      BY <1>2, <3>2 DEF Off
    <3> QED BY <1>3, <2>2, <3>2, <3>3 DEF Starts
  <2> QED BY <2>1, <2>2
<1>5. EachEnds(r, s2, m)
  <2> SUFFICES ASSUME NEW i \in (m + 1)..n
               PROVE  \E j \in DOMAIN r : r[j] = Newline(i)
    BY <1>2 DEF EachEnds
  <2>1. CASE i = n
    BY <1>1, <1>3, <2>1
  <2>2. CASE i # n
    <3>1. i \in (m + 1)..Len(s)
      BY <1>2, <2>2
    <3>2. PICK j \in DOMAIN q : q[j] = Newline(i)
      BY <3>1 DEF EachEnds
    <3> QED BY <1>1, <1>3, <3>2
  <2> QED BY <2>1, <2>2
<1> QED BY <1>4, <1>5 DEF r, s2

-----------------------------------------------------------------------------
\* The types.

\* The initial state has its types.
LEMMA InitType == Init => TypeOK
<1> SUFFICES ASSUME Init PROVE TypeOK
  OBVIOUS
<1>1. /\ {InboundCap, LineCap, MaxSessions} \subseteq Nat
      /\ wpc \in {"poll", "lines", "closed"} /\ peerClosed \in BOOLEAN
  BY CapsAssumption DEF Init
<1>2. /\ g_inbound \in Seq(Byte) /\ Len(g_inbound) <= InboundCap
      /\ stream \in Seq(Byte) /\ sessions \in 0..MaxSessions
  BY <1>1, NothingThere DEF Init
<1>3. /\ sent \in Seq([len: 0..MaxLineLen, kick: BOOLEAN])
      /\ dispatched \in Seq(Seq(Byte))
  BY NothingThere, Zenon DEF Init
<1>4. \A i \in DOMAIN dispatched : Len(dispatched[i]) <= LineCap
  BY NothingThere DEF Init
<1> QED BY <1>1, <1>2, <1>3, <1>4 DEF TypeOK

\* What is dispatched fits line_buf.
LEMMA DispatchedType ==
  ASSUME TypeOK, NEW nl \in 1..Len(g_inbound),
         dispatched' = Append(dispatched, LineBuf(nl))
  PROVE  /\ dispatched' \in Seq(Seq(Byte))
         /\ \A i \in DOMAIN dispatched' : Len(dispatched'[i]) <= LineCap
<1> DEFINE b == LineBuf(nl)
<1>1. b \in Seq(Byte) /\ Len(b) <= LineCap
  BY LineBufIs, CapsAssumption DEF TypeOK
<1>2. dispatched \in Seq(Seq(Byte)) /\ \A i \in DOMAIN dispatched : Len(dispatched[i]) <= LineCap
  BY DEF TypeOK
<1> HIDE DEF b
<1>3. dispatched' = Append(dispatched, b)
  BY DEF b
<1>4. /\ dispatched' \in Seq(Seq(Byte)) /\ Len(dispatched') = Len(dispatched) + 1
      /\ DOMAIN dispatched' = 1..(Len(dispatched) + 1)
      /\ dispatched'[Len(dispatched) + 1] = b
      /\ \A i \in 1..Len(dispatched) : dispatched'[i] = dispatched[i]
  BY <1>1, <1>2, <1>3, AppendProperties
<1>5. \A i \in DOMAIN dispatched' : Len(dispatched'[i]) <= LineCap
  <2> TAKE i \in DOMAIN dispatched'
  <2>1. CASE i = Len(dispatched) + 1
    BY <1>1, <1>4, <2>1
  <2>2. CASE i # Len(dispatched) + 1
    <3>1. i \in 1..Len(dispatched) /\ i \in DOMAIN dispatched
      BY <1>2, <1>4, <2>2
    <3> QED BY <1>2, <1>4, <3>1
  <2> QED BY <2>1, <2>2
<1> QED BY <1>4, <1>5

\* Each step keeps the types.
LEMMA StepType == TypeOK /\ [Next]_vars => TypeOK'
<1> SUFFICES ASSUME TypeOK, [Next]_vars
             PROVE  TypeOK'
  OBVIOUS
<1> USE CapsAssumption
<1>0. InboundCap \in Nat
  OBVIOUS
<1>1. CASE Connect
  <2>1. /\ wpc' \in {"poll", "lines", "closed"} /\ peerClosed' \in BOOLEAN
        /\ sessions' \in 0..MaxSessions
    <3>1. sessions \in 0..MaxSessions
      BY DEF TypeOK
    <3>2. sessions + 1 \in 0..MaxSessions
      BY <1>1, <3>1 DEF Connect
    <3> QED BY <1>1, <3>2 DEF Connect
  <2>2. /\ g_inbound' \in Seq(Byte) /\ Len(g_inbound') <= InboundCap
        /\ stream' \in Seq(Byte)
    BY <1>1, <1>0, NothingThere DEF Connect
  <2>3. /\ sent' \in Seq([len: 0..MaxLineLen, kick: BOOLEAN])
        /\ dispatched' \in Seq(Seq(Byte))
    BY <1>1, NothingThere, Zenon DEF Connect
  <2>4. \A i \in DOMAIN dispatched' : Len(dispatched'[i]) <= LineCap
    BY <1>1, NothingThere DEF Connect
  <2> QED BY <2>1, <2>2, <2>3, <2>4 DEF TypeOK
<1>2. CASE Receive
  <2>1. PICK n \in 1..Min({InboundCap - Len(Kept), Len(stream)}) :
          /\ g_inbound' = Kept \o SubSeq(stream, 1, n)
          /\ stream' = SubSeq(stream, n + 1, Len(stream))
    BY <1>2 DEF Receive
  <2>2. /\ g_inbound' \in Seq(Byte) /\ Len(g_inbound') <= InboundCap
        /\ stream' \in Seq(Byte)
    BY <2>1, ReceivedIs
  <2> QED BY <1>2, <2>2 DEF Receive, TypeOK
<1>3. CASE ReceiveFails
  BY <1>3, KeptIs DEF ReceiveFails, TypeOK
<1>4. CASE PeerGone
  BY <1>4 DEF PeerGone, close_socket, TypeOK
<1>5. CASE DispatchLine
  <2>1. find_newline \in 1..Len(g_inbound)
    BY <1>5, FirstNewline DEF DispatchLine
  <2>2. /\ g_inbound' = consume_line(find_newline)
        /\ dispatched' = Append(dispatched, LineBuf(find_newline))
    BY <1>5 DEF DispatchLine
  <2>3. g_inbound' \in Seq(Byte) /\ Len(g_inbound') <= InboundCap
    BY <2>1, <2>2, ConsumeIs DEF TypeOK
  <2>4. /\ dispatched' \in Seq(Seq(Byte))
        /\ \A i \in DOMAIN dispatched' : Len(dispatched'[i]) <= LineCap
    BY <2>1, <2>2, DispatchedType
  <2> QED BY <1>5, <2>3, <2>4 DEF DispatchLine, TypeOK
<1>6. CASE DispatchKick
  <2>1. find_newline \in 1..Len(g_inbound)
    BY <1>6, FirstNewline DEF DispatchKick
  <2>2. dispatched' = Append(dispatched, LineBuf(find_newline))
    BY <1>6 DEF DispatchKick
  <2>3. /\ dispatched' \in Seq(Seq(Byte))
        /\ \A i \in DOMAIN dispatched' : Len(dispatched'[i]) <= LineCap
    BY <2>1, <2>2, DispatchedType
  <2>4. /\ g_inbound' \in Seq(Byte) /\ Len(g_inbound') <= InboundCap
        /\ stream' \in Seq(Byte)
    BY <1>6, <1>0, NothingThere DEF DispatchKick, close_socket
  <2> QED BY <1>6, <2>3, <2>4 DEF DispatchKick, close_socket, TypeOK
<1>7. CASE NoMoreLines
  BY <1>7 DEF NoMoreLines, TypeOK
<1>8. CASE PcClose
  BY <1>8 DEF PcClose, TypeOK
<1>9. ASSUME NEW len \in 0..MaxLineLen, NEW kick \in BOOLEAN, PcSend(len, kick)
      PROVE  TypeOK'
  <2> DEFINE add == Append(Payload(Len(sent) + 1, len), Newline(Len(sent) + 1))
  <2>1. /\ sent \in Seq([len: 0..MaxLineLen, kick: BOOLEAN]) /\ Len(sent) \in Nat
        /\ Len(sent) < MaxLines /\ stream \in Seq(Byte)
    BY <1>9 DEF PcSend, TypeOK
  <2>2. Payload(Len(sent) + 1, len) \in Seq(Byte)
    <3>1. \A p \in 1..len : [line |-> Len(sent) + 1, pos |-> p] \in Byte
      BY <2>1 DEF Byte
    <3> QED BY <2>1, <3>1 DEF Payload
  <2>3. Newline(Len(sent) + 1) \in Byte
    BY <2>1 DEF Newline, Byte
  <2>4. add \in Seq(Byte)
    BY <2>2, <2>3
  <2>5. stream' = stream \o add /\ sent' = Append(sent, [len |-> len, kick |-> kick])
    BY <1>9 DEF PcSend
  <2> HIDE DEF add
  <2>6. stream' \in Seq(Byte)
    BY <2>1, <2>4, <2>5
  <2>7. sent' \in Seq([len: 0..MaxLineLen, kick: BOOLEAN])
    BY <2>1, <2>5
  <2> QED BY <1>9, <2>6, <2>7 DEF PcSend, TypeOK
<1>10. CASE UNCHANGED vars
  BY <1>10 DEF vars, TypeOK
<1> QED BY <1>1, <1>2, <1>3, <1>4, <1>5, <1>6, <1>7, <1>8, <1>9, <1>10
        DEF Next, Worker, Pc

\* No index leaves g_inbound or line_buf, however long a line is.
THEOREM TypeCorrect == Spec => []TypeOK
<1>1. Init => TypeOK
  BY InitType
<1>2. TypeOK /\ [Next]_vars => TypeOK'
  BY StepType
<1> QED BY <1>1, <1>2, PTL DEF Spec

-----------------------------------------------------------------------------
\* What is dispatched.

\* The pending bytes, by index, and the stream as what is behind the buffer.
LEMMA PendingIs ==
  ASSUME TypeOK
  PROVE  /\ Pending \in Seq(Byte) /\ Len(Pending) = Len(g_inbound) + Len(stream)
         /\ Len(g_inbound) \in Nat /\ Len(stream) \in Nat
         /\ \A i \in 1..Len(g_inbound) : Pending[i] = g_inbound[i]
         /\ \A i \in 1..Len(stream) : Pending[Len(g_inbound) + i] = stream[i]
         /\ stream = SubSeq(Pending, Len(g_inbound) + 1, Len(Pending))
<1> DEFINE n == Len(g_inbound)
           t == SubSeq(Pending, n + 1, Len(Pending))
<1>1. g_inbound \in Seq(Byte) /\ stream \in Seq(Byte) /\ n \in Nat /\ Len(stream) \in Nat
  BY DEF TypeOK
<1>2. /\ Pending \in Seq(Byte) /\ Len(Pending) = n + Len(stream)
      /\ \A i \in 1..(n + Len(stream)) :
           Pending[i] = IF i <= n THEN g_inbound[i] ELSE stream[i - n]
  BY <1>1, ConcatProperties DEF Pending
<1> HIDE DEF n
<1>3. \A i \in 1..n : Pending[i] = g_inbound[i]
  BY <1>1, <1>2
<1>4. \A i \in 1..Len(stream) : Pending[n + i] = stream[i]
  <2> TAKE i \in 1..Len(stream)
  <2>1. n + i \in 1..(n + Len(stream)) /\ ~ (n + i <= n) /\ (n + i) - n = i
    BY <1>1
  <2> QED BY <1>2, <2>1
<1>5. /\ t \in Seq(Byte) /\ Len(t) = Len(stream)
      /\ \A i \in 1..Len(t) : t[i] = Pending[n + i]
  BY <1>1, <1>2
<1>6. stream = t
  <2> HIDE DEF t
  <2> QED BY <1>1, <1>4, <1>5, SeqEqual
<1> QED BY <1>1, <1>2, <1>3, <1>4, <1>6 DEF n

\* The bytes Expected picks, once the length is written in full buffers.
LEMMA ExpectedIs ==
  ASSUME NEW i, i \in DOMAIN sent, NEW len \in Nat, sent[i].len = len,
         NEW c \in Nat, NEW r \in 0..(InboundCap - 1), len = c * InboundCap + r
  PROVE  LET u == IF r <= LineCap THEN r ELSE LineCap
         IN  Expected(i) = SubSeq(Payload(i, len), c * InboundCap + 1, c * InboundCap + u)
<1> DEFINE u == IF r <= LineCap THEN r ELSE LineCap
<1>1. InboundCap \in Nat \ {0} /\ LineCap \in Nat
  BY CapsAssumption
<1>2. len \div InboundCap = c
  BY <1>1, Quotient
<1>3. InboundCap * c = c * InboundCap /\ c * InboundCap \in Nat
  BY <1>1
<1>4. Min({len, c * InboundCap + LineCap}) = c * InboundCap + u
  <2> DEFINE k == c * InboundCap
  <2>1. k \in Nat /\ len = k + r
    BY <1>3
  <2> HIDE DEF k
  <2>2. Min({len, k + LineCap}) = IF len <= k + LineCap THEN len ELSE k + LineCap
    BY <1>1, <2>1, MinOfTwo
  <2>3. Min({len, k + LineCap}) = k + u
    BY <1>1, <2>1, <2>2
  <2> QED BY <2>3 DEF k
<1>5. Expected(i) = SubSeq(Payload(i, len), InboundCap * (len \div InboundCap) + 1,
                           Min({len, InboundCap * (len \div InboundCap) + LineCap}))
  BY DEF Expected
<1> HIDE DEF u
<1> QED BY <1>2, <1>3, <1>4, <1>5 DEF u

\* The line that is due is what worker_main finds in front of the first newline.
LEMMA ExpectedLine ==
  ASSUME TypeOK, StreamPoint, wpc # "closed", NEW nl \in 1..Len(g_inbound),
         g_inbound[nl].pos = 0, \A l \in 1..(nl - 1) : g_inbound[l].pos # 0
  PROVE  /\ Len(dispatched) + 1 \in DOMAIN sent
         /\ LineBuf(nl) = Expected(Len(dispatched) + 1)
<1> DEFINE m == Len(dispatched)
           len == sent[m + 1].len
<1>1. /\ m \in Nat /\ Len(sent) \in Nat /\ DOMAIN sent = 1..Len(sent)
      /\ InboundCap \in Nat \ {0} /\ LineCap \in Nat /\ Len(g_inbound) \in Nat
      /\ Len(g_inbound) <= InboundCap
  BY CapsAssumption DEF TypeOK
<1>2. /\ Pending \in Seq(Byte) /\ nl \in 1..Len(Pending)
      /\ \A p \in 1..nl : p \in 1..Len(g_inbound) /\ Pending[p] = g_inbound[p]
  BY <1>1, PendingIs
<1>3. /\ MadeOfLines(Pending, sent) /\ Starts(Pending, sent, m)
      /\ EachEnds(Pending, sent, m)
  BY DEF StreamPoint
<1>4. /\ m + 1 \in DOMAIN sent
      /\ \A p \in 1..nl : /\ Pending[p].line = m + 1
                          /\ Off(Pending[p], sent) = Off(Pending[1], sent) + (p - 1)
  <2> HIDE DEF m
  <2>1. Pending[nl].pos = 0 /\ \A l \in 1..(nl - 1) : Pending[l].pos # 0
    BY <1>1, <1>2
  <2> QED BY <1>1, <1>2, <1>3, <2>1, FirstLineEnds
<1>5. len \in 0..MaxLineLen /\ len \in Nat
  <2>1. sent \in Seq([len: 0..MaxLineLen, kick: BOOLEAN])
    BY DEF TypeOK
  <2> DEFINE R == [len: 0..MaxLineLen, kick: BOOLEAN]
  <2>2. m + 1 \in 1..Len(sent)
    BY <1>1, <1>4
  <2>3. sent[m + 1] \in R
    <3> HIDE DEF R, m
    <3>1. sent \in Seq(R)
      BY <2>1 DEF R
    <3> QED BY <2>2, <3>1, ElementOfSeq
  <2>4. len \in 0..MaxLineLen
    BY <2>3
  <2> QED BY <2>4, CapsAssumption
<1>6. PICK c \in Nat : Off(Pending[1], sent) = c * InboundCap
  <2>1. Pending # <<>>
    BY <1>2, NothingThere
  <2> QED BY <1>3, <2>1 DEF Starts
<1> DEFINE k == c * InboundCap
           u == IF nl - 1 <= LineCap THEN nl - 1 ELSE LineCap
<1>7. k \in Nat
  BY <1>1, <1>6
<1>8. len = k + (nl - 1) /\ nl - 1 \in 0..(InboundCap - 1)
  <2>1. Off(Pending[nl], sent) = len
    BY <1>1, <1>2, <1>4 DEF Off
  <2>2. nl \in 1..nl
    BY <1>1
  <2>3. Off(Pending[nl], sent) = k + (nl - 1)
    BY <1>4, <1>6, <2>2
  <2> QED BY <1>1, <2>1, <2>3
<1>9. Expected(m + 1) = SubSeq(Payload(m + 1, len), k + 1, k + u)
  <2> HIDE DEF m
  <2> QED BY <1>4, <1>5, <1>6, <1>8, ExpectedIs
<1> HIDE DEF k
<1>10. /\ Payload(m + 1, len) \in Seq(Byte) /\ Len(Payload(m + 1, len)) = len
       /\ \A p \in 1..len : Payload(m + 1, len)[p] = [line |-> m + 1, pos |-> p]
  <2>1. m + 1 \in 1..MaxLines
    <3>1. 1 \in 1..nl /\ 1 \in 1..Len(Pending)
      BY <1>1, <1>2
    <3>2. Pending[1] \in Byte /\ Pending[1].line = m + 1
      BY <1>2, <1>4, <3>1
    <3> QED BY <3>2 DEF Byte
  <2> HIDE DEF m, len
  <2>2. \A p \in 1..len : [line |-> m + 1, pos |-> p] \in Byte
    <3> TAKE p \in 1..len
    <3>1. p \in 0..MaxLineLen
      BY <1>5, CapsAssumption
    <3> QED BY <2>1, <3>1 DEF Byte
  <2> QED BY <1>5, <2>2 DEF Payload
<1>11. /\ Expected(m + 1) \in Seq(Byte) /\ Len(Expected(m + 1)) = u
       /\ \A p \in 1..u : Expected(m + 1)[p] = [line |-> m + 1, pos |-> k + p]
  <2> HIDE DEF m, len
  <2> DEFINE pl == Payload(m + 1, len)
             sub == SubSeq(pl, k + 1, k + u)
  <2>1. u \in 0..(nl - 1) /\ u \in Nat /\ k + u <= len
    BY <1>1, <1>5, <1>7, <1>8
  <2>2. pl \in Seq(Byte) /\ Len(pl) = len
    BY <1>10
  <2> HIDE DEF pl, u
  <2>3. /\ sub \in Seq(Byte) /\ Len(sub) = u
        /\ \A p \in 1..u : sub[p] = pl[k + p]
    BY <1>5, <1>7, <2>1, <2>2
  <2>4. \A p \in 1..u : k + p \in 1..len
    BY <1>5, <1>7, <2>1
  <2>5. \A p \in 1..u : sub[p] = [line |-> m + 1, pos |-> k + p]
    BY <1>10, <2>3, <2>4 DEF pl
  <2> QED BY <1>9, <2>3, <2>5 DEF pl, u
<1>12. /\ LineBuf(nl) \in Seq(Byte) /\ Len(LineBuf(nl)) = u
       /\ \A p \in 1..u : LineBuf(nl)[p] = [line |-> m + 1, pos |-> k + p]
  <2>1. /\ LineBuf(nl) \in Seq(Byte) /\ Len(LineBuf(nl)) = u
        /\ \A p \in 1..u : LineBuf(nl)[p] = g_inbound[p]
    BY LineBufIs
  <2>2. \A p \in 1..u : p \in 1..nl /\ p \in 1..(nl - 1)
    BY <1>1
  <2> HIDE DEF u, m
  <2>3. ASSUME NEW p \in 1..u
        PROVE  g_inbound[p] = [line |-> m + 1, pos |-> k + p]
    <3>1. p \in 1..nl /\ p \in 1..(nl - 1) /\ p \in Nat
      BY <2>2
    <3>2. /\ g_inbound[p] \in Byte /\ g_inbound[p].pos # 0 /\ Pending[p] = g_inbound[p]
      BY <1>1, <1>2, <3>1 DEF TypeOK
    <3>3. g_inbound[p].line = m + 1
      BY <1>4, <3>1, <3>2
    <3>4. Off(g_inbound[p], sent) = k + (p - 1)
      BY <1>4, <1>6, <3>1, <3>2 DEF k
    <3>5. g_inbound[p].pos \in Int /\ g_inbound[p].pos - 1 = k + (p - 1)
      BY <3>2, <3>4, CapsAssumption DEF Off, Byte
    <3>6. g_inbound[p].pos = k + p
      BY <1>7, <3>1, <3>5
    <3> QED BY <3>2, <3>3, <3>6 DEF Byte
  <2> QED BY <2>1, <2>3
<1>13. LineBuf(nl) = Expected(m + 1)
  <2> DEFINE a == LineBuf(nl)
             b == Expected(m + 1)
  <2>1. /\ a \in Seq(Byte) /\ b \in Seq(Byte) /\ Len(a) = Len(b)
        /\ \A p \in 1..Len(a) : a[p] = b[p]
    BY <1>11, <1>12
  <2> HIDE DEF a, b
  <2>2. a = b
    BY <2>1, SeqEqual
  <2> QED BY <2>2 DEF a, b
<1> QED BY <1>4, <1>13

-----------------------------------------------------------------------------
\* The invariant, action by action.

\* Nothing pending is a sequence of lines.
LEMMA NoLines ==
  ASSUME NEW s
  PROVE  MadeOfLines(<<>>, s) /\ NoNewline(<<>>)
BY NothingThere
   DEF MadeOfLines, InLines, Stretches, NextStarts, InOrder, Ends, NoNewline

\* The invariant holds initially.
LEMMA InitPoint == Init => LinesAsExpected /\ StreamPoint
<1> SUFFICES ASSUME Init PROVE LinesAsExpected /\ StreamPoint
  OBVIOUS
<1>1. LinesAsExpected
  BY NothingThere DEF Init, LinesAsExpected
<1>2. Pending = <<>>
  BY ConcatEmptySeq, NothingThere DEF Init, Pending
<1>3. StreamPoint
  BY <1>2, NoLines DEF Init, StreamPoint
<1> QED BY <1>1, <1>3

\* Whatever drain_into_inbound keeps, a full buffer reset or not, the lines stand.
LEMMA KeptKeepsLines ==
  ASSUME TypeOK, StreamPoint, wpc = "poll"
  PROVE  /\ MadeOfLines(Kept \o stream, sent)
         /\ Starts(Kept \o stream, sent, Len(dispatched))
         /\ EachEnds(Kept \o stream, sent, Len(dispatched))
<1>1. /\ MadeOfLines(Pending, sent) /\ Starts(Pending, sent, Len(dispatched))
      /\ EachEnds(Pending, sent, Len(dispatched)) /\ NoNewline(g_inbound)
  BY DEF StreamPoint
<1>2. CASE Kept = g_inbound
  BY <1>1, <1>2 DEF Pending
<1>3. CASE Kept = <<>> /\ Len(g_inbound) = InboundCap
  <2>1. Kept \o stream = stream
    BY <1>3, ConcatEmptySeq DEF TypeOK
  <2>2. /\ stream = SubSeq(Pending, InboundCap + 1, Len(Pending))
        /\ InboundCap \in 1..Len(Pending) /\ Pending \in Seq(Byte)
    BY <1>3, PendingIs, CapsAssumption
  <2>3. \A l \in 1..InboundCap : Pending[l].pos # 0
    <3>1. /\ DOMAIN g_inbound = 1..InboundCap
          /\ \A l \in 1..InboundCap : Pending[l] = g_inbound[l]
      BY <1>3, PendingIs DEF TypeOK
    <3> QED BY <1>1, <3>1 DEF NoNewline
  <2>4. Len(dispatched) \in Nat /\ InboundCap \in 0..Len(Pending)
    BY <2>2 DEF TypeOK
  <2>5. MadeOfLines(stream, sent)
    BY <1>1, <2>2, <2>4, DropKeepsLines
  <2>6. Starts(stream, sent, Len(dispatched)) /\ EachEnds(stream, sent, Len(dispatched))
    BY <1>1, <2>2, <2>3, <2>4, ResetKeepsLines
  <2> QED BY <2>1, <2>5, <2>6
<1> QED BY <1>2, <1>3, KeptIs

\* A step that dispatches and sends nothing keeps LinesAsExpected.
LEMMA SameLines ==
  ASSUME LinesAsExpected, sent' = sent, dispatched' = dispatched
  PROVE  LinesAsExpected'
<1>1. \A i : Expected(i)' = Expected(i)
  BY DEF Expected
<1> QED BY <1>1, Zenon DEF LinesAsExpected

\* Either way a line is dispatched, it is the one that is due.
LEMMA OneMoreLine ==
  ASSUME TypeOK, StreamPoint, LinesAsExpected, wpc = "lines",
         NEW nl, nl = find_newline, nl # 0,
         dispatched' = Append(dispatched, LineBuf(nl)), sent' = sent
  PROVE  LinesAsExpected'
<1> DEFINE m == Len(dispatched)
           b == LineBuf(nl)
<1>1. m + 1 \in DOMAIN sent /\ b = Expected(m + 1) /\ b \in Seq(Byte)
  BY FirstNewline, ExpectedLine, LineBufIs
<1>2. dispatched \in Seq(Seq(Byte)) /\ m \in Nat
  BY DEF TypeOK
<1> HIDE DEF b
<1>3. dispatched' = Append(dispatched, b)
  BY DEF b
<1>4. /\ DOMAIN dispatched' = 1..(m + 1) /\ DOMAIN dispatched = 1..m
      /\ dispatched'[m + 1] = b
      /\ \A i \in 1..m : dispatched'[i] = dispatched[i]
  BY <1>1, <1>2, <1>3, AppendProperties
<1>5. \A i : Expected(i)' = Expected(i)
  BY DEF Expected
<1>6. ASSUME NEW i \in DOMAIN dispatched'
      PROVE  i \in DOMAIN sent /\ dispatched'[i] = Expected(i)
  <2>1. CASE i = m + 1
    BY <1>1, <1>4, <2>1
  <2>2. CASE i # m + 1
    <3>1. i \in 1..m
      BY <1>2, <1>4, <1>6, <2>2
    <3> QED BY <1>4, <3>1 DEF LinesAsExpected
  <2> QED BY <2>1, <2>2
<1> QED BY <1>5, <1>6, Zenon DEF LinesAsExpected

\* The line loop removes the line that is due, and only it.
LEMMA DispatchPoint ==
  ASSUME TypeOK, StreamPoint, DispatchLine
  PROVE  StreamPoint'
<1> DEFINE nl == find_newline
           m == Len(dispatched)
           t == SubSeq(Pending, nl + 1, Len(Pending))
<1>1. /\ wpc = "lines" /\ wpc' = wpc /\ g_inbound' = consume_line(nl)
      /\ stream' = stream /\ sent' = sent
      /\ dispatched' = Append(dispatched, LineBuf(nl))
  BY DEF DispatchLine
<1>2. /\ nl \in 1..Len(g_inbound) /\ g_inbound[nl].pos = 0
      /\ \A l \in 1..(nl - 1) : g_inbound[l].pos # 0
  BY FirstNewline DEF DispatchLine
<1>3. Pending' = t
  BY <1>1, <1>2, ConsumeIs DEF Pending
<1>4. m \in Nat /\ Len(sent) \in Nat /\ DOMAIN sent = 1..Len(sent)
  BY DEF TypeOK
<1>5. Len(dispatched') = m + 1
  <2> DEFINE b == LineBuf(nl)
  <2>1. b \in Seq(Byte) /\ dispatched \in Seq(Seq(Byte))
    BY <1>2, LineBufIs DEF TypeOK
  <2> HIDE DEF b
  <2>2. Len(Append(dispatched, b)) = m + 1
    BY <2>1
  <2> QED BY <1>1, <2>2 DEF b
<1>6. /\ MadeOfLines(Pending, sent) /\ Starts(Pending, sent, m)
      /\ EachEnds(Pending, sent, m)
  BY <1>1 DEF StreamPoint
<1>7. /\ Pending \in Seq(Byte) /\ nl \in 1..Len(Pending) /\ nl \in 0..Len(Pending)
      /\ Pending[nl].pos = 0 /\ \A l \in 1..(nl - 1) : Pending[l].pos # 0
  <2> HIDE DEF nl
  <2> QED BY <1>2, PendingIs
<1> HIDE DEF nl, m
<1>8. MadeOfLines(t, sent) /\ Starts(t, sent, m + 1) /\ EachEnds(t, sent, m + 1)
  <2>1. MadeOfLines(t, sent)
    BY <1>6, <1>7, DropKeepsLines
  <2>2. Starts(t, sent, m + 1) /\ EachEnds(t, sent, m + 1)
    BY <1>4, <1>6, <1>7, FirstLineEnds
  <2> QED BY <2>1, <2>2
<1> HIDE DEF t
<1>9. wpc' = "lines"
  BY <1>1
<1> QED BY <1>1, <1>3, <1>5, <1>8, <1>9 DEF StreamPoint

\* A line the PC sends goes behind the others.
LEMMA SendPoint ==
  ASSUME TypeOK, StreamPoint, LinesAsExpected,
         NEW len \in 0..MaxLineLen, NEW kick \in BOOLEAN, PcSend(len, kick)
  PROVE  LinesAsExpected' /\ StreamPoint'
<1> DEFINE e == [len |-> len, kick |-> kick]
           add == Append(Payload(Len(sent) + 1, len), Newline(Len(sent) + 1))
           m == Len(dispatched)
<1>1. /\ wpc # "closed" /\ wpc' = wpc /\ g_inbound' = g_inbound
      /\ dispatched' = dispatched /\ stream' = stream \o add
      /\ sent' = Append(sent, e) /\ Len(sent) < MaxLines
  BY DEF PcSend
<1>2. /\ sent \in Seq([len: 0..MaxLineLen, kick: BOOLEAN]) /\ Len(sent) \in Nat
      /\ e \in [len: 0..MaxLineLen, kick: BOOLEAN] /\ e.len = len
      /\ m \in Nat /\ Pending \in Seq(Byte)
      /\ g_inbound \in Seq(Byte) /\ stream \in Seq(Byte)
  BY PendingIs DEF TypeOK
<1>3. LinesAsExpected'
  <2> HIDE DEF e
  <2>1. \A i \in DOMAIN sent : i \in DOMAIN sent' /\ sent'[i] = sent[i]
    BY <1>1, <1>2
  <2>2. \A i \in DOMAIN sent : Expected(i)' = Expected(i)
    BY <2>1 DEF Expected
  <2> QED BY <1>1, <2>1, <2>2 DEF LinesAsExpected
<1>4. /\ MadeOfLines(Pending, sent) /\ Starts(Pending, sent, m)
      /\ EachEnds(Pending, sent, m)
  BY <1>1 DEF StreamPoint
<1>5. /\ add \in Seq(Byte) /\ MadeOfLines(Pending \o add, sent')
  BY <1>1, <1>2, <1>4, AddLine
<1>6. Starts(Pending \o add, sent', m) /\ EachEnds(Pending \o add, sent', m)
  BY <1>1, <1>2, <1>4, AddedLineEnds
<1> HIDE DEF add
<1>7. Pending' = Pending \o add
  <2>1. \A a, b, c \in Seq(Byte) : (a \o b) \o c = a \o (b \o c)
    BY ConcatAssociative
  <2>2. Pending' = g_inbound \o (stream \o add)
    BY <1>1 DEF Pending, add
  <2> QED BY <1>2, <1>5, <2>1, <2>2 DEF Pending
<1>8. StreamPoint'
  BY <1>1, <1>5, <1>6, <1>7 DEF StreamPoint, NoNewline
<1> QED BY <1>3, <1>8

\* close_socket leaves nothing to be pending.
LEMMA ClosedPoint ==
  ASSUME close_socket
  PROVE  StreamPoint'
<1>1. wpc' = "closed" /\ g_inbound' = <<>> /\ stream' = <<>>
  BY DEF close_socket
<1>2. Pending' = <<>>
  BY <1>1, ConcatEmptySeq, NothingThere DEF Pending
<1> QED BY <1>1, <1>2, NoLines DEF StreamPoint

\* Each step keeps the invariant.
LEMMA StepPoint == IInv /\ [Next]_vars => LinesAsExpected' /\ StreamPoint'
<1> SUFFICES ASSUME TypeOK, LinesAsExpected, StreamPoint, [Next]_vars
             PROVE  LinesAsExpected' /\ StreamPoint'
  BY DEF IInv
<1>1. CASE Connect
  <2>1. /\ wpc' = "poll" /\ g_inbound' = <<>> /\ stream' = <<>> /\ sent' = <<>>
        /\ dispatched' = <<>>
    BY <1>1 DEF Connect
  <2>2. Pending' = <<>>
    BY <2>1, ConcatEmptySeq, NothingThere DEF Pending
  <2>3. Starts(<<>>, <<>>, 0) /\ EachEnds(<<>>, <<>>, 0)
    BY NothingThere DEF Starts, EachEnds
  <2>4. LinesAsExpected'
    BY <2>1, NothingThere DEF LinesAsExpected
  <2>5. StreamPoint'
    BY <2>1, <2>2, <2>3, NoLines, NothingThere DEF StreamPoint
  <2> QED BY <2>4, <2>5
<1>2. CASE Receive
  <2>1. PICK n \in 1..Min({InboundCap - Len(Kept), Len(stream)}) :
          /\ g_inbound' = Kept \o SubSeq(stream, 1, n)
          /\ stream' = SubSeq(stream, n + 1, Len(stream))
    BY <1>2 DEF Receive
  <2>2. Pending' = Kept \o stream
    BY <2>1, ReceivedIs DEF Pending
  <2>3. /\ wpc = "poll" /\ wpc' = "lines" /\ sent' = sent
        /\ dispatched' = dispatched
    BY <1>2 DEF Receive
  <2>4. StreamPoint'
    BY <2>2, <2>3, KeptKeepsLines DEF StreamPoint
  <2> QED BY <2>3, <2>4, SameLines
<1>3. CASE ReceiveFails
  <2>1. /\ wpc = "poll" /\ wpc' = "lines" /\ sent' = sent
        /\ dispatched' = dispatched /\ g_inbound' = Kept /\ stream' = stream
    BY <1>3 DEF ReceiveFails
  <2>2. Pending' = Kept \o stream
    BY <2>1 DEF Pending
  <2>3. StreamPoint'
    BY <2>1, <2>2, KeptKeepsLines DEF StreamPoint
  <2> QED BY <2>1, <2>3, SameLines
<1>4. CASE PeerGone
  BY <1>4, ClosedPoint, SameLines DEF PeerGone
<1>5. CASE DispatchLine
  BY <1>5, DispatchPoint, OneMoreLine DEF DispatchLine
<1>6. CASE DispatchKick
  BY <1>6, ClosedPoint, OneMoreLine DEF DispatchKick
<1>7. CASE NoMoreLines
  <2>1. /\ wpc = "lines" /\ wpc' = "poll" /\ sent' = sent /\ dispatched' = dispatched
        /\ g_inbound' = g_inbound /\ stream' = stream /\ find_newline = 0
    BY <1>7 DEF NoMoreLines
  <2>2. NoNewline(g_inbound)
    BY <2>1, FirstNewline
  <2>3. StreamPoint'
    BY <2>1, <2>2 DEF StreamPoint, Pending, NoNewline
  <2> QED BY <2>1, <2>3, SameLines
<1>8. CASE PcClose
  <2>1. /\ wpc' = wpc /\ sent' = sent /\ dispatched' = dispatched
        /\ g_inbound' = g_inbound /\ stream' = stream
    BY <1>8 DEF PcClose
  <2>2. StreamPoint'
    BY <2>1 DEF StreamPoint, Pending, NoNewline
  <2> QED BY <2>1, <2>2, SameLines
<1>9. ASSUME NEW len \in 0..MaxLineLen, NEW kick \in BOOLEAN, PcSend(len, kick)
      PROVE  LinesAsExpected' /\ StreamPoint'
  BY <1>9, SendPoint
<1>10. CASE UNCHANGED vars
  <2>1. /\ wpc' = wpc /\ sent' = sent /\ dispatched' = dispatched
        /\ g_inbound' = g_inbound /\ stream' = stream
    BY <1>10 DEF vars
  <2>2. StreamPoint'
    BY <2>1 DEF StreamPoint, Pending, NoNewline
  <2> QED BY <2>1, <2>2, SameLines
<1> QED BY <1>1, <1>2, <1>3, <1>4, <1>5, <1>6, <1>7, <1>8, <1>9, <1>10
        DEF Next, Worker, Pc

\* The i-th call of dispatch_line is for the i-th line of the connection, and what
\* it is given is a function of that line, however TCP cut the stream and however
\* long the lines around it were.
THEOREM LinesWholeAndInOrder == Spec => []LinesAsExpected
<1>1. Init => IInv
  BY InitType, InitPoint DEF IInv
<1>2. IInv /\ [Next]_vars => IInv'
  BY StepType, StepPoint DEF IInv
<1>3. IInv => LinesAsExpected
  BY DEF IInv
<1> QED BY <1>1, <1>2, <1>3, PTL DEF Spec

-----------------------------------------------------------------------------
\* Counting newlines.

Ended(q) == {i \in DOMAIN q : q[i].pos = 0}
LinesOf(q) == {q[i].line : i \in Ended(q)}

\* Each newline is that of another line.
LEMMA OneNewlineEach ==
  ASSUME NEW q \in Seq(Byte), InOrder(q)
  PROVE  IsFiniteSet(LinesOf(q)) /\ Cardinality(LinesOf(q)) = Newlines(q)
<1> DEFINE F == [i \in Ended(q) |-> q[i].line]
<1>1. IsFiniteSet(Ended(q))
  <2>1. IsFiniteSet(1..Len(q)) /\ Ended(q) \in SUBSET (1..Len(q))
    <3>1. 1 \in Int /\ Len(q) \in Int /\ DOMAIN q = 1..Len(q)
      OBVIOUS
    <3>2. Ended(q) \in SUBSET (1..Len(q))
      BY <3>1 DEF Ended
    <3> QED BY <3>1, <3>2, FS_Interval
  <2> QED BY <2>1, FS_Subset
<1>2. \A i, j \in Ended(q) : q[i].line = q[j].line => i = j
  <2> SUFFICES ASSUME NEW i \in Ended(q), NEW j \in Ended(q), i < j
               PROVE  q[i].line # q[j].line
    BY DEF Ended
  <2>1. i \in DOMAIN q /\ j \in DOMAIN q /\ q[i].pos = 0
    BY DEF Ended
  <2>2. q[i].line < q[j].line /\ q[i] \in Byte /\ q[j] \in Byte
    BY <2>1 DEF InOrder
  <2> QED BY <2>2, CapsAssumption DEF Byte
<1>3. F \in Bijection(Ended(q), LinesOf(q))
  <2>1. F \in [Ended(q) -> LinesOf(q)]
    BY DEF LinesOf
  <2>2. \A a, b \in Ended(q) : F[a] = F[b] => a = b
    BY <1>2
  <2>3. \A t \in LinesOf(q) : \E i \in Ended(q) : F[i] = t
    BY DEF LinesOf
  <2> HIDE DEF F
  <2> QED BY <2>1, <2>2, <2>3, Fun_IsBij
<1>4. IsFiniteSet(LinesOf(q)) /\ Cardinality(LinesOf(q)) = Cardinality(Ended(q))
  <2>1. ExistsBijection(Ended(q), LinesOf(q))
    BY <1>3 DEF ExistsBijection
  <2> QED BY <1>1, <2>1, FS_Bijection
<1>5. Newlines(q) = Cardinality(Ended(q))
  BY DEF Newlines, Quantify, Ended
<1> QED BY <1>4, <1>5

\* The pending newlines are those of the lines that are due, in two halves.
LEMMA LinesPending ==
  ASSUME TypeOK, StreamPoint, wpc # "closed"
  PROVE  /\ Len(dispatched) <= Len(sent)
         /\ LinesOf(g_inbound) \cup LinesOf(stream) = (Len(dispatched) + 1)..Len(sent)
         /\ LinesOf(g_inbound) \cap LinesOf(stream) = {}
         /\ InOrder(g_inbound) /\ InOrder(stream)
<1> DEFINE m == Len(dispatched)
           g == Len(g_inbound)
<1>1. /\ m \in Nat /\ Len(sent) \in Nat /\ DOMAIN sent = 1..Len(sent)
      /\ g_inbound \in Seq(Byte) /\ stream \in Seq(Byte)
      /\ g \in Nat /\ Len(stream) \in Nat
      /\ DOMAIN g_inbound = 1..g /\ DOMAIN stream = 1..Len(stream)
  BY DEF TypeOK
<1>2. /\ Pending \in Seq(Byte) /\ DOMAIN Pending = 1..(g + Len(stream))
      /\ \A i \in 1..g : Pending[i] = g_inbound[i]
      /\ \A i \in 1..Len(stream) : Pending[g + i] = stream[i]
  BY PendingIs
<1>3. /\ InLines(Pending, sent) /\ InOrder(Pending)
      /\ Starts(Pending, sent, m) /\ EachEnds(Pending, sent, m)
  BY DEF StreamPoint, MadeOfLines
<1> HIDE DEF m, g
<1>4. m <= Len(sent)
  <2>1. CASE Pending = <<>>
    BY <1>1, <1>3, <2>1 DEF Starts
  <2>2. CASE Pending # <<>>
    <3>1. 1 \in DOMAIN Pending /\ Pending[1].line = m + 1
      <4>1. Pending[1].line = m + 1
        BY <1>3, <2>2 DEF Starts
      <4>2. 1 \in DOMAIN Pending
        <5>1. Pending \in Seq(Byte) /\ Len(Pending) \in Nat \ {0}
          BY <1>2, <2>2, EmptySeq
        <5> QED BY <5>1
      <4> QED BY <4>1, <4>2
    <3>2. m + 1 \in DOMAIN sent
      BY <1>3, <3>1 DEF InLines
    <3> QED BY <1>1, <3>2
  <2> QED BY <2>1, <2>2
<1>5. \A i \in 1..g : i \in DOMAIN Pending
  BY <1>1, <1>2
<1>6. \A i \in 1..Len(stream) : g + i \in DOMAIN Pending
  BY <1>1, <1>2
<1>7. \A j \in DOMAIN Pending : Pending[j].line \in (m + 1)..Len(sent)
  <2> TAKE j \in DOMAIN Pending
  <2>1. 1 \in DOMAIN Pending /\ Pending # <<>> /\ j \in Nat /\ 1 <= j
    BY <1>1, <1>2, NothingThere
  <2>2. Pending[1].line = m + 1 /\ Pending[j].line \in 1..Len(sent)
    BY <1>1, <1>3, <2>1 DEF Starts, InLines
  <2>3. m + 1 <= Pending[j].line
    <3>1. CASE j = 1
      BY <1>1, <2>2, <3>1
    <3>2. CASE 1 < j
      BY <1>3, <2>1, <2>2, <3>2 DEF InOrder
    <3> QED BY <2>1, <3>1, <3>2
  <2> QED BY <1>1, <2>2, <2>3
<1>8. \A x \in LinesOf(g_inbound) : \E i \in 1..g : g_inbound[i].pos = 0 /\ x = Pending[i].line
  BY <1>1, <1>2 DEF LinesOf, Ended
<1>9. \A x \in LinesOf(stream) :
        \E i \in 1..Len(stream) : stream[i].pos = 0 /\ x = Pending[g + i].line
  BY <1>1, <1>2 DEF LinesOf, Ended
<1>10. LinesOf(g_inbound) \cup LinesOf(stream) \subseteq (m + 1)..Len(sent)
  BY <1>5, <1>6, <1>7, <1>8, <1>9, Zenon
<1>11. (m + 1)..Len(sent) \subseteq LinesOf(g_inbound) \cup LinesOf(stream)
  <2> SUFFICES ASSUME NEW i \in (m + 1)..Len(sent)
               PROVE  i \in LinesOf(g_inbound) \cup LinesOf(stream)
    OBVIOUS
  <2>1. PICK j \in DOMAIN Pending : Pending[j] = Newline(i)
    BY <1>3 DEF EachEnds
  <2>2. Pending[j].pos = 0 /\ Pending[j].line = i
    BY <2>1 DEF Newline
  <2>3. CASE j \in 1..g
    BY <1>1, <1>2, <2>2, <2>3 DEF LinesOf, Ended
  <2>4. CASE j \notin 1..g
    <3>1. j - g \in 1..Len(stream) /\ g + (j - g) = j
      BY <1>1, <1>2, <2>4
    <3>2. stream[j - g] = Pending[j]
      BY <1>2, <3>1
    <3> QED BY <1>1, <2>2, <3>1, <3>2 DEF LinesOf, Ended
  <2> QED BY <2>3, <2>4
<1>12. LinesOf(g_inbound) \cap LinesOf(stream) = {}
  <2> SUFFICES ASSUME NEW x \in LinesOf(g_inbound), x \in LinesOf(stream)
               PROVE  FALSE
    OBVIOUS
  <2>1. PICK i \in 1..g : g_inbound[i].pos = 0 /\ x = Pending[i].line
    BY <1>8
  <2>2. PICK j \in 1..Len(stream) : x = Pending[g + j].line
    BY <1>9
  <2>3. /\ i \in DOMAIN Pending /\ g + j \in DOMAIN Pending /\ i < g + j
        /\ Pending[i].pos = 0
    BY <1>1, <1>2, <1>5, <1>6, <2>1
  <2>4. Pending[i].line < Pending[g + j].line /\ x \in (m + 1)..Len(sent)
    BY <1>3, <1>7, <2>1, <2>3 DEF InOrder
  <2> QED BY <1>1, <2>1, <2>2, <2>4
<1>13. InOrder(g_inbound)
  <2>1. \A i \in DOMAIN g_inbound : i \in DOMAIN Pending /\ g_inbound[i] = Pending[i]
    BY <1>1, <1>2, <1>5
  <2> QED BY <1>3, <2>1 DEF InOrder
<1>14. InOrder(stream)
  <2> SUFFICES ASSUME NEW j \in DOMAIN stream, NEW k \in DOMAIN stream, j < k
               PROVE  /\ stream[j].line <= stream[k].line
                      /\ stream[j].pos = 0 => stream[j].line < stream[k].line
    BY DEF InOrder
  <2>1. /\ g + j \in DOMAIN Pending /\ g + k \in DOMAIN Pending /\ g + j < g + k
        /\ Pending[g + j] = stream[j] /\ Pending[g + k] = stream[k]
    BY <1>1, <1>2, <1>6
  <2> QED BY <1>3, <2>1 DEF InOrder
<1> QED BY <1>4, <1>10, <1>11, <1>12, <1>13, <1>14 DEF m

\* The invariant counts the newlines.
LEMMA CountPending == TypeOK /\ StreamPoint => NoLineLost
<1> SUFFICES ASSUME TypeOK, StreamPoint, wpc # "closed"
             PROVE  Len(dispatched) + Newlines(g_inbound) + Newlines(stream) = Len(sent)
  BY DEF NoLineLost
<1> DEFINE A == LinesOf(g_inbound)
           B == LinesOf(stream)
           m == Len(dispatched)
<1>1. /\ m \in Nat /\ Len(sent) \in Nat
      /\ g_inbound \in Seq(Byte) /\ stream \in Seq(Byte)
  BY DEF TypeOK
<1>2. m <= Len(sent) /\ A \cup B = (m + 1)..Len(sent) /\ A \cap B = {}
  BY LinesPending
<1>3. /\ IsFiniteSet(A) /\ Cardinality(A) = Newlines(g_inbound)
      /\ IsFiniteSet(B) /\ Cardinality(B) = Newlines(stream)
  BY <1>1, LinesPending, OneNewlineEach
<1> HIDE DEF A, B, m
<1>4. Cardinality(A \cup B) = Len(sent) - m
  <2>1. m + 1 \in Int /\ Len(sent) \in Int
    BY <1>1
  <2>2. Cardinality((m + 1)..Len(sent)) =
          IF m + 1 > Len(sent) THEN 0 ELSE Len(sent) - (m + 1) + 1
    BY <2>1, FS_Interval
  <2>3. Cardinality(A \cup B) = Cardinality((m + 1)..Len(sent))
    BY <1>2, Zenon
  <2>4. m <= Len(sent)
    BY <1>2
  <2> QED BY <1>1, <2>2, <2>3, <2>4
<1>5. Cardinality(A \cap B) = 0
  BY <1>2, FS_EmptySet
<1>6. Cardinality(A \cup B) = Cardinality(A) + Cardinality(B) - Cardinality(A \cap B)
  BY <1>3, FS_Union
<1>7. Cardinality(A) \in Nat /\ Cardinality(B) \in Nat
  BY <1>3, FS_CardinalityType
<1> QED BY <1>1, <1>3, <1>4, <1>5, <1>6, <1>7 DEF m

\* While a connection is open no newline is lost: every line the PC sent has been
\* dispatched, is in g_inbound or is still to be received.
THEOREM NoNewlineIsLost == Spec => []NoLineLost
<1>1. Init => IInv
  BY InitType, InitPoint DEF IInv
<1>2. IInv /\ [Next]_vars => IInv'
  BY StepType, StepPoint DEF IInv
<1>3. IInv => NoLineLost
  BY CountPending DEF IInv
<1> QED BY <1>1, <1>2, <1>3, PTL DEF Spec
=============================================================================
