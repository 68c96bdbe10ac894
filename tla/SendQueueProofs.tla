-------------------------- MODULE SendQueueProofs --------------------------
(***************************************************************************)
(* What holds of g_sendBuffer for messages of any length, any number of    *)
(* them and any number of connections: what reaches the wire is never      *)
(* spliced.  The invariant says where the queue begins (the buffers before *)
(* k are emptied, those from k on hold rests of messages) and how the last *)
(* byte on the wire and the first byte of the queue meet.                  *)
(***************************************************************************)
EXTENDS SendQueue, FlattenLemmas, FiniteSetTheorems

\* What is left of a message: its bytes from some place to the newline.
Rest(b) ==
  /\ b \in Seq(Byte) /\ Len(b) \in Nat \ {0}
  /\ Len(b) = LenOf(b[1].id) - b[1].pos + 1
  /\ \A p \in 1..Len(b) : b[p].id = b[1].id /\ b[p].pos = b[1].pos + p - 1

\* The queue q begins at its k-th buffer, and holds messages made so far.
BeginsAt(q, k, last) ==
  /\ k \in 1..(Len(q) + 1)
  /\ \A i \in 1..(k - 1) : q[i] = <<>>
  /\ \A i \in k..Len(q) : Rest(q[i]) /\ q[i][1].id <= last
  /\ \A i \in (k + 1)..Len(q) : q[i][1].pos = 1
  /\ \A i, j \in k..Len(q) : i < j => q[i][1].id < q[j][1].id

\* pump_outbound goes on only behind buffers it has emptied.
LoopPoint(k) ==
  /\ pos = 0 => k = 1
  /\ pos \in 1..Len(g_sendBuffer) => k = pos
  /\ g_socket = "closed" => pos = 0

\* A cut message continues on the wire where it was cut; a whole one follows the
\* newline of an earlier one.
Meets(w, b) ==
  IF b[1].pos > 1
  THEN w # <<>> /\ w[Len(w)].id = b[1].id /\ w[Len(w)].pos = b[1].pos - 1
  ELSE w # <<>> => /\ w[Len(w)].pos = LenOf(w[Len(w)].id)
                   /\ w[Len(w)].id < b[1].id

Junction(k) ==
  /\ wire # <<>> => wire[Len(wire)].id <= made
  /\ g_socket = "none" =>
       (k <= Len(g_sendBuffer) => g_sendBuffer[k][1].pos = 1)
  /\ g_socket = "open" /\ k <= Len(g_sendBuffer) => Meets(wire, g_sendBuffer[k])
  /\ g_socket = "open" /\ k > Len(g_sendBuffer) =>
       (wire # <<>> => wire[Len(wire)].pos = LenOf(wire[Len(wire)].id))

Spliceless(w) ==
  \A i \in DOMAIN w :
    \/ w[i].pos = 1 /\ i = 1
    \/ /\ i > 1 /\ w[i].id = w[i - 1].id
       /\ w[i].pos = w[i - 1].pos + 1
    \/ /\ i > 1 /\ w[i].id > w[i - 1].id
       /\ w[i].pos = 1 /\ w[i - 1].pos = LenOf(w[i - 1].id)

QueueShape ==
  \E k \in Nat : BeginsAt(g_sendBuffer, k, made) /\ LoopPoint(k) /\ Junction(k)

IInv == TypeOK /\ QueueShape /\ Spliceless(wire)

-----------------------------------------------------------------------------
LEMMA MessageLength == ASSUME NEW id \in Nat \ {0} PROVE LenOf(id) \in 1..MaxLen
  BY BoundsAssumption DEF LenOf

\* enqueue appends a whole message.
LEMMA WholeMessage ==
  ASSUME NEW id \in 1..MaxMessages
  PROVE  Rest(BytesOf(id)) /\ BytesOf(id)[1] = [id |-> id, pos |-> 1]
<1> DEFINE b == BytesOf(id)
<1>1. LenOf(id) \in 1..MaxLen
  BY MessageLength
<1>2. b \in Seq(Byte) /\ Len(b) = LenOf(id)
  <2>1. LenOf(id) \in Nat /\ \A p \in 1..LenOf(id) : [id |-> id, pos |-> p] \in Byte
    BY <1>1, BoundsAssumption DEF Byte
  <2> QED
    BY <2>1 DEF BytesOf
<1>3. \A p \in 1..Len(b) : b[p] = [id |-> id, pos |-> p]
  BY <1>2 DEF BytesOf
<1>4. Len(b) \in Nat \ {0} /\ 1 \in 1..Len(b)
  BY <1>1, <1>2, BoundsAssumption
<1> HIDE DEF b
<1>5. b[1] = [id |-> id, pos |-> 1]
  BY <1>3, <1>4
<1> QED
  BY <1>1, <1>2, <1>3, <1>4, <1>5 DEF Rest, b

\* The first n bytes of what is left of a message, behind a wire it meets.
LEMMA SentSpliceless ==
  ASSUME NEW w \in Seq(Byte), Spliceless(w), NEW b, Rest(b), Meets(w, b),
         NEW n \in 1..Len(b)
  PROVE  LET v == w \o SubSeq(b, 1, n)
         IN  /\ v \in Seq(Byte) /\ Len(v) = Len(w) + n
             /\ v[Len(v)] = b[n] /\ Spliceless(v)
<1> DEFINE v == w \o SubSeq(b, 1, n)
<1>1. b \in Seq(Byte) /\ Len(b) \in Nat /\ 1 \in 1..Len(b)
  BY DEF Rest
<1>2. /\ SubSeq(b, 1, n) \in Seq(Byte) /\ Len(SubSeq(b, 1, n)) = n
      /\ \A i \in 1..n : SubSeq(b, 1, n)[i] = b[i]
  BY <1>1
<1>3. /\ v \in Seq(Byte) /\ Len(v) = Len(w) + n
      /\ \A i \in 1..Len(w) : v[i] = w[i]
      /\ \A i \in 1..n : v[Len(w) + i] = b[i]
  BY <1>2
<1> HIDE DEF v
<1>4. \A i \in 1..n : b[i].id = b[1].id /\ b[i].pos = b[1].pos + i - 1
  BY <1>1 DEF Rest
<1>5. b[1].pos \in Nat \ {0} /\ b[1].id \in Nat
  <2>1. b[1] \in Byte
    BY <1>1
  <2> QED
    BY <2>1 DEF Byte
<1>6. Spliceless(v)
  <2> SUFFICES ASSUME NEW i \in 1..Len(v)
               PROVE  \/ v[i].pos = 1 /\ i = 1
                      \/ /\ i > 1 /\ v[i].id = v[i - 1].id
                         /\ v[i].pos = v[i - 1].pos + 1
                      \/ /\ i > 1 /\ v[i].id > v[i - 1].id
                         /\ v[i].pos = 1 /\ v[i - 1].pos = LenOf(v[i - 1].id)
    BY <1>3 DEF Spliceless
  <2> Len(w) \in Nat
    OBVIOUS
  <2>1. CASE i \in 1..Len(w)
    <3>1. v[i] = w[i] /\ (i > 1 => v[i - 1] = w[i - 1])
      BY <2>1, <1>3
    <3>2. i \in DOMAIN w
      BY <2>1
    <3>3. \/ w[i].pos = 1 /\ i = 1
          \/ /\ i > 1 /\ w[i].id = w[i - 1].id
             /\ w[i].pos = w[i - 1].pos + 1
          \/ /\ i > 1 /\ w[i].id > w[i - 1].id
             /\ w[i].pos = 1 /\ w[i - 1].pos = LenOf(w[i - 1].id)
      BY <3>2 DEF Spliceless
    <3> QED
      BY <3>1, <3>3
  <2>2. CASE i = Len(w) + 1
    <3>1. v[i] = b[1]
      BY <2>2, <1>3
    <3>2. CASE w = <<>>
      <4>1. i = 1 /\ b[1].pos = 1
        BY <3>2, <2>2, <1>5 DEF Meets
      <4> QED
        BY <3>1, <4>1
    <3>3. CASE w # <<>>
      <4>1. Len(w) \in 1..Len(w) /\ i - 1 = Len(w) /\ i > 1
        BY <3>3, <2>2
      <4>2. v[i - 1] = w[Len(w)]
        BY <4>1, <1>3
      <4> QED
        BY <3>1, <3>3, <4>1, <4>2, <1>5 DEF Meets
    <3> QED
      BY <3>2, <3>3
  <2>3. CASE i > Len(w) + 1
    <3> DEFINE m == i - Len(w)
    <3>1. m \in 2..n /\ i = Len(w) + m /\ i - 1 = Len(w) + (m - 1) /\ i > 1
      BY <2>3, <1>3
    <3> HIDE DEF m
    <3>2. v[i] = b[m] /\ v[i - 1] = b[m - 1]
      <4>1. m \in 1..n /\ m - 1 \in 1..n
        BY <3>1
      <4> QED
        BY <3>1, <4>1, <1>3
    <3>3. b[m].id = b[m - 1].id /\ b[m].pos = b[m - 1].pos + 1
      <4>1. m \in 1..n /\ m - 1 \in 1..n
        BY <3>1
      <4>2. /\ b[m].id = b[1].id /\ b[m].pos = b[1].pos + m - 1
            /\ b[m - 1].id = b[1].id /\ b[m - 1].pos = b[1].pos + (m - 1) - 1
        BY <4>1, <1>4
      <4>3. m \in Int
        BY <3>1, <1>1
      <4>4. b[m].id = b[m - 1].id
        BY <4>2
      <4>5. b[1].pos + m - 1 = b[1].pos + (m - 1) - 1 + 1
        BY <4>3, <1>5
      <4> QED
        BY <4>2, <4>4, <4>5
    <3> QED
      BY <3>1, <3>2, <3>3
  <2>4. i \in 1..Len(w) \/ i = Len(w) + 1 \/ i > Len(w) + 1
    BY <1>3
  <2> QED
    BY <2>1, <2>2, <2>3, <2>4
<1>7. v[Len(v)] = b[n]
  BY <1>3
<1> QED
  BY <1>3, <1>6, <1>7 DEF v

\* What a partial write leaves is a rest again, cut behind the bytes it took.
LEMMA TailIsRest ==
  ASSUME NEW b, Rest(b), NEW n \in 1..(Len(b) - 1)
  PROVE  LET t == SubSeq(b, n + 1, Len(b))
         IN  Rest(t) /\ t[1].id = b[1].id /\ t[1].pos = b[n].pos + 1 /\ b[n].id = b[1].id
<1> DEFINE t == SubSeq(b, n + 1, Len(b))
<1>1. /\ b \in Seq(Byte) /\ Len(b) \in Nat /\ b[1] \in Byte
      /\ Len(b) = LenOf(b[1].id) - b[1].pos + 1
      /\ \A p \in 1..Len(b) : b[p].id = b[1].id /\ b[p].pos = b[1].pos + p - 1
  BY DEF Rest
<1>2. b[1].pos \in Nat /\ LenOf(b[1].id) \in Int
  <2>1. b[1].pos \in Nat /\ b[1].id \in Nat \ {0}
    <3> HIDE DEF t
    <3>1. b[1] \in Byte
      BY <1>1
    <3> QED
      BY <3>1, BoundsAssumption DEF Byte
  <2>2. LenOf(b[1].id) \in 1..MaxLen
    BY <2>1, MessageLength
  <2> QED
    BY <2>1, <2>2, BoundsAssumption
<1>3. /\ t \in Seq(Byte) /\ Len(t) = Len(b) - n
      /\ \A p \in 1..Len(t) : t[p] = b[p + n]
  BY <1>1
<1> HIDE DEF t
<1>4. Len(t) \in Nat \ {0} /\ 1 \in 1..Len(t) /\ n \in 1..Len(b)
  BY <1>1, <1>3
<1>5. ASSUME NEW p \in 1..Len(t)
      PROVE  t[p].id = b[1].id /\ t[p].pos = b[1].pos + (p + n) - 1
  <2>1. p + n \in 1..Len(b)
    BY <1>1, <1>3
  <2> QED
    BY <1>1, <1>3, <2>1
<1>6. t[1].id = b[1].id /\ t[1].pos = b[1].pos + n
  BY <1>2, <1>4, <1>5
<1>7. b[n].id = b[1].id /\ b[n].pos = b[1].pos + n - 1
  BY <1>1, <1>4
<1>8. \A p \in 1..Len(t) : t[p].pos = t[1].pos + p - 1
  BY <1>2, <1>5, <1>6
<1>9. Len(t) = LenOf(t[1].id) - t[1].pos + 1
  BY <1>1, <1>2, <1>3, <1>6
<1>10. Rest(t)
  BY <1>3, <1>4, <1>5, <1>6, <1>8, <1>9 DEF Rest
<1>11. t[1].pos = b[n].pos + 1
  BY <1>2, <1>6, <1>7
<1> QED
  BY <1>6, <1>7, <1>10, <1>11 DEF t

\* The erase at the end of pump_outbound leaves the queue from where it begins.
LEMMA ErasedQueue ==
  ASSUME TypeOK, NEW k \in Nat, BeginsAt(g_sendBuffer, k, made), EndPump
  PROVE  /\ g_sendBuffer' \in Seq(Seq(Byte))
         /\ Len(g_sendBuffer') = Len(g_sendBuffer) + 1 - k
         /\ \A n \in 1..Len(g_sendBuffer') : g_sendBuffer'[n] = g_sendBuffer[n + k - 1]
<1> DEFINE L == Len(g_sendBuffer)
<1>1. /\ g_sendBuffer \in Seq(Seq(Byte)) /\ L \in Nat /\ k \in 1..(L + 1)
      /\ DOMAIN g_sendBuffer = 1..L
  BY DEF TypeOK, BeginsAt
<1>2. Kept = k..L
  <2>1. \A i \in k..L : g_sendBuffer[i] # <<>>
    BY DEF BeginsAt, Rest
  <2>2. \A i \in 1..(k - 1) : g_sendBuffer[i] = <<>>
    BY DEF BeginsAt
  <2> QED
    BY <1>1, <2>1, <2>2 DEF Kept
<1> HIDE DEF L
<1>i. \A a, b \in Int : Cardinality(a..b) = IF a > b THEN 0 ELSE b - a + 1
  BY FS_Interval
<1>3. Cardinality(Kept) = L + 1 - k
  <2>1. k \in Int /\ L \in Int /\ (k > L => k = L + 1)
    BY <1>1
  <2> QED
    BY <2>1, <1>2, <1>i
<1>4. ASSUME NEW n \in 1..(L + 1 - k) PROVE KeptAt(n) = n + k - 1
  <2>1. \A i \in Kept : Cardinality({j \in Kept : j <= i}) = i - k + 1
    <3> SUFFICES ASSUME NEW i \in k..L
                 PROVE  Cardinality({j \in k..L : j <= i}) = i - k + 1
      BY <1>2
    <3>1. {j \in k..L : j <= i} = k..i
      BY <1>1
    <3>2. Cardinality(k..i) = i - k + 1
      BY <1>1, <1>i
    <3> QED
      BY <3>1, <3>2
  <2>2. n + k - 1 \in Kept /\ (n + k - 1) - k + 1 = n
    BY <1>1, <1>2
  <2>3. \A i \in Kept : i - k + 1 = n => i = n + k - 1
    BY <1>1, <1>2
  <2>4. \A i \in Kept : Cardinality({j \in Kept : j <= i}) = n <=> i = n + k - 1
    BY <2>1, <2>2, <2>3
  <2> QED
    BY <2>2, <2>4 DEF KeptAt
<1>5. g_sendBuffer' = [n \in 1..(L + 1 - k) |-> g_sendBuffer[n + k - 1]]
  BY <1>3, <1>4 DEF EndPump
<1>6. L + 1 - k \in Nat /\ \A n \in 1..(L + 1 - k) : g_sendBuffer[n + k - 1] \in Seq(Byte)
  BY <1>1 DEF L
<1>7. /\ g_sendBuffer' \in Seq(Seq(Byte)) /\ Len(g_sendBuffer') = L + 1 - k
  BY <1>5, <1>6
<1> QED
  BY <1>5, <1>7 DEF L

-----------------------------------------------------------------------------
LEMMA InitiallyInvariant == Init => IInv
<1> SUFFICES ASSUME Init PROVE IInv
  OBVIOUS
<1>1. g_sendBuffer = <<>> /\ wire = <<>> /\ pos = 0 /\ made = 0 /\ sessions = 0
      /\ g_socket = "none"
  BY DEF Init
<1>2. g_sendBuffer \in Seq(Seq(Byte)) /\ wire \in Seq(Byte) /\ Len(g_sendBuffer) = 0
  BY <1>1
<1>3. TypeOK
  BY <1>1, <1>2, BoundsAssumption DEF TypeOK
<1>4. BeginsAt(g_sendBuffer, 1, made) /\ LoopPoint(1) /\ Junction(1)
  BY <1>1, <1>2 DEF BeginsAt, LoopPoint, Junction
<1>5. Spliceless(wire)
  BY <1>1 DEF Spliceless
<1> QED
  BY <1>3, <1>4, <1>5 DEF IInv, QueueShape

\* Each action keeps the invariant; a queue that begins at k is given.
LEMMA EnqueueStep == IInv /\ Enqueue => IInv'
<1> SUFFICES ASSUME IInv, Enqueue PROVE IInv'
  OBVIOUS
<1>1. PICK k \in Nat : BeginsAt(g_sendBuffer, k, made) /\ LoopPoint(k) /\ Junction(k)
  BY DEF IInv, QueueShape
<1> DEFINE b == BytesOf(made + 1)
           q == g_sendBuffer
<1>2. /\ pos = 0 /\ k = 1 /\ made' = made + 1 /\ made + 1 \in 1..MaxMessages
      /\ q' = Append(q, b) /\ UNCHANGED <<pos, g_socket, wire, sessions>>
      /\ made \in Nat /\ q \in Seq(Seq(Byte)) /\ wire \in Seq(Byte)
  BY <1>1, BoundsAssumption DEF Enqueue, IInv, TypeOK, LoopPoint
<1>3. Rest(b) /\ b[1] = [id |-> made + 1, pos |-> 1]
  BY <1>2, WholeMessage
<1>4. b \in Seq(Byte)
  BY <1>3 DEF Rest
<1> HIDE DEF b
<1>5. /\ q' \in Seq(Seq(Byte)) /\ Len(q') = Len(q) + 1 /\ Len(q) \in Nat
      /\ \A i \in 1..Len(q) : q'[i] = q[i]
      /\ q'[Len(q) + 1] = b
  BY <1>2, <1>4
<1> HIDE DEF q
<1>6. TypeOK'
  BY <1>2, <1>5, BoundsAssumption DEF IInv, TypeOK, q
<1>7. /\ \A i \in 1..Len(q) : Rest(q[i]) /\ q[i][1].id <= made /\ q[i][1].id \in Int
      /\ \A i \in 2..Len(q) : q[i][1].pos = 1
      /\ \A i, j \in 1..Len(q) : i < j => q[i][1].id < q[j][1].id
  <2>1. \A i \in 1..Len(q) : Rest(q[i]) /\ q[i][1].id <= made
    BY <1>1, <1>2 DEF BeginsAt, q
  <2>2. \A i \in 1..Len(q) : q[i] \in Seq(Byte) /\ 1 \in 1..Len(q[i])
    BY <2>1 DEF Rest
  <2>3. \A i \in 1..Len(q) : q[i][1] \in Byte
    BY <2>2
  <2> QED
    BY <1>1, <1>2, <2>1, <2>3 DEF BeginsAt, Byte, q
<1>8. BeginsAt(q', 1, made')
  <2>1. ASSUME NEW i \in 1..Len(q')
        PROVE  /\ Rest(q'[i]) /\ q'[i][1].id <= made'
               /\ i > 1 => q'[i][1].pos = 1
               /\ \A j \in 1..Len(q') : j < i => q'[j][1].id < q'[i][1].id
    <3>1. CASE i = Len(q) + 1
      <4>1. \A j \in 1..Len(q') : j < i => j \in 1..Len(q)
        BY <1>5, <3>1
      <4>2. q'[i] = b /\ \A j \in 1..Len(q) : q'[j] = q[j] /\ q[j][1].id < made + 1
        <5>1. q'[i] = b /\ \A j \in 1..Len(q) : q'[j] = q[j]
          BY <1>5, <3>1
        <5>2. \A j \in 1..Len(q) : q[j][1].id < made + 1
          BY <1>2, <1>7
        <5> QED
          BY <5>1, <5>2
      <4>3. Rest(b) /\ b[1].id = made + 1 /\ b[1].pos = 1 /\ made + 1 <= made'
        BY <1>2, <1>3
      <4> QED
        BY <4>1, <4>2, <4>3
    <3>2. CASE i \in 1..Len(q)
      <4>1. \A j \in 1..Len(q') : j < i => j \in 1..Len(q)
        BY <1>5, <3>2
      <4>2. q'[i] = q[i] /\ \A j \in 1..Len(q) : q'[j] = q[j]
        BY <1>5, <3>2
      <4>3. q[i][1].id <= made'
        BY <1>2, <1>7, <3>2
      <4>4. i > 1 => i \in 2..Len(q)
        BY <1>5, <3>2
      <4> QED
        BY <1>7, <3>2, <4>1, <4>2, <4>3, <4>4
    <3> QED
      BY <1>5, <3>1, <3>2
  <2> QED
    BY <2>1, <1>5 DEF BeginsAt
<1>9. Junction(1)'
  <2>1. wire # <<>> => wire[Len(wire)].id <= made /\ wire[Len(wire)].id \in Int
    <3>1. wire # <<>> => wire[Len(wire)] \in Byte
      BY <1>2
    <3> QED
      BY <1>1, <3>1 DEF Junction, Byte
  <2>2. CASE Len(q) = 0
    <3>1. Len(q') = 1 /\ q'[1] = b
      BY <2>2, <1>5
    <3> QED
      BY <1>1, <1>2, <1>3, <2>1, <2>2, <3>1 DEF Junction, Meets, q
  <2>3. CASE Len(q) # 0
    <3>1. 1 <= Len(q) /\ 1 <= Len(q') /\ q'[1] = q[1]
      BY <2>3, <1>5
    <3> QED
      BY <1>1, <1>2, <2>1, <3>1 DEF Junction, Meets, q
  <2> QED
    BY <2>2, <2>3
<1>10. LoopPoint(1)'
  BY <1>1, <1>2 DEF LoopPoint
<1>11. Spliceless(wire)'
  BY <1>2 DEF IInv, Spliceless
<1> QED
  BY <1>6, <1>8, <1>9, <1>10, <1>11 DEF IInv, QueueShape, q

LEMMA ConnectionStep == IInv /\ (Connect \/ Close \/ Clear) => IInv'
<1> SUFFICES ASSUME IInv, Connect \/ Close \/ Clear PROVE IInv'
  OBVIOUS
<1>1. PICK k \in Nat : BeginsAt(g_sendBuffer, k, made) /\ LoopPoint(k) /\ Junction(k)
  BY DEF IInv, QueueShape
<1>t. TypeOK /\ Spliceless(wire)
  BY DEF IInv
<1>2. CASE Connect
  <2>1. wire' = <<>> /\ wire' \in Seq(Byte) /\ g_socket = "none" /\ g_socket' = "open"
        /\ UNCHANGED <<g_sendBuffer, pos, made>>
    BY <1>2 DEF Connect
  <2>2. TypeOK' /\ Spliceless(wire)'
    BY <1>2, <1>t, <2>1, BoundsAssumption DEF Connect, TypeOK, Spliceless
  <2>3. BeginsAt(g_sendBuffer, k, made)' /\ LoopPoint(k)' /\ Junction(k)'
    BY <1>1, <2>1 DEF BeginsAt, LoopPoint, Junction, Meets
  <2> QED
    BY <2>2, <2>3 DEF IInv, QueueShape
<1>3. CASE Close
  <2>1. /\ pos = 0 /\ g_socket' = "closed"
        /\ UNCHANGED <<g_sendBuffer, pos, wire, made, sessions>>
    BY <1>3 DEF Close
  <2>2. TypeOK' /\ Spliceless(wire)'
    BY <1>t, <2>1 DEF TypeOK, Spliceless
  <2>3. BeginsAt(g_sendBuffer, k, made)' /\ LoopPoint(k)' /\ Junction(k)'
    BY <1>1, <2>1 DEF BeginsAt, LoopPoint, Junction
  <2> QED
    BY <2>2, <2>3 DEF IInv, QueueShape
<1>4. CASE Clear
  <2>1. /\ g_socket = "closed" /\ g_socket' = "none" /\ g_sendBuffer' = <<>>
        /\ UNCHANGED <<pos, wire, made, sessions>>
    BY <1>4 DEF Clear
  <2>2. /\ pos = 0 /\ g_sendBuffer' \in Seq(Seq(Byte)) /\ Len(g_sendBuffer') = 0
    BY <1>1, <2>1 DEF LoopPoint
  <2>3. TypeOK' /\ Spliceless(wire)'
    BY <1>t, <2>1, <2>2 DEF TypeOK, Spliceless
  <2>4. BeginsAt(g_sendBuffer', 1, made') /\ LoopPoint(1)'
    BY <2>1, <2>2 DEF BeginsAt, LoopPoint
  <2>5. Junction(1)'
    BY <1>1, <2>1, <2>2 DEF Junction
  <2> QED
    BY <2>3, <2>4, <2>5 DEF IInv, QueueShape
<1> QED
  BY <1>2, <1>3, <1>4

LEMMA LoopStep == IInv /\ (StartPump \/ SendNothing \/ EndPump) => IInv'
<1> SUFFICES ASSUME IInv, StartPump \/ SendNothing \/ EndPump PROVE IInv'
  OBVIOUS
<1>1. PICK k \in Nat : BeginsAt(g_sendBuffer, k, made) /\ LoopPoint(k) /\ Junction(k)
  BY DEF IInv, QueueShape
<1>t. TypeOK /\ Spliceless(wire) /\ Len(g_sendBuffer) \in Nat
  BY DEF IInv, TypeOK
<1>2. CASE StartPump \/ SendNothing
  <2>1. /\ pos' \in 1..(Len(g_sendBuffer) + 1)
        /\ UNCHANGED <<g_sendBuffer, g_socket, wire, made, sessions>>
        /\ pos' \in 1..Len(g_sendBuffer) => pos' = k
        /\ g_socket # "closed"
    BY <1>1, <1>2, <1>t DEF StartPump, SendNothing, LoopPoint
  <2>2. TypeOK' /\ Spliceless(wire)'
    BY <1>t, <2>1 DEF TypeOK, Spliceless
  <2>3. BeginsAt(g_sendBuffer, k, made)' /\ LoopPoint(k)' /\ Junction(k)'
    BY <1>1, <2>1 DEF BeginsAt, LoopPoint, Junction
  <2> QED
    BY <2>2, <2>3 DEF IInv, QueueShape
<1>3. CASE EndPump
  <2> DEFINE L == Len(g_sendBuffer)
  <2>1. /\ pos' = 0 /\ UNCHANGED <<g_socket, wire, made, sessions>>
    BY <1>3 DEF EndPump
  <2>2. /\ g_sendBuffer' \in Seq(Seq(Byte))
        /\ Len(g_sendBuffer') = L + 1 - k
        /\ \A n \in 1..Len(g_sendBuffer') : g_sendBuffer'[n] = g_sendBuffer[n + k - 1]
    BY <1>1, <1>3, <1>t, ErasedQueue
  <2>3. L \in Nat /\ k \in 1..(L + 1)
    BY <1>1, <1>t DEF BeginsAt
  <2>4. TypeOK' /\ Spliceless(wire)'
    BY <1>t, <2>1, <2>2 DEF TypeOK, Spliceless
  <2>5. BeginsAt(g_sendBuffer', 1, made')
    <3>1. /\ \A n \in 1..(L + 1 - k) : n + k - 1 \in k..L
          /\ \A n \in 2..(L + 1 - k) : n + k - 1 \in (k + 1)..L
          /\ \A n, m \in 1..(L + 1 - k) : n < m => n + k - 1 < m + k - 1
      BY <2>3
    <3> HIDE DEF L
    <3>2. /\ \A i \in k..L : Rest(g_sendBuffer[i]) /\ g_sendBuffer[i][1].id <= made
          /\ \A i \in (k + 1)..L : g_sendBuffer[i][1].pos = 1
          /\ \A i, j \in k..L : i < j => g_sendBuffer[i][1].id < g_sendBuffer[j][1].id
      BY <1>1 DEF BeginsAt, L
    <3>3. \A i \in 1..(L + 1 - k) : Rest(g_sendBuffer'[i]) /\ g_sendBuffer'[i][1].id <= made
      BY <2>2, <3>1, <3>2
    <3>4. ASSUME NEW i \in 2..(L + 1 - k) PROVE g_sendBuffer'[i][1].pos = 1
      <4>1. i \in 1..Len(g_sendBuffer') /\ i + k - 1 \in (k + 1)..L
        BY <2>2, <2>3, <3>1 DEF L
      <4>2. g_sendBuffer'[i] = g_sendBuffer[i + k - 1]
        BY <2>2, <4>1
      <4> QED
        BY <3>2, <4>1, <4>2
    <3>5. \A i, j \in 1..(L + 1 - k) : i < j => g_sendBuffer'[i][1].id < g_sendBuffer'[j][1].id
      BY <2>2, <3>1, <3>2
    <3>6. Len(g_sendBuffer') = L + 1 - k /\ L + 1 - k \in Nat /\ made' = made
      BY <2>1, <2>2, <2>3 DEF L
    <3> DEFINE q == g_sendBuffer'
    <3> HIDE DEF q
    <3>7. /\ Len(q) = L + 1 - k
          /\ \A i \in 1..(L + 1 - k) : Rest(q[i]) /\ q[i][1].id <= made'
          /\ \A i \in 2..(L + 1 - k) : q[i][1].pos = 1
          /\ \A i, j \in 1..(L + 1 - k) : i < j => q[i][1].id < q[j][1].id
      BY <3>3, <3>4, <3>5, <3>6 DEF q
    <3>8. BeginsAt(q, 1, made')
      BY <3>6, <3>7 DEF BeginsAt
    <3> QED
      BY <3>8 DEF q
  <2>6. LoopPoint(1)'
    BY <2>1 DEF LoopPoint
  <2>7. Junction(1)'
    <3>1. 1 <= Len(g_sendBuffer') <=> k <= L
      BY <2>2, <2>3
    <3>2. k <= L => g_sendBuffer'[1] = g_sendBuffer[k]
      BY <2>2, <2>3
    <3>3. 1 > Len(g_sendBuffer') <=> k > L
      BY <2>2, <2>3
    <3> QED
      BY <1>1, <2>1, <3>1, <3>2, <3>3 DEF Junction, Meets
  <2> QED
    BY <2>4, <2>5, <2>6, <2>7 DEF IInv, QueueShape
<1> QED
  BY <1>2, <1>3

\* A Send takes the first n bytes of the buffer the queue begins at.
LEMMA SendStep == IInv /\ Send => IInv'
<1> SUFFICES ASSUME IInv, Send PROVE IInv'
  OBVIOUS
<1>1. PICK k \in Nat : BeginsAt(g_sendBuffer, k, made) /\ LoopPoint(k) /\ Junction(k)
  BY DEF IInv, QueueShape
<1> DEFINE q == g_sendBuffer
           b == q[pos]
<1>2. /\ pos \in 1..Len(q) /\ g_socket = "open" /\ k = pos
      /\ UNCHANGED <<g_socket, made, sessions>>
  BY <1>1 DEF Send, SendAll, SendSome, LoopPoint
<1>3. PICK n \in 1..Len(b), r \in Seq(Byte), next \in {pos + 1, Len(q) + 1} :
        /\ wire' = wire \o SubSeq(b, 1, n) /\ q' = [q EXCEPT ![pos] = r]
        /\ pos' = next
        /\ \/ n = Len(b) /\ r = <<>> /\ next = pos + 1
           \/ n < Len(b) /\ r = SubSeq(b, n + 1, Len(b)) /\ next = Len(q) + 1
  <2>1. b \in Seq(Byte) /\ Len(b) \in Nat \ {0}
    BY <1>1, <1>2 DEF BeginsAt, Rest
  <2>2. CASE SendAll
    <3>1. SubSeq(b, 1, Len(b)) = b /\ Len(b) \in 1..Len(b) /\ <<>> \in Seq(Byte)
      BY <2>1
    <3> QED
      BY <2>2, <3>1 DEF SendAll
  <2>3. CASE SendSome
    <3>1. PICK m \in 1..(Len(b) - 1) :
            /\ wire' = wire \o SubSeq(b, 1, m)
            /\ q' = [q EXCEPT ![pos] = SubSeq(b, m + 1, Len(b))]
      BY <2>3 DEF SendSome
    <3>2. SubSeq(b, m + 1, Len(b)) \in Seq(Byte) /\ m \in 1..Len(b) /\ m < Len(b)
      BY <2>1
    <3> QED
      BY <2>3, <3>1, <3>2 DEF SendSome
  <2> QED
    BY <2>2, <2>3 DEF Send
<1>4. /\ q \in Seq(Seq(Byte)) /\ Len(q) \in Nat /\ wire \in Seq(Byte) /\ made \in Nat
      /\ Spliceless(wire) /\ TypeOK
  BY BoundsAssumption DEF IInv, TypeOK
<1>5. Rest(b) /\ Meets(wire, b) /\ b[1].id <= made
  BY <1>1, <1>2 DEF BeginsAt, Junction
<1> HIDE DEF b
<1>6. /\ wire' \in Seq(Byte) /\ Len(wire') = Len(wire) + n
      /\ wire'[Len(wire')] = b[n] /\ Spliceless(wire')
  <2>1. LET v == wire \o SubSeq(b, 1, n)
        IN  /\ v \in Seq(Byte) /\ Len(v) = Len(wire) + n
            /\ v[Len(v)] = b[n] /\ Spliceless(v)
    BY <1>4, <1>5, SentSpliceless
  <2>2. wire' = wire \o SubSeq(b, 1, n)
    BY <1>3
  <2> QED
    BY <2>1, <2>2
<1>7. wire' # <<>>
  BY <1>4, <1>6
<1>8. /\ b[n].id = b[1].id /\ b[n].pos = b[1].pos + n - 1
      /\ Len(b) = LenOf(b[1].id) - b[1].pos + 1
  BY <1>5 DEF Rest
<1>9. b \in Seq(Byte) /\ b[1].pos \in Nat \ {0} /\ b[1].id \in Nat /\ LenOf(b[1].id) \in Int /\ n \in Int
  <2>1. b \in Seq(Byte) /\ b[1] \in Byte /\ Len(b) \in Nat
    BY <1>5 DEF Rest
  <2>2. b[1].pos \in Nat \ {0} /\ b[1].id \in Nat \ {0}
    BY <2>1, BoundsAssumption DEF Byte
  <2>3. LenOf(b[1].id) \in 1..MaxLen
    BY <2>2, MessageLength
  <2> QED
    BY <2>1, <2>2, <2>3, BoundsAssumption
<1>10. /\ q' \in Seq(Seq(Byte)) /\ Len(q') = Len(q) /\ q'[pos] = r
       /\ \A i \in 1..Len(q) : i # pos => q'[i] = q[i]
  BY <1>2, <1>3, <1>4
<1> HIDE DEF q
<1>11. TypeOK'
  <2>1. next \in 0..(Len(q) + 1)
    BY <1>2, <1>4
  <2> QED
    BY <1>2, <1>3, <1>4, <1>6, <1>10, <2>1 DEF TypeOK, q
<1>12. /\ \A i \in 1..(k - 1) : q[i] = <<>>
       /\ \A i \in k..Len(q) : Rest(q[i]) /\ q[i][1].id <= made
       /\ \A i \in (k + 1)..Len(q) : q[i][1].pos = 1
       /\ \A i, j \in k..Len(q) : i < j => q[i][1].id < q[j][1].id
  BY <1>1 DEF BeginsAt, q
<1>13. CASE n = Len(b) /\ r = <<>> /\ next = pos + 1
  <2>1. BeginsAt(q', k + 1, made')
    <3>1. k + 1 \in 1..(Len(q') + 1)
      BY <1>2, <1>10, <1>4
    <3>2. ASSUME NEW i \in 1..k PROVE q'[i] = <<>>
      <4>1. i # pos => i \in 1..(k - 1) /\ i \in 1..Len(q)
        <5>1. k \in Nat /\ k <= Len(q) /\ i \in Nat /\ 1 <= i /\ i <= k
          BY <1>2, <1>4
        <5> QED
          BY <5>1, <1>2, <1>4
      <4> QED
        BY <4>1, <1>10, <1>12, <1>13
    <3>3. \A i \in (k + 1)..Len(q) : q'[i] = q[i] /\ i \in k..Len(q)
      BY <1>2, <1>4, <1>10
    <3>4. \A i \in (k + 2)..Len(q) : i \in (k + 1)..Len(q)
      BY <1>2, <1>4
    <3>5. /\ \A i \in (k + 1)..Len(q') : Rest(q'[i]) /\ q'[i][1].id <= made'
          /\ \A i \in (k + 2)..Len(q') : q'[i][1].pos = 1
          /\ \A i, j \in (k + 1)..Len(q') : i < j => q'[i][1].id < q'[j][1].id
      <4>1. \A i \in (k + 1)..Len(q') : Rest(q'[i]) /\ q'[i][1].id <= made'
        BY <1>2, <1>10, <1>12, <3>3
      <4>2. \A i \in (k + 2)..Len(q') : q'[i][1].pos = 1
        BY <1>10, <1>12, <3>3, <3>4
      <4>3. \A i, j \in (k + 1)..Len(q') : i < j => q'[i][1].id < q'[j][1].id
        BY <1>10, <1>12, <3>3
      <4> QED
        BY <4>1, <4>2, <4>3
    <3>6. (k + 1) - 1 = k /\ (k + 1) + 1 = k + 2
      OBVIOUS
    <3> QED
      BY <3>1, <3>2, <3>5, <3>6 DEF BeginsAt
  <2>2. LoopPoint(k + 1)'
    BY <1>2, <1>3, <1>4, <1>10, <1>13 DEF LoopPoint, q
  <2>3. Junction(k + 1)'
    <3>1. wire'[Len(wire')].id = b[1].id /\ wire'[Len(wire')].pos = LenOf(b[1].id)
      BY <1>6, <1>8, <1>9, <1>13
    <3>2. k + 1 <= Len(q) =>
            q'[k + 1] = q[k + 1] /\ q[k + 1][1].pos = 1 /\ b[1].id < q[k + 1][1].id
      <4> SUFFICES ASSUME k + 1 <= Len(q)
                   PROVE  q'[k + 1] = q[k + 1] /\ q[k + 1][1].pos = 1 /\ b[1].id < q[k + 1][1].id
        OBVIOUS
      <4>1. k + 1 \in (k + 1)..Len(q) /\ k + 1 \in k..Len(q) /\ k \in k..Len(q) /\ k < k + 1
            /\ k + 1 \in 1..Len(q) /\ k + 1 # pos
        BY <1>2, <1>4
      <4> QED
        BY <4>1, <1>2, <1>10, <1>12 DEF b
    <3>3. CASE k + 1 <= Len(q)
      <4>1. Meets(wire', q'[k + 1])
        BY <3>1, <3>2, <3>3 DEF Meets
      <4>2. ~(k + 1 > Len(q)) /\ g_socket' = "open"
        BY <1>2, <1>4, <3>3
      <4> QED
        BY <1>2, <1>5, <1>10, <3>1, <4>1, <4>2 DEF Junction, q
    <3>4. CASE ~(k + 1 <= Len(q))
      BY <1>2, <1>5, <1>10, <3>1, <3>4 DEF Junction, q
    <3> QED
      BY <3>3, <3>4
  <2> QED
    BY <1>6, <1>11, <2>1, <2>2, <2>3 DEF IInv, QueueShape, q
<1>14. CASE n < Len(b) /\ r = SubSeq(b, n + 1, Len(b)) /\ next = Len(q) + 1
  <2>1. n \in 1..(Len(b) - 1)
    BY <1>9, <1>14
  <2>2. Rest(r) /\ r[1].id = b[1].id /\ r[1].pos = b[n].pos + 1
    BY <1>5, <1>14, <2>1, TailIsRest
  <2>3. BeginsAt(q', k, made')
    <3>1. k \in 1..(Len(q') + 1) /\ k \in k..Len(q)
      BY <1>2, <1>10, <1>4
    <3>2. ASSUME NEW i \in 1..(k - 1) PROVE q'[i] = <<>>
      <4>1. i \in 1..Len(q) /\ i # pos
        BY <1>2, <1>4
      <4> QED
        BY <4>1, <1>10, <1>12
    <3>3. \A i \in k..Len(q) : i # k => q'[i] = q[i]
      BY <1>2, <1>4, <1>10
    <3>4. \A i \in k..Len(q) : q'[i][1].id = q[i][1].id /\ Rest(q'[i])
      BY <1>2, <1>10, <1>12, <2>2, <3>1, <3>3 DEF b
    <3>5. \A i \in (k + 1)..Len(q) : i \in k..Len(q) /\ i # k
      BY <1>2, <1>4
    <3>6. \A i \in (k + 1)..Len(q) : q'[i][1].pos = 1
      BY <1>12, <3>3, <3>5
    <3>7. \A i \in k..Len(q') : Rest(q'[i]) /\ q'[i][1].id <= made'
      BY <1>2, <1>10, <1>12, <3>4
    <3>8. \A i \in (k + 1)..Len(q') : q'[i][1].pos = 1
      BY <1>10, <3>6
    <3>9. \A i, j \in k..Len(q') : i < j => q'[i][1].id < q'[j][1].id
      BY <1>10, <1>12, <3>4
    <3> QED
      BY <3>1, <3>2, <3>7, <3>8, <3>9 DEF BeginsAt
  <2>4. LoopPoint(k)'
    BY <1>2, <1>3, <1>4, <1>10, <1>14 DEF LoopPoint, q
  <2>5. Junction(k)'
    <3>1. wire'[Len(wire')].id = b[1].id /\ wire'[Len(wire')].pos = r[1].pos - 1
      BY <1>6, <1>8, <1>9, <2>2
    <3>2. r[1].pos > 1
      <4>1. r[1].pos = b[1].pos + n - 1 + 1
        BY <1>8, <2>2
      <4> QED
        BY <4>1, <1>9, <2>1
    <3>3. Meets(wire', q'[k])
      BY <1>2, <1>7, <1>10, <2>2, <3>1, <3>2 DEF Meets
    <3>4. k <= Len(q') /\ ~(k > Len(q')) /\ g_socket' = "open"
      BY <1>2, <1>4, <1>10
    <3> QED
      BY <1>2, <1>5, <3>1, <3>3, <3>4 DEF Junction, q
  <2> QED
    BY <1>6, <1>11, <2>3, <2>4, <2>5 DEF IInv, QueueShape, q
<1> QED
  BY <1>3, <1>13, <1>14

LEMMA InductiveStep == IInv /\ [Next]_vars => IInv'
<1>1. ASSUME IInv, UNCHANGED vars PROVE IInv'
  <2>1. UNCHANGED <<g_sendBuffer, pos, g_socket, wire, made, sessions>>
    BY <1>1 DEF vars
  <2>2. TypeOK' /\ Spliceless(wire)'
    BY <1>1, <2>1 DEF IInv, TypeOK
  <2>3. PICK k \in Nat : BeginsAt(g_sendBuffer, k, made) /\ LoopPoint(k) /\ Junction(k)
    BY <1>1 DEF IInv, QueueShape
  <2>4. BeginsAt(g_sendBuffer, k, made)' /\ LoopPoint(k)' /\ Junction(k)'
    BY <2>1, <2>3 DEF LoopPoint, Junction
  <2> QED
    BY <2>2, <2>4 DEF IInv, QueueShape
<1> QED
  BY <1>1, EnqueueStep, ConnectionStep, LoopStep, SendStep DEF Next

LEMMA Invariant == Spec => []IInv
  BY InitiallyInvariant, InductiveStep, PTL DEF Spec

-----------------------------------------------------------------------------
\* The loop of pump_outbound stays inside g_sendBuffer, for any queue.
THEOREM TypeCorrect == Spec => []TypeOK
<1>1. IInv => TypeOK
  BY DEF IInv
<1> QED
  BY <1>1, Invariant, PTL

\* Between two pumps no buffer is empty, and only the first can have been cut by
\* a partial Send.
THEOREM CutOnlyAtHead == Spec => []OnlyHeadIsCut
<1>1. IInv => OnlyHeadIsCut
  <2> SUFFICES ASSUME IInv, pos = 0, NEW i \in DOMAIN g_sendBuffer
               PROVE  g_sendBuffer[i] # <<>> /\ (i > 1 => g_sendBuffer[i][1].pos = 1)
    BY DEF OnlyHeadIsCut
  <2>1. BeginsAt(g_sendBuffer, 1, made) /\ g_sendBuffer \in Seq(Seq(Byte))
    BY DEF IInv, QueueShape, LoopPoint, TypeOK
  <2>2. i \in 1..Len(g_sendBuffer) /\ (i > 1 => i \in 2..Len(g_sendBuffer))
    BY <2>1
  <2>3. Rest(g_sendBuffer[i]) /\ (i > 1 => g_sendBuffer[i][1].pos = 1)
    BY <2>1, <2>2 DEF BeginsAt
  <2> QED
    BY <2>3 DEF Rest
<1> QED
  BY <1>1, Invariant, PTL

\* pump_outbound splices nothing ahead of an unsent tail: on every connection a
\* byte is followed by the next of its message or a newline by a later message.
THEOREM NothingSpliced == Spec => []NoSplice
<1>1. IInv => NoSplice
  BY DEF IInv, Spliceless, NoSplice
<1> QED
  BY <1>1, Invariant, PTL

-----------------------------------------------------------------------------
\* The buffers as one stream of bytes.

\* The first n bytes of b followed by c, and what is left.
LEMMA CutConcat ==
  ASSUME NEW T, NEW b \in Seq(T), NEW c \in Seq(T), NEW n \in 1..Len(b)
  PROVE  /\ SubSeq(b \o c, 1, n) = SubSeq(b, 1, n)
         /\ SubSeq(b \o c, n + 1, Len(b \o c)) = SubSeq(b, n + 1, Len(b)) \o c
<1>1. /\ Len(b) \in Nat /\ Len(c) \in Nat /\ n \in Nat /\ 1 <= n /\ n <= Len(b)
      /\ b \o c \in Seq(T) /\ Len(b \o c) = Len(b) + Len(c)
      /\ \A i \in 1..(Len(b) + Len(c)) :
           (b \o c)[i] = IF i <= Len(b) THEN b[i] ELSE c[i - Len(b)]
      /\ \A i \in 1..Len(b) : b[i] \in T
      /\ \A i \in 1..(Len(b) + Len(c)) : (b \o c)[i] \in T
  <2>1. Len(b) \in Nat /\ Len(c) \in Nat /\ \A i \in 1..Len(b) : b[i] \in T
    BY LenProperties, ElementOfSeq
  <2>2. /\ b \o c \in Seq(T) /\ Len(b \o c) = Len(b) + Len(c)
        /\ \A i \in 1..(Len(b) + Len(c)) :
             (b \o c)[i] = IF i <= Len(b) THEN b[i] ELSE c[i - Len(b)]
    BY ConcatProperties
  <2>3. \A i \in 1..(Len(b) + Len(c)) : (b \o c)[i] \in T
    BY <2>2, ElementOfSeq
  <2> QED
    BY <2>1, <2>2, <2>3
<1> DEFINE d == b \o c
<1> HIDE DEF d
<1>2. /\ d \in Seq(T) /\ Len(d) = Len(b) + Len(c)
      /\ \A i \in 1..(Len(b) + Len(c)) : d[i] = IF i <= Len(b) THEN b[i] ELSE c[i - Len(b)]
      /\ \A i \in 1..(Len(b) + Len(c)) : d[i] \in T
  BY <1>1 DEF d
<1>3. SubSeq(d, 1, n) = SubSeq(b, 1, n)
  <2>1. /\ SubSeq(d, 1, n) \in Seq(T) /\ Len(SubSeq(d, 1, n)) = n
        /\ \A i \in 1..n : SubSeq(d, 1, n)[i] = d[i]
    BY <1>1, <1>2, SubSeqProperties
  <2>2. /\ SubSeq(b, 1, n) \in Seq(T) /\ Len(SubSeq(b, 1, n)) = n
        /\ \A i \in 1..n : SubSeq(b, 1, n)[i] = b[i]
    BY <1>1, SubSeqProperties
  <2>3. \A i \in 1..n : d[i] = b[i]
    BY <1>1, <1>2
  <2> QED
    BY <2>1, <2>2, <2>3, SeqEqual
<1>4. SubSeq(d, n + 1, Len(d)) = SubSeq(b, n + 1, Len(b)) \o c
  <2> DEFINE e == SubSeq(b, n + 1, Len(b))
             x == SubSeq(d, n + 1, Len(d))
  <2>1. /\ e \in Seq(T) /\ Len(e) = Len(b) - n
        /\ \A i \in 1..(Len(b) - n) : e[i] = b[n + i]
    BY <1>1, SubSeqProperties
  <2>2. /\ x \in Seq(T) /\ Len(x) = Len(b) + Len(c) - n
        /\ \A i \in 1..(Len(b) + Len(c) - n) : x[i] = d[n + i]
    BY <1>1, <1>2, SubSeqProperties
  <2> HIDE DEF e, x
  <2>3. /\ e \o c \in Seq(T) /\ Len(e \o c) = Len(b) - n + Len(c)
        /\ \A i \in 1..(Len(b) - n + Len(c)) :
             (e \o c)[i] = IF i <= Len(b) - n THEN e[i] ELSE c[i - (Len(b) - n)]
    <3>1. /\ e \o c \in Seq(T) /\ Len(e \o c) = Len(e) + Len(c)
          /\ \A i \in 1..(Len(e) + Len(c)) :
               (e \o c)[i] = IF i <= Len(e) THEN e[i] ELSE c[i - Len(e)]
      BY <2>1, ConcatProperties
    <3> QED
      BY <2>1, <3>1
  <2> DEFINE y == e \o c
  <2> HIDE DEF y
  <2>4. ASSUME NEW i \in 1..Len(x) PROVE x[i] = y[i]
    <3>1. x[i] = d[n + i] /\ n + i \in 1..(Len(b) + Len(c))
      BY <1>1, <2>2
    <3>2. y[i] = IF i <= Len(b) - n THEN e[i] ELSE c[i - (Len(b) - n)]
      BY <1>1, <2>2, <2>3 DEF y
    <3>3. CASE i <= Len(b) - n
      <4>1. i \in 1..(Len(b) - n) /\ n + i <= Len(b)
        BY <1>1, <2>2, <3>3
      <4> QED
        BY <1>2, <2>1, <3>1, <3>2, <3>3, <4>1
    <3>4. CASE ~(i <= Len(b) - n)
      <4>1. ~(n + i <= Len(b)) /\ i - (Len(b) - n) = n + i - Len(b)
        BY <1>1, <2>2, <3>4
      <4> QED
        BY <1>2, <3>1, <3>2, <3>4, <4>1
    <3> QED
      BY <3>3, <3>4
  <2>5. y \in Seq(T) /\ Len(x) = Len(y)
    BY <1>1, <2>2, <2>3 DEF y
  <2>6. x = y
    BY <2>2, <2>4, <2>5, SeqEqual
  <2> QED
    BY <2>6 DEF x, y, e
<1> QED
  BY <1>3, <1>4 DEF d

\* What starts with the first byte of a message is all of it.
LEMMA RestFromStart ==
  ASSUME NEW b, Rest(b), b[1].pos = 1
  PROVE  b = BytesOf(b[1].id) /\ b[1].id \in 1..MaxMessages /\ Len(b) \in Nat \ {0}
<1>1. b \in Seq(Byte) /\ Len(b) \in Nat \ {0} /\ Len(b) = LenOf(b[1].id) - 1 + 1
  BY DEF Rest
<1>2. \A p \in 1..Len(b) : b[p] \in Byte
  BY <1>1, ElementOfSeq
<1>3. b[1] \in Byte
  BY <1>1, <1>2
<1>4. b[1].id \in 1..MaxMessages
  BY <1>3 DEF Byte
<1>5. LenOf(b[1].id) \in 1..MaxLen /\ MaxLen \in Nat
  BY <1>4, MessageLength, BoundsAssumption
<1>6. Len(b) = LenOf(b[1].id)
  BY <1>1, <1>5
<1>7. \A p \in 1..Len(b) : b[p].id = b[1].id /\ b[p].pos = p
  <2>1. \A p \in 1..Len(b) : b[p].id = b[1].id /\ b[p].pos = 1 + p - 1
    BY DEF Rest
  <2> QED
    BY <1>1, <2>1
<1>8. \A p \in 1..Len(b) : b[p] = [id |-> b[1].id, pos |-> p]
  BY <1>2, <1>7 DEF Byte
<1>9. BytesOf(b[1].id) \in Seq(Byte) /\ Len(BytesOf(b[1].id)) = LenOf(b[1].id)
  <2>1. LenOf(b[1].id) \in Nat /\ \A p \in 1..LenOf(b[1].id) : [id |-> b[1].id, pos |-> p] \in Byte
    BY <1>4, <1>5 DEF Byte
  <2> QED
    BY <2>1 DEF BytesOf
<1>10. \A p \in 1..LenOf(b[1].id) : BytesOf(b[1].id)[p] = [id |-> b[1].id, pos |-> p]
  BY DEF BytesOf
<1>11. b = BytesOf(b[1].id)
  BY <1>1, <1>6, <1>8, <1>9, <1>10, SeqEqual
<1> QED
  BY <1>1, <1>4, <1>11

LEMMA StreamInit == Init => Stream!Init
  BY FlattenEmpty DEF Init, Stream!Init

\* enqueue puts a whole message behind what waits.
LEMMA StreamAccepts == IInv /\ Enqueue => Stream!Accept
<1> SUFFICES ASSUME IInv, Enqueue PROVE Stream!Accept
  OBVIOUS
<1> DEFINE b == BytesOf(made + 1)
<1>1. /\ g_sendBuffer \in Seq(Seq(Byte)) /\ made + 1 \in 1..MaxMessages
      /\ made' = made + 1 /\ g_sendBuffer' = Append(g_sendBuffer, b) /\ wire' = wire
  BY BoundsAssumption DEF IInv, TypeOK, Enqueue
<1>2. b \in Seq(Byte)
  BY <1>1, WholeMessage DEF Rest
<1> HIDE DEF b
<1>3. FlattenSeq(g_sendBuffer') =
        IF g_sendBuffer = <<>> THEN b ELSE FlattenSeq(g_sendBuffer) \o b
  BY <1>1, <1>2, FlattenAppend
<1>4. <<>> \o b = b
  BY <1>2, ConcatEmptySeq
<1>5. FlattenSeq(g_sendBuffer)' = FlattenSeq(g_sendBuffer) \o b
  BY <1>3, <1>4, FlattenEmpty
<1> QED
  BY <1>1, <1>5 DEF Stream!Accept, Enqueue, b

\* A connection is made when the head of the queue is uncut.
LEMMA StreamReconnects == IInv /\ Connect => Stream!Reconnect
<1> SUFFICES ASSUME IInv, Connect PROVE Stream!Reconnect
  OBVIOUS
<1> DEFINE q == g_sendBuffer
<1>1. PICK k \in Nat : BeginsAt(q, k, made) /\ LoopPoint(k) /\ Junction(k)
  BY DEF IInv, QueueShape
<1>2. /\ g_socket = "none" /\ k = 1 /\ wire' = <<>> /\ q' = q /\ made' = made
      /\ g_socket' = "open"
      /\ q \in Seq(Seq(Byte)) /\ made \in Nat
  BY <1>1, BoundsAssumption DEF Connect, LoopPoint, IInv, TypeOK
<1>3. Stream!StartsWhole
  <2>1. CASE q = <<>>
    BY <2>1, FlattenEmpty DEF Stream!StartsWhole
  <2>2. CASE q # <<>>
    <3> DEFINE b == q[1]
               c == FlattenSeq(SubSeq(q, 1 + 1, Len(q)))
    <3>1. Len(q) \in Nat /\ 1 \in 1..Len(q)
      BY <1>2, <2>2, EmptySeq
    <3>2. Rest(b) /\ b[1].pos = 1 /\ b[1].id <= made
      BY <1>1, <1>2, <3>1 DEF BeginsAt, Junction
    <3>3. FlattenSeq(q) = b \o c
      <4>1. \A i \in 1..(1 - 1) : q[i] = <<>>
        OBVIOUS
      <4> QED
        BY <1>2, <3>1, <4>1, FlattenFrom
    <3>4. c \in Seq(Byte)
      <4>1. \A i \in (1 + 1)..Len(q) : q[i] \in Seq(Byte)
        BY <1>2, <3>1
      <4>2. SubSeq(q, 1 + 1, Len(q)) \in Seq(Seq(Byte))
        BY <3>1, <4>1, SubSeqProperties
      <4> QED
        BY <4>2, FlattenType
    <3>5. b \in Seq(Byte)
      BY <3>2 DEF Rest
    <3> HIDE DEF b, c, q
    <3>6. b = BytesOf(b[1].id) /\ b[1].id \in 1..MaxMessages /\ Len(b) \in Nat \ {0}
      BY <3>2, RestFromStart
    <3>7. SubSeq(b \o c, 1, Len(b)) = SubSeq(b, 1, Len(b)) /\ SubSeq(b, 1, Len(b)) = b
      <4>1. Len(b) \in 1..Len(b)
        BY <3>6
      <4> QED
        BY <3>4, <3>5, <4>1, CutConcat, SubSeqFull
    <3>8. Len(b) <= Len(b \o c)
      <4>1. Len(b \o c) = Len(b) + Len(c) /\ Len(c) \in Nat
        BY <3>4, <3>5, ConcatProperties, LenProperties
      <4> QED
        BY <3>6, <4>1
    <3> DEFINE id == b[1].id
               w == FlattenSeq(q)
    <3>9. id \in 1..made
      BY <1>2, <3>2, <3>6 DEF q
    <3>10. BytesOf(id) = b /\ w = b \o c
      BY <3>3, <3>6
    <3> HIDE DEF id, w
    <3>11. \E i \in 1..made : /\ Len(BytesOf(i)) <= Len(w)
                              /\ SubSeq(w, 1, Len(BytesOf(i))) = BytesOf(i)
      BY <3>7, <3>8, <3>9, <3>10
    <3> QED
      BY <3>11 DEF Stream!StartsWhole, w, q
  <2> QED
    BY <2>1, <2>2
<1> QED
  BY <1>2, <1>3 DEF Stream!Reconnect

\* close_socket drops what waits.
LEMMA StreamDrops == IInv /\ Clear => Stream!Drop
  BY FlattenEmpty DEF Clear, Stream!Drop

\* Send takes bytes off the front.
LEMMA StreamTransmits == IInv /\ Send => Stream!Transmit
<1> SUFFICES ASSUME IInv, Send PROVE Stream!Transmit
  OBVIOUS
<1>1. PICK k \in Nat : BeginsAt(g_sendBuffer, k, made) /\ LoopPoint(k) /\ Junction(k)
  BY DEF IInv, QueueShape
<1> DEFINE q == g_sendBuffer
           b == q[pos]
           u == SubSeq(q, pos + 1, Len(q))
           c == FlattenSeq(u)
<1>2. /\ pos \in 1..Len(q) /\ k = pos /\ q \in Seq(Seq(Byte)) /\ made' = made
      /\ Len(q) \in Nat
  BY <1>1 DEF Send, SendAll, SendSome, LoopPoint, IInv, TypeOK
<1>3. b \in Seq(Byte) /\ Len(b) \in Nat \ {0}
  BY <1>1, <1>2 DEF BeginsAt, Rest
<1>4. PICK n \in 1..Len(b) :
        /\ wire' = wire \o SubSeq(b, 1, n)
        /\ q' = [q EXCEPT ![pos] = SubSeq(b, n + 1, Len(b))]
  <2>1. CASE SendAll
    <3>1. /\ SubSeq(b, 1, Len(b)) = b /\ Len(b) \in 1..Len(b)
          /\ SubSeq(b, Len(b) + 1, Len(b)) = <<>>
      BY <1>3, SubSeqFull, SubSeqEmpty
    <3> QED
      BY <2>1, <3>1 DEF SendAll
  <2>2. CASE SendSome
    <3>1. PICK m \in 1..(Len(b) - 1) :
            /\ wire' = wire \o SubSeq(b, 1, m)
            /\ q' = [q EXCEPT ![pos] = SubSeq(b, m + 1, Len(b))]
      BY <2>2 DEF SendSome
    <3> HIDE DEF b
    <3>2. m \in 1..Len(b)
      BY <1>3
    <3> QED
      BY <3>1, <3>2
  <2> QED
    BY <2>1, <2>2 DEF Send
<1> DEFINE r == SubSeq(b, n + 1, Len(b))
<1>5. r \in Seq(Byte)
  <2>1. \A i \in (n + 1)..Len(b) : b[i] \in Byte
    BY <1>3
  <2> QED
    BY <1>3, <2>1, SubSeqProperties
<1>6. u \in Seq(Seq(Byte)) /\ c \in Seq(Byte)
  <2>1. \A i \in (pos + 1)..Len(q) : q[i] \in Seq(Byte)
    BY <1>2
  <2>2. u \in Seq(Seq(Byte))
    BY <1>2, <2>1, SubSeqProperties
  <2> QED
    BY <2>2, FlattenType
<1>7. \A i \in 1..(pos - 1) : q[i] = <<>>
  BY <1>1, <1>2 DEF BeginsAt
<1>8. FlattenSeq(q) = b \o c
  BY <1>2, <1>7, FlattenFrom
<1> HIDE DEF r, q
<1>9. /\ q' \in Seq(Seq(Byte)) /\ Len(q') = Len(q) /\ q'[pos] = r
      /\ \A i \in 1..Len(q) : i # pos => q'[i] = q[i]
  <2>1. q' = [q EXCEPT ![pos] = r]
    BY <1>4 DEF r
  <2> QED
    BY <1>2, <1>5, <2>1, ExceptSeq
<1>10. SubSeq(q', pos + 1, Len(q')) = u
  <2> DEFINE v == SubSeq(q', pos + 1, Len(q'))
  <2>1. \A i \in (pos + 1)..Len(q) : q'[i] = q[i] /\ q[i] \in Seq(Byte)
    BY <1>2, <1>9
  <2>2. /\ v \in Seq(Seq(Byte)) /\ Len(v) = (IF pos + 1 <= Len(q) THEN Len(q) - (pos + 1) + 1 ELSE 0)
        /\ \A i \in 1..(Len(q) - (pos + 1) + 1) : v[i] = q'[(pos + 1) + i - 1]
    BY <1>2, <1>9, <2>1, SubSeqProperties
  <2>3. /\ Len(u) = (IF pos + 1 <= Len(q) THEN Len(q) - (pos + 1) + 1 ELSE 0)
        /\ \A i \in 1..(Len(q) - (pos + 1) + 1) : u[i] = q[(pos + 1) + i - 1]
    BY <1>2, <2>1, SubSeqProperties
  <2> HIDE DEF u, v
  <2>4. ASSUME NEW i \in 1..Len(v) PROVE v[i] = u[i]
    <3>1. i \in 1..(Len(q) - (pos + 1) + 1) /\ (pos + 1) + i - 1 \in (pos + 1)..Len(q)
      BY <1>2, <2>2
    <3> QED
      BY <2>1, <2>2, <2>3, <3>1
  <2>5. v = u
    BY <1>6, <2>2, <2>3, <2>4, SeqEqual
  <2> QED
    BY <2>5 DEF v
<1>11. FlattenSeq(q') = r \o c
  <2>1. ASSUME NEW i \in 1..(pos - 1) PROVE q'[i] = <<>>
    <3>1. i \in 1..Len(q) /\ i # pos
      BY <1>2
    <3> QED
      BY <1>7, <1>9, <3>1
  <2>2. FlattenSeq(q') = q'[pos] \o FlattenSeq(SubSeq(q', pos + 1, Len(q')))
    BY <1>2, <1>9, <2>1, FlattenFrom
  <2> QED
    BY <1>9, <1>10, <2>2
<1> HIDE DEF b, c
<1> DEFINE w == FlattenSeq(q)
<1>12. /\ SubSeq(b \o c, 1, n) = SubSeq(b, 1, n)
       /\ SubSeq(b \o c, n + 1, Len(b \o c)) = SubSeq(b, n + 1, Len(b)) \o c
  BY <1>3, <1>6, CutConcat
<1>13. n \in 1..Len(b \o c)
  <2>1. Len(b \o c) = Len(b) + Len(c) /\ Len(c) \in Nat
    BY <1>3, <1>6, ConcatProperties, LenProperties
  <2> QED
    BY <1>3, <2>1
<1>14. n \in 1..Len(w) /\ wire' = wire \o SubSeq(w, 1, n) /\ w' = SubSeq(w, n + 1, Len(w))
  BY <1>4, <1>8, <1>11, <1>12, <1>13 DEF r
<1> QED
  BY <1>2, <1>14 DEF Stream!Transmit, Send, SendAll, SendSome, q

\* The close of the descriptor is the break of the link.
LEMMA StreamBreaks == Close => Stream!Break
  BY DEF Close, Stream!Break

\* Taking the lock, a Send that took nothing and the erase of emptied buffers
\* leave the stream as it is.
LEMMA StreamStutters ==
  IInv /\ (StartPump \/ SendNothing \/ EndPump) => UNCHANGED Stream!vars
<1> SUFFICES ASSUME IInv, StartPump \/ SendNothing \/ EndPump
             PROVE  UNCHANGED Stream!vars
  OBVIOUS
<1>1. CASE StartPump \/ SendNothing
  BY <1>1 DEF StartPump, SendNothing, Stream!vars
<1>2. CASE EndPump
  <2> DEFINE q == g_sendBuffer
             L == Len(q)
  <2>1. PICK k \in Nat : BeginsAt(g_sendBuffer, k, made) /\ LoopPoint(k) /\ Junction(k)
    BY DEF IInv, QueueShape
  <2>2. /\ q' \in Seq(Seq(Byte)) /\ Len(q') = L + 1 - k
        /\ \A n \in 1..Len(q') : q'[n] = q[n + k - 1]
    BY <1>2, <2>1, ErasedQueue DEF IInv
  <2>3. /\ q \in Seq(Seq(Byte)) /\ L \in Nat /\ k \in 1..(L + 1)
        /\ \A i \in 1..(k - 1) : q[i] = <<>>
    BY <2>1 DEF IInv, TypeOK, BeginsAt
  <2> HIDE DEF q
  <2> DEFINE u == SubSeq(q, k, L)
  <2>4. /\ u \in Seq(Seq(Byte)) /\ Len(u) = (IF k <= L THEN L - k + 1 ELSE 0)
        /\ \A i \in 1..(L - k + 1) : u[i] = q[k + i - 1]
    <3>1. \A i \in k..L : q[i] \in Seq(Byte)
      BY <2>3
    <3>2. k \in Int /\ L \in Int
      BY <2>3
    <3> HIDE DEF L
    <3>3. /\ u \in Seq(Seq(Byte)) /\ Len(u) = (IF k <= L THEN L - k + 1 ELSE 0)
          /\ \A i \in 1..(L - k + 1) : u[i] = q[k + i - 1]
      BY <3>1, <3>2, SubSeqProperties
    <3> QED
      BY <3>3
  <2> DEFINE v == q'
  <2> HIDE DEF u, v, L
  <2>5. v = u
    <3>1. Len(v) = Len(u)
      BY <2>2, <2>3, <2>4 DEF v
    <3>2. ASSUME NEW i \in 1..Len(v) PROVE v[i] = u[i]
      <4>1. v[i] = q[i + k - 1]
        BY <2>2 DEF v
      <4>2. i \in 1..(L - k + 1) /\ i + k - 1 = k + i - 1
        BY <2>2, <2>3 DEF v
      <4> QED
        BY <2>4, <4>1, <4>2
    <3> QED
      BY <2>2, <2>4, <3>1, <3>2, SeqEqual DEF v
  <2>6. FlattenSeq(q) = FlattenSeq(u)
    BY <2>3, FlattenSuffix DEF u, L
  <2>7. FlattenSeq(q') = FlattenSeq(q)
    BY <2>5, <2>6 DEF v
  <2> QED
    BY <1>2, <2>7 DEF EndPump, Stream!vars, q
<1> QED
  BY <1>1, <1>2

\* g_sendBuffer with pump_outbound's partial sends, its late erase and the clear
\* of close_socket is a first-in first-out byte stream, for messages of any
\* length: no byte is repeated or reordered, none is lost but by the one clear
\* behind each close, and a connection begins with a whole message.
THEOREM SendQueueIsAStream == Spec => ImplementsStream
<1>1. IInv /\ [Next]_vars => [Stream!Next]_(Stream!vars)
  <2> SUFFICES ASSUME IInv, [Next]_vars PROVE [Stream!Next]_(Stream!vars)
    OBVIOUS
  <2>1. CASE Next
    BY <2>1, StreamAccepts, StreamReconnects, StreamDrops, StreamTransmits, StreamBreaks,
       StreamStutters
    DEF Next, Stream!Next
  <2>2. CASE UNCHANGED vars
    BY <2>2 DEF vars, Stream!vars
  <2> QED
    BY <2>1, <2>2
<1> QED
  BY <1>1, StreamInit, Invariant, PTL DEF Spec, ImplementsStream, Stream!Spec
=============================================================================
