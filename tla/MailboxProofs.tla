---------------------------- MODULE MailboxProofs ----------------------------
(***************************************************************************)
(* What crosses the mailbox and the send queue, for every number of        *)
(* connections, commands, pushes and errors.  Two invariants: what the     *)
(* game thread has in hand when a connection ends is all that can reach a  *)
(* later one, and what it takes and answers on a connection comes from     *)
(* lines of that connection.                                               *)
(***************************************************************************)
EXTENDS RemoteApiProofs, FiniteSetTheorems

USE DEF workerLocals, connection, mailbox, sendQueue, pcSide, inputs, engine,
        histories, gameSide, workerSide, switchSide, NoSocket, NoCommand

PushKinds == {"push", "layout_uuid"}

\* The game thread holds a command it has not answered yet, or will take one.
Reading == gpc \in {"readLen", "readSeq", "loadSrc", "run"}
InHand  == Reading \/ (gpc = "idle" /\ g_readyForGameThread)

StaleOf(q, kinds, s) == {i \in DOMAIN q : q[i].t \in kinds /\ q[i].born # s}
KindOf(q, kinds)     == {i \in DOMAIN q : q[i].t \in kinds}

\* At most one of S, and none when the one there can be is still held.
AtMostOne(S, held) == (\A i, j \in S : i = j) /\ (held => S = {})

\* No connection, and close_socket has cleared the queue since the last one.
Detached == ~g_socketConnected /\ wpc \notin {"closeFd", "closeClear"}

\* Nothing comes from a later connection than the last.
BornBefore(s) ==
  /\ \A i \in DOMAIN Queued : Queued[i].born <= s
  /\ gcmd.session <= s /\ gpush.born <= s

StaleInv ==
  /\ BornBefore(session)
  /\ gpush # NoPush => gpush.t \in PushKinds
  /\ AtMostOne(StaleOf(Queued, {"reply"}, session),
               Reading /\ gcmd.session # session)
  /\ AtMostOne(StaleOf(Queued, PushKinds, session),
               gpush # NoPush /\ gpush.born # session)
  /\ Detached => /\ AtMostOne(KindOf(g_sendBuffer, {"reply"}), InHand)
                 /\ AtMostOne(KindOf(g_sendBuffer, PushKinds), gpush # NoPush)


\* What a message added to a queue adds to the places counted above.
LEMMA AppendPlaces ==
  ASSUME NEW q \in Seq(Message), NEW m \in Message, NEW kinds, NEW s
  PROVE  /\ StaleOf(Append(q, m), kinds, s)
              \subseteq StaleOf(q, kinds, s) \cup {Len(q) + 1}
         /\ m.t \notin kinds \/ m.born = s =>
              StaleOf(Append(q, m), kinds, s) = StaleOf(q, kinds, s)
         /\ KindOf(Append(q, m), kinds) \subseteq KindOf(q, kinds) \cup {Len(q) + 1}
         /\ m.t \notin kinds => KindOf(Append(q, m), kinds) = KindOf(q, kinds)
<1>1. /\ DOMAIN Append(q, m) = 1..(Len(q) + 1) /\ DOMAIN q = 1..Len(q)
      /\ Len(q) \in Nat
      /\ \A i \in 1..Len(q) : Append(q, m)[i] = q[i]
      /\ Append(q, m)[Len(q) + 1] = m
  BY AppendProperties
<1>2. \A i \in 1..(Len(q) + 1) : i \in 1..Len(q) \/ i = Len(q) + 1
  BY <1>1
<1>3. 1..Len(q) \subseteq 1..(Len(q) + 1)
  BY <1>1
<1> QED
  BY <1>1, <1>2, <1>3, Zenon DEF StaleOf, KindOf

\* The one there can be is no longer held and is now in the queue.
LEMMA HandedOver ==
  ASSUME NEW S, NEW T, NEW x, AtMostOne(S, TRUE), T \subseteq S \cup {x}
  PROVE  AtMostOne(T, FALSE)
BY DEF AtMostOne

\* What a connection still had in the queue is all that is stale in the next.
LEMMA StaleAfterConnect ==
  ASSUME NEW q \in Seq(Message), NEW kinds, NEW s
  PROVE  StaleOf(q, kinds, s) \subseteq KindOf(q, kinds)
BY DEF StaleOf, KindOf

LEMMA PrefixStale ==
  ASSUME NEW w \in Seq(Message), NEW q \in Seq(Message), NEW kinds, NEW s
  PROVE  /\ StaleOf(w, kinds, s) \subseteq StaleOf(w \o q, kinds, s)
         /\ DOMAIN w \subseteq DOMAIN (w \o q)
         /\ \A i \in DOMAIN w : (w \o q)[i] = w[i]
<1>1. /\ DOMAIN w = 1..Len(w) /\ DOMAIN (w \o q) = 1..(Len(w) + Len(q))
      /\ Len(w) \in Nat /\ Len(q) \in Nat
      /\ \A i \in 1..Len(w) : (w \o q)[i] = w[i]
  BY ConcatProperties
<1>2. 1..Len(w) \subseteq 1..(Len(w) + Len(q))
  BY <1>1
<1> QED
  BY <1>1, <1>2 DEF StaleOf

LEMMA SuffixKind ==
  ASSUME NEW q \in Seq(Message), NEW k \in 0..Len(q), NEW kinds, NEW held,
         AtMostOne(KindOf(q, kinds), held)
  PROVE  AtMostOne(KindOf(SubSeq(q, k + 1, Len(q)), kinds), held)
<1> DEFINE r == SubSeq(q, k + 1, Len(q))
<1>1. /\ DOMAIN r = 1..(Len(q) - k) /\ Len(q) \in Nat /\ DOMAIN q = 1..Len(q)
      /\ \A i \in 1..(Len(q) - k) : r[i] = q[i + k]
  OBVIOUS
<1> HIDE DEF r
<1>2. \A i \in KindOf(r, kinds) : i \in Int /\ i + k \in KindOf(q, kinds)
  BY <1>1 DEF KindOf
<1>3. \A i, j \in KindOf(r, kinds) : i = j
  <2> SUFFICES ASSUME NEW i \in KindOf(r, kinds), NEW j \in KindOf(r, kinds)
               PROVE  i = j
    OBVIOUS
  <2>1. i + k = j + k
    BY <1>2 DEF AtMostOne
  <2> QED
    BY <1>2, <2>1
<1>4. held => KindOf(r, kinds) = {}
  BY <1>2 DEF AtMostOne
<1> QED
  BY <1>3, <1>4 DEF AtMostOne, r

\* A quiet step takes nothing into the game thread's hands that was made for an
\* earlier connection, and on a dead one nothing at all.
LEMMA QuietHands ==
  ASSUME IInv, BornBefore(session), gpush # NoPush => gpush.t \in PushKinds, Quiet
  PROVE  /\ gcmd'.session <= session /\ gpush'.born <= session
         /\ gpush' # NoPush => gpush'.t \in PushKinds
         /\ Reading' /\ gcmd'.session # session => Reading /\ gcmd.session # session
         /\ gpush' # NoPush /\ gpush'.born # session =>
              gpush # NoPush /\ gpush.born # session
         /\ Detached' => /\ Detached
                         /\ InHand' => InHand
                         /\ gpush' # NoPush => gpush # NoPush
<1>t. /\ session \in Nat /\ gcmd \in Command /\ gcmd.session <= session
      /\ gpush.born <= session
  BY DEF IInv, TypeOK, BornBefore
<1>d. Detached' => Detached
  BY QuietStep DEF Detached
<1>1. CASE /\ UNCHANGED <<gpc, gcmd, gpush>>
           /\ Detached' => (g_readyForGameThread' => g_readyForGameThread)
  BY <1>1, <1>t, <1>d DEF Reading, InHand
<1>2. CASE PrepareThread \/ Sleep \/ PollClosed \/ PollIn
  BY <1>2, <1>1 DEF PrepareThread, Sleep, PollClosed, PollIn
<1>3. CASE \/ ResolveFail \/ Resolve \/ ConnectFail \/ LeaveLoop
           \/ PollTimeout \/ NoMoreLines \/ GiveUp \/ GiveUpBehindSource
  BY <1>3, <1>1 DEF ResolveFail, Resolve, ConnectFail, LeaveLoop, PollTimeout,
                    NoMoreLines, GiveUp, GiveUpBehindSource, OnlyWorkerPc
<1>4. CASE DispatchHelloAck \/ DispatchKick \/ DispatchLuaExec
  BY <1>4, <1>1 DEF DispatchHelloAck, DispatchKick, DispatchLuaExec
<1>5. CASE StashSrc \/ StashLen \/ StashSeq \/ CloseReady
  BY <1>5, <1>1 DEF StashSrc, StashLen, StashSeq, CloseReady
<1>6. CASE RaiseReady
  <2>1. g_socketConnected'
    BY <1>6 DEF RaiseReady, IInv, WorkerPoint, Connected
  <2> QED
    BY <1>6, <1>1, <2>1 DEF RaiseReady, Detached
<1>7. CASE StartWorker \/ ScheduleAgain
  BY <1>7, <1>1 DEF StartWorker, ScheduleAgain
<1>8. CASE TakeCommand
  <2>1. /\ gcmd'.session = session /\ gpush' = gpush /\ InHand
        /\ UNCHANGED <<wpc, g_socketConnected, session>>
    BY <1>8 DEF TakeCommand, NothingRead, InHand
  <2> QED
    BY <2>1, <1>t, <1>d
<1>9. CASE ReadLen \/ ReadSeq \/ LoadSrc
  <2>1. /\ gcmd'.session = gcmd.session /\ gpush' = gpush /\ Reading /\ InHand
    BY <1>9, <1>t DEF ReadLen, ReadSeq, LoadSrc, Command, Reading, InHand
  <2> QED
    BY <2>1, <1>t, <1>d
<1>10. CASE TostringError \/ ClearReady
  <2>1. /\ gcmd'.session = 0 /\ gpush' = gpush /\ ~Reading'
        /\ InHand' => InHand
    BY <1>10 DEF TostringError, ClearReady, NothingRead, Reading, InHand
  <2> QED
    BY <2>1, <1>t, <1>d
<1>11. CASE \E kind \in {"layout_uuid", "push"} : CheckPush(kind)
  <2>1. /\ UNCHANGED <<gpc, gcmd, g_readyForGameThread>> /\ g_socketConnected'
        /\ gpush'.born = session /\ gpush'.t \in PushKinds
    BY <1>11 DEF CheckPush, Plain, PushKinds
  <2> QED
    BY <2>1, <1>t, <1>d DEF Detached, Reading
<1>12. CASE Pc
  <2>1. UNCHANGED <<gpc, gcmd, gpush, g_readyForGameThread>>
    BY <1>12 DEF Pc, PcSendLuaExec, PcSendLine
  <2> QED
    BY <2>1, <1>1
<1>13. CASE UNCHANGED vars
  BY <1>13, <1>1 DEF vars
<1> QED
  BY <1>2, <1>3, <1>4, <1>5, <1>6, <1>7, <1>8, <1>9, <1>10, <1>11, <1>12, <1>13
     DEF Quiet

LEMMA StaleStep == IInv /\ StaleInv /\ [Next]_vars => StaleInv'
<1> SUFFICES ASSUME IInv, StaleInv, [Next]_vars PROVE StaleInv'
  OBVIOUS
<1>0. /\ g_sendBuffer \in Seq(Message) /\ wire \in Seq(Message)
      /\ wire \o g_sendBuffer \in Seq(Message) /\ Queued \in Seq(Message)
      /\ session \in Nat /\ gcmd \in Command /\ gpush \in Message
  BY ConcatProperties DEF IInv, TypeOK, Queued
<1>s. /\ BornBefore(session)
      /\ gpush # NoPush => gpush.t \in PushKinds
      /\ AtMostOne(StaleOf(Queued, {"reply"}, session),
                   Reading /\ gcmd.session # session)
      /\ AtMostOne(StaleOf(Queued, PushKinds, session),
                   gpush # NoPush /\ gpush.born # session)
      /\ Detached => /\ AtMostOne(KindOf(g_sendBuffer, {"reply"}), InHand)
                     /\ AtMostOne(KindOf(g_sendBuffer, PushKinds), gpush # NoPush)
  BY DEF StaleInv
<1>1. CASE Quiet
  <2>1. UNCHANGED <<wire, g_sendBuffer, session>>
    BY <1>1, QuietStep
  <2>2. Queued' = Queued
    BY <2>1 DEF Queued
  <2>3. BornBefore(session)'
    BY <1>1, <1>s, <2>1, <2>2, QuietHands DEF BornBefore
  <2> QED
    BY <1>1, <1>s, <2>1, <2>2, <2>3, QuietHands DEF StaleInv, AtMostOne
<1>2. ASSUME NEW m \in Message, m.born <= session,
             g_sendBuffer' = Append(g_sendBuffer, m), wire' = wire,
             session' = session
      PROVE  /\ Queued' = Append(Queued, m)
             /\ \A i \in DOMAIN Queued' : Queued'[i].born <= session'
  <2>1. Queued' = Append(Queued, m)
    BY <1>0, <1>2, AppendQueued DEF Queued
  <2>2. \A i \in DOMAIN Append(Queued, m) :
           \/ i \in DOMAIN Queued /\ Append(Queued, m)[i] = Queued[i]
           \/ Append(Queued, m)[i] = m
    BY <1>0
  <2> QED
    BY <1>2, <1>s, <2>1, <2>2 DEF BornBefore
<1>3. CASE EnqueueReply
  <2> DEFINE m == [t |-> "reply", born |-> gcmd.session, seq |-> gcmd.seq,
                   src |-> gcmd.src]
  <2>1. /\ m \in Message /\ m.t = "reply" /\ m.born = gcmd.session
        /\ m.t \notin PushKinds /\ m.born <= session
    BY <1>0, <1>s DEF Message, Command, GameKinds, PushKinds, BornBefore
  <2>2. /\ g_sendBuffer' = Append(g_sendBuffer, m) /\ Reading /\ InHand
        /\ gpc' = "clearReady" /\ gpush = NoPush
        /\ UNCHANGED <<wpc, wire, session, g_socketConnected, gcmd, gpush>>
    BY <1>3 DEF EnqueueReply, Enqueue, Reading, InHand
  <2> HIDE DEF m
  <2>3. ~Reading' /\ ~InHand'
    BY <2>2 DEF Reading, InHand
  <2>4. Queued' = Append(Queued, m) /\ BornBefore(session)'
    BY <1>2, <1>s, <2>1, <2>2 DEF BornBefore
  <2>5. AtMostOne(StaleOf(Queued', {"reply"}, session), FALSE)
    <3>1. CASE gcmd.session = session
      BY <3>1, <1>0, <1>s, <2>1, <2>4, AppendPlaces DEF AtMostOne
    <3>2. CASE gcmd.session # session
      BY <3>2, <1>0, <1>s, <2>1, <2>2, <2>4, AppendPlaces, HandedOver
    <3> QED
      BY <3>1, <3>2
  <2>6. StaleOf(Queued', PushKinds, session) = StaleOf(Queued, PushKinds, session)
    BY <1>0, <2>1, <2>4, AppendPlaces
  <2>7. Detached => AtMostOne(KindOf(g_sendBuffer', {"reply"}), FALSE)
    <3>1. KindOf(g_sendBuffer', {"reply"})
            \subseteq KindOf(g_sendBuffer, {"reply"}) \cup {Len(g_sendBuffer) + 1}
      BY <1>0, <2>1, <2>2, AppendPlaces
    <3>2. Detached => AtMostOne(KindOf(g_sendBuffer, {"reply"}), TRUE)
      BY <1>s, <2>2
    <3> QED
      BY <3>1, <3>2, HandedOver
  <2>8. KindOf(g_sendBuffer', PushKinds) = KindOf(g_sendBuffer, PushKinds)
    BY <1>0, <2>1, <2>2, AppendPlaces
  <2>9. Detached' => Detached
    BY <2>2 DEF Detached
  <2> QED
    BY <1>s, <2>2, <2>3, <2>4, <2>5, <2>6, <2>7, <2>8, <2>9 DEF StaleInv, AtMostOne
<1>4. CASE EnqueuePush
  <2> DEFINE m == gpush
  <2>1. /\ m \in Message /\ m.t \in PushKinds /\ m.t \notin {"reply"}
        /\ m.born <= session
    BY <1>0, <1>s, <1>4 DEF EnqueuePush, PushKinds, BornBefore
  <2>2. /\ g_sendBuffer' = Append(g_sendBuffer, m) /\ gpush # NoPush
        /\ gpush' = NoPush /\ gpush'.born = 0
        /\ UNCHANGED <<wpc, wire, session, g_socketConnected, gcmd, gpc,
                       g_readyForGameThread>>
    BY <1>4 DEF EnqueuePush, Enqueue, NoPush, Plain
  <2>3. Queued' = Append(Queued, m) /\ BornBefore(session)'
    BY <1>0, <1>2, <1>s, <2>1, <2>2 DEF BornBefore
  <2>4. AtMostOne(StaleOf(Queued', PushKinds, session), FALSE)
    <3>1. CASE m.born = session
      BY <3>1, <1>0, <1>s, <2>1, <2>3, AppendPlaces DEF AtMostOne
    <3>2. CASE m.born # session
      BY <3>2, <1>0, <1>s, <2>1, <2>2, <2>3, AppendPlaces, HandedOver
    <3> QED
      BY <3>1, <3>2
  <2>5. StaleOf(Queued', {"reply"}, session) = StaleOf(Queued, {"reply"}, session)
    BY <1>0, <2>1, <2>3, AppendPlaces
  <2>6. Detached => AtMostOne(KindOf(g_sendBuffer', PushKinds), FALSE)
    <3>1. KindOf(g_sendBuffer', PushKinds)
            \subseteq KindOf(g_sendBuffer, PushKinds) \cup {Len(g_sendBuffer) + 1}
      BY <1>0, <2>1, <2>2, AppendPlaces
    <3>2. Detached => AtMostOne(KindOf(g_sendBuffer, PushKinds), TRUE)
      BY <1>s, <2>2
    <3> QED
      BY <3>1, <3>2, HandedOver
  <2>7. KindOf(g_sendBuffer', {"reply"}) = KindOf(g_sendBuffer, {"reply"})
    <3>1. KindOf(Append(g_sendBuffer, m), {"reply"}) = KindOf(g_sendBuffer, {"reply"})
      BY <1>0, <2>1, AppendPlaces
    <3> QED
      BY <2>2, <3>1
  <2>8. /\ Detached' => Detached
        /\ InHand' = InHand /\ Reading' = Reading
    BY <2>2 DEF Detached, InHand, Reading
  <2> QED
    BY <1>s, <2>2, <2>3, <2>4, <2>5, <2>6, <2>7, <2>8 DEF StaleInv, AtMostOne
<1>5. ASSUME NEW m \in Message, m.t \in WorkerKinds, m.born = session,
             g_sendBuffer' = Append(g_sendBuffer, m), g_socketConnected',
             UNCHANGED <<wire, session, gpc, gcmd, gpush>>
      PROVE  StaleInv'
  <2>1. m.t \notin {"reply"} /\ m.t \notin PushKinds
    BY <1>5 DEF WorkerKinds, PushKinds
  <2>2. Queued' = Append(Queued, m) /\ BornBefore(session)'
    BY <1>0, <1>2, <1>5, <1>s DEF BornBefore
  <2>3. /\ StaleOf(Queued', {"reply"}, session) = StaleOf(Queued, {"reply"}, session)
        /\ StaleOf(Queued', PushKinds, session) = StaleOf(Queued, PushKinds, session)
    BY <1>0, <2>1, <2>2, AppendPlaces
  <2>4. ~Detached' /\ Reading' = Reading
    BY <1>5 DEF Detached, Reading
  <2> QED
    BY <1>5, <1>s, <2>2, <2>3, <2>4 DEF StaleInv
<1>6. CASE SendHello
  <2> DEFINE m == Plain("hello", session)
  <2>1. m \in Message /\ m.t \in WorkerKinds /\ m.born = session
    BY <1>0 DEF Plain, Message, GameKinds, WorkerKinds
  <2>2. /\ g_sendBuffer' = Append(g_sendBuffer, m) /\ g_socketConnected'
        /\ UNCHANGED <<wire, session, gpc, gcmd, gpush>>
    BY <1>6 DEF SendHello, Enqueue, IInv, WorkerPoint, Connected
  <2> QED
    BY <1>5, <2>1, <2>2
<1>7. CASE DispatchPing
  <2> DEFINE m == Plain("pong", session)
  <2>1. m \in Message /\ m.t \in WorkerKinds /\ m.born = session
    BY <1>0 DEF Plain, Message, GameKinds, WorkerKinds
  <2>2. /\ g_sendBuffer' = Append(g_sendBuffer, m) /\ g_socketConnected'
        /\ UNCHANGED <<wire, session, gpc, gcmd, gpush>>
    BY <1>7 DEF DispatchPing, PopLine, Enqueue, IInv, WorkerPoint, Closing
  <2> QED
    BY <1>5, <2>1, <2>2
<1>8. CASE PumpOutbound
  <2>1. PICK k \in 0..Len(g_sendBuffer) :
          /\ wire' = wire \o SubSeq(g_sendBuffer, 1, k)
          /\ g_sendBuffer' = SubSeq(g_sendBuffer, k + 1, Len(g_sendBuffer))
    BY <1>8 DEF PumpOutbound
  <2>2. /\ wpc = "pump" /\ wpc' = "poll"
        /\ UNCHANGED <<session, g_socketConnected, gpc, gcmd, gpush,
                       g_readyForGameThread>>
    BY <1>8 DEF PumpOutbound
  <2>3. Queued' = Queued
    BY <1>0, <2>1, PumpKeepsQueued DEF Queued
  <2>4. /\ Detached' => Detached
        /\ InHand' = InHand /\ Reading' = Reading
    BY <2>2 DEF Detached, InHand, Reading
  <2>5. Detached => /\ AtMostOne(KindOf(g_sendBuffer', {"reply"}), InHand)
                    /\ AtMostOne(KindOf(g_sendBuffer', PushKinds), gpush # NoPush)
    BY <1>0, <1>s, <2>1, SuffixKind
  <2>6. BornBefore(session)'
    BY <1>s, <2>2, <2>3 DEF BornBefore
  <2> QED
    BY <1>s, <2>2, <2>3, <2>4, <2>5, <2>6 DEF StaleInv
<1>9. CASE Connect
  <2>1. /\ wire' = <<>> /\ g_sendBuffer' = g_sendBuffer /\ session' = session + 1
        /\ Detached /\ Detached'
        /\ UNCHANGED <<gpc, gcmd, gpush, g_readyForGameThread>>
    BY <1>9 DEF Connect, IInv, WorkerPoint, Unconnected, Detached
  <2>2. Queued' = g_sendBuffer
    BY <1>0, <2>1, ConcatEmptySeq DEF Queued
  <2>3. \A i \in DOMAIN g_sendBuffer : g_sendBuffer[i].born <= session
    <3>1. /\ DOMAIN g_sendBuffer = 1..Len(g_sendBuffer) /\ Len(wire) \in Nat
          /\ DOMAIN Queued = 1..(Len(wire) + Len(g_sendBuffer))
          /\ \A i \in 1..Len(g_sendBuffer) :
               Queued[Len(wire) + i] = g_sendBuffer[i]
      BY <1>0 DEF Queued
    <3>2. \A i \in 1..Len(g_sendBuffer) :
             Len(wire) + i \in 1..(Len(wire) + Len(g_sendBuffer))
      BY <1>0
    <3> QED
      BY <1>s, <3>1, <3>2 DEF BornBefore
  <2>4. BornBefore(session)'
    <3>1. \A i \in DOMAIN g_sendBuffer : g_sendBuffer[i].born \in Nat
      <4>1. \A i \in DOMAIN g_sendBuffer : g_sendBuffer[i] \in Message
        BY <1>0
      <4> QED
        BY <4>1 DEF Message
    <3>2. gcmd.session \in Nat /\ gpush.born \in Nat
      BY <1>0 DEF Message, Command
    <3>3. \A n \in Nat : n <= session => n <= session + 1
      BY <1>0
    <3> QED
      BY <1>s, <2>1, <2>2, <2>3, <3>1, <3>2, <3>3 DEF BornBefore
  <2>5. /\ StaleOf(Queued', {"reply"}, session') \subseteq KindOf(g_sendBuffer, {"reply"})
        /\ StaleOf(Queued', PushKinds, session') \subseteq KindOf(g_sendBuffer, PushKinds)
    BY <1>0, <2>2, StaleAfterConnect
  <2>6. (Reading' => InHand) /\ InHand' = InHand
    BY <2>1 DEF Reading, InHand
  <2> QED
    BY <1>s, <2>1, <2>4, <2>5, <2>6 DEF StaleInv, AtMostOne
<1>12. CASE RaiseConnected
  <2>1. /\ UNCHANGED <<wire, g_sendBuffer, session, gpc, gcmd, gpush>>
        /\ g_socketConnected'
    BY <1>12 DEF RaiseConnected
  <2>2. Queued' = Queued /\ Reading' = Reading /\ ~Detached'
    BY <2>1 DEF Queued, Reading, Detached
  <2>3. BornBefore(session)'
    BY <1>s, <2>1, <2>2 DEF BornBefore
  <2> QED
    BY <1>s, <2>1, <2>2, <2>3 DEF StaleInv
<1>10. CASE CloseFlag \/ CloseFd
  <2>1. /\ UNCHANGED <<wire, g_sendBuffer, session, gpc, gcmd, gpush,
                       g_readyForGameThread>>
        /\ wpc' \in {"closeFd", "closeClear"}
    BY <1>10 DEF CloseFlag, CloseFd
  <2>2. Queued' = Queued /\ Reading' = Reading /\ ~Detached'
    BY <2>1 DEF Queued, Reading, Detached
  <2>3. BornBefore(session)'
    BY <1>s, <2>1, <2>2 DEF BornBefore
  <2> QED
    BY <1>s, <2>1, <2>2, <2>3 DEF StaleInv
<1>11. CASE CloseClear
  <2>1. /\ g_sendBuffer' = <<>>
        /\ UNCHANGED <<wire, session, gpc, gcmd, gpush, g_readyForGameThread>>
    BY <1>11 DEF CloseClear
  <2>2. Queued' = wire
    BY <1>0, <2>1, ConcatEmptySeq DEF Queued
  <2>3. /\ StaleOf(Queued', {"reply"}, session) \subseteq StaleOf(Queued, {"reply"}, session)
        /\ StaleOf(Queued', PushKinds, session) \subseteq StaleOf(Queued, PushKinds, session)
    BY <1>0, <2>2, PrefixStale DEF Queued
  <2>4. BornBefore(session)'
    BY <1>0, <1>s, <2>1, <2>2, PrefixStale DEF BornBefore, Queued
  <2>5. /\ KindOf(g_sendBuffer', {"reply"}) = {} /\ KindOf(g_sendBuffer', PushKinds) = {}
        /\ Reading' = Reading
    BY <2>1 DEF KindOf, Reading
  <2> QED
    BY <1>s, <2>1, <2>3, <2>4, <2>5 DEF StaleInv, AtMostOne
<1> QED
  BY <1>1, <1>3, <1>4, <1>6, <1>7, <1>8, <1>9, <1>10, <1>11, <1>12
     DEF Next, Worker, Game, ProcessCommand, Quiet

LEMMA InitiallyNoneStale == Init => StaleInv
<1> SUFFICES ASSUME Init PROVE StaleInv
  OBVIOUS
<1>1. /\ wire = <<>> /\ g_sendBuffer = <<>> /\ session = 0 /\ gpush = NoPush
      /\ gcmd.session = 0 /\ gpush.born = 0
  BY DEF Init, NothingRead, NoPush, Plain
<1>2. Queued = <<>>
  BY <1>1 DEF Queued
<1> QED
  BY <1>1, <1>2 DEF StaleInv, BornBefore, AtMostOne, StaleOf, KindOf

LEMMA CountAtMostOne ==
  ASSUME NEW S, \A i, j \in S : i = j
  PROVE  Cardinality(S) <= 1
<1>1. CASE S = {}
  BY <1>1, FS_EmptySet
<1>2. CASE S # {}
  <2>1. PICK x \in S : S = {x}
    BY <1>2
  <2> QED
    BY <2>1, FS_Singleton
<1> QED
  BY <1>1, <1>2

\* However often connections end, and whatever the game thread was doing then,
\* at most one reply and one push of earlier connections reach a later one.
THEOREM OneStaleOfEachKind == Spec => []AtMostOneStale
<1>1. StaleInv => AtMostOneStale
  BY CountAtMostOne DEF StaleInv, AtMostOne, AtMostOneStale, StaleIn, StaleOf,
                        PushKinds
<1> QED
  BY <1>1, InitiallyNoneStale, Invariance, StaleStep, PTL DEF Spec

-----------------------------------------------------------------------------
(***************************************************************************)
(* Commands of the present connection.  Ids grow, so a command of this     *)
(* connection is one whose id exceeds base, the number of commands sent    *)
(* before it.  The lines of a dead connection are gone when the next is    *)
(* made and close_socket has lowered the flag, so every id the mailbox     *)
(* gets from then on exceeds base; a command taken earlier may read them   *)
(* too, but it carries the connection it was taken on.                     *)
(***************************************************************************)
NewIn(q, b) == \A i \in DOMAIN q : q[i].t = "lua_exec" => q[i].id > b

\* What the worker is stashing comes from a line of this connection.
StashNew ==
  /\ wpc \in {"stashSrc", "stashLen", "stashSeq", "raiseReady"} => wline > base
  /\ wpc \in {"stashLen", "stashSeq", "raiseReady"} => g_pendingLuaSrc > base
  /\ wpc \in {"stashSeq", "raiseReady"} => g_pendingLuaLen > base
  /\ wpc = "raiseReady" => g_pendingSeq > base

\* So does a mailbox whose flag is up, or which the game thread reads for a
\* command it took on this connection.
OwnCommand == gpc # "idle" /\ gcmd.session = session
MailboxNew ==
  g_readyForGameThread \/ OwnCommand =>
    g_pendingLuaSrc > base /\ g_pendingLuaLen > base /\ g_pendingSeq > base

\* And what it has read of it so far.
ReadNew ==
  gcmd.session = session =>
    /\ gpc \in {"readSeq", "loadSrc", "run", "clearReady"} => gcmd.len > base
    /\ gpc \in {"loadSrc", "run", "clearReady"} => gcmd.seq > base
    /\ gpc \in {"run", "clearReady"} => gcmd.src > base

CommandsNew ==
  /\ base <= cmds /\ NewIn(g_inbound, base) /\ NewIn(toSwitch, base)
  /\ StashNew /\ MailboxNew /\ ReadNew

RepliesNew ==
  \A i \in DOMAIN Queued :
    Queued[i].t = "reply" /\ Queued[i].born = session =>
      Queued[i].src > base /\ Queued[i].seq > base

NewInv == CommandsNew /\ RepliesNew

\* The steps that touch neither the lines, nor the mailbox, nor what the game
\* thread has of it; they may lower the flag.
Idle ==
  /\ UNCHANGED <<g_inbound, toSwitch, g_pendingLuaSrc, g_pendingLuaLen,
                 g_pendingSeq, wline, gpc, gcmd, session, base, cmds>>
  /\ g_readyForGameThread' => g_readyForGameThread
  /\ wpc' \notin {"stashSrc", "stashLen", "stashSeq", "raiseReady"} \/ wpc' = wpc

LEMMA IdleStep == CommandsNew /\ Idle => CommandsNew'
BY DEF CommandsNew, Idle, NewIn, StashNew, MailboxNew, OwnCommand, ReadNew

LEMMA CommandsStep ==
  ASSUME IInv, StaleInv, CommandsNew, [Next]_vars
  PROVE  CommandsNew'
<1>t. /\ session \in Nat /\ base \in Nat /\ cmds \in Nat /\ gcmd \in Command
      /\ wret \in {"resolve", "lines"}
      /\ g_inbound \in Seq(Line) /\ toSwitch \in Seq(Line)
      /\ gcmd = [src |-> gcmd.src, len |-> gcmd.len, seq |-> gcmd.seq,
                 session |-> gcmd.session]
  BY DEF IInv, TypeOK, Command
<1>p. base <= cmds /\ NewIn(g_inbound, base) /\ NewIn(toSwitch, base)
  BY DEF CommandsNew
<1>1. CASE PrepareThread \/ Sleep \/ PollClosed \/ SendHello \/ RaiseConnected
  BY <1>1, IdleStep
     DEF PrepareThread, Sleep, PollClosed, SendHello, RaiseConnected, Idle
<1>2. CASE \/ ResolveFail \/ Resolve \/ ConnectFail \/ LeaveLoop
           \/ PollTimeout \/ NoMoreLines \/ GiveUp \/ GiveUpBehindSource
  BY <1>2, IdleStep
     DEF ResolveFail, Resolve, ConnectFail, LeaveLoop, PollTimeout, NoMoreLines,
         GiveUp, GiveUpBehindSource, OnlyWorkerPc, Idle
<1>3. CASE PumpOutbound \/ CloseFlag \/ CloseClear \/ CloseReady
  BY <1>3, <1>t, IdleStep
     DEF PumpOutbound, CloseFlag, CloseClear, CloseReady, Idle
<1>4. CASE StartWorker \/ ScheduleAgain \/ EnqueuePush
  BY <1>4, IdleStep DEF StartWorker, ScheduleAgain, EnqueuePush, Idle
<1>5. CASE \E kind \in {"layout_uuid", "push"} : CheckPush(kind)
  BY <1>5, IdleStep DEF CheckPush, Idle
<1>6. CASE UNCHANGED vars
  BY <1>6, IdleStep DEF vars, Idle
<1>7. ASSUME NEW q \in Seq(Line), NEW r \in Seq(Line), NewIn(q, base), NewIn(r, base)
      PROVE  NewIn(q \o r, base)
  BY <1>7 DEF NewIn
<1>8. ASSUME NEW q \in Seq(Line), q # <<>>, NewIn(q, base)
      PROVE  /\ NewIn(Tail(q), base)
             /\ Head(q).t = "lua_exec" => Head(q).id > base
  BY <1>8 DEF NewIn
<1>9. ASSUME NEW q \in Seq(Line), NEW l \in Line, NewIn(q, base),
             l.t = "lua_exec" => l.id > base
      PROVE  NewIn(Append(q, l), base)
  BY <1>9 DEF NewIn
<1>10. CASE Connect
  <2>1. /\ session' = session + 1 /\ base' = cmds /\ cmds' = cmds
        /\ g_inbound' = <<>> /\ toSwitch' = <<>> /\ wpc' = "connected"
        /\ gcmd' = gcmd /\ ~g_readyForGameThread'
    BY <1>10 DEF Connect, IInv, WorkerPoint, Unconnected, Closing
  <2>2. gcmd'.session # session'
    BY <1>t, <2>1 DEF StaleInv, BornBefore, Command
  <2> QED
    BY <1>t, <2>1, <2>2
       DEF CommandsNew, NewIn, StashNew, MailboxNew, OwnCommand, ReadNew
<1>11. CASE PollIn
  <2>1. NewIn(g_inbound', base) /\ NewIn(toSwitch', base)
    BY <1>t, <1>p, <1>7, <1>11 DEF PollIn, NewIn
  <2> QED
    BY <1>11, <2>1
       DEF PollIn, CommandsNew, NewIn, StashNew, MailboxNew, OwnCommand, ReadNew
<1>12. CASE DispatchHelloAck \/ DispatchPing \/ DispatchKick \/ DispatchLuaExec
  <2>1. /\ g_inbound # <<>> /\ g_inbound' = Tail(g_inbound)
        /\ UNCHANGED <<base, cmds, toSwitch, mailbox, gpc, gcmd, session>>
        /\ \/ wpc' \in {"lines", "closeFlag"}
           \/ /\ wpc' = "stashSrc" /\ wline' = Head(g_inbound).id
              /\ Head(g_inbound).t = "lua_exec"
    BY <1>12 DEF DispatchHelloAck, DispatchPing, DispatchKick, DispatchLuaExec,
                 PopLine
  <2>2. NewIn(Tail(g_inbound), base) /\ (wpc' = "stashSrc" => wline' > base)
    BY <1>t, <1>p, <1>8, <2>1
  <2> QED
    BY <2>1, <2>2
       DEF CommandsNew, NewIn, StashNew, MailboxNew, OwnCommand, ReadNew
<1>13. CASE StashSrc \/ StashLen \/ StashSeq \/ RaiseReady
  <2>1. UNCHANGED <<base, cmds, g_inbound, toSwitch, gpc, gcmd, session, wline>>
    BY <1>13 DEF StashSrc, StashLen, StashSeq, RaiseReady
  <2>2. StashNew' /\ MailboxNew'
    BY <1>13, <2>1 DEF StashSrc, StashLen, StashSeq, RaiseReady, CommandsNew,
                       StashNew, MailboxNew, OwnCommand
  <2> QED
    BY <2>1, <2>2 DEF CommandsNew, NewIn, ReadNew
<1>14. CASE CloseFd
  BY <1>14 DEF CloseFd, CommandsNew, NewIn, StashNew, MailboxNew, OwnCommand, ReadNew
<1>15. CASE TakeCommand
  <2>1. gpc' = "readLen" /\ g_readyForGameThread
        /\ UNCHANGED <<base, cmds, g_inbound, toSwitch, wpc, wline, mailbox>>
    BY <1>15 DEF TakeCommand
  <2> QED
    BY <2>1 DEF CommandsNew, NewIn, StashNew, MailboxNew, OwnCommand, ReadNew
<1>16. CASE ReadLen \/ ReadSeq \/ LoadSrc
  <2>1. /\ gcmd'.session = gcmd.session
        /\ UNCHANGED <<base, cmds, g_inbound, toSwitch, wpc, wline, mailbox, session>>
        /\ gpc # "idle"
        /\ \/ /\ gpc' = "readSeq" /\ gcmd'.len = g_pendingLuaLen
           \/ /\ gpc = "readSeq" /\ gpc' = "loadSrc"
              /\ gcmd'.len = gcmd.len /\ gcmd'.seq = g_pendingSeq
           \/ /\ gpc = "loadSrc" /\ gpc' = "run"
              /\ gcmd'.len = gcmd.len /\ gcmd'.seq = gcmd.seq
              /\ gcmd'.src = g_pendingLuaSrc
    BY <1>16, <1>t DEF ReadLen, ReadSeq, LoadSrc
  <2> QED
    BY <2>1 DEF CommandsNew, NewIn, StashNew, MailboxNew, OwnCommand, ReadNew
<1>17. CASE EnqueueReply \/ TostringError \/ ClearReady
  <2>1. /\ UNCHANGED <<base, cmds, g_inbound, toSwitch, wpc, wline, session,
                       g_pendingLuaSrc, g_pendingLuaLen, g_pendingSeq>>
        /\ g_readyForGameThread' => g_readyForGameThread
        /\ \/ gpc' = "idle"
           \/ gpc = "run" /\ gpc' = "clearReady" /\ gcmd' = gcmd
    BY <1>17 DEF EnqueueReply, TostringError, ClearReady
  <2> QED
    BY <2>1 DEF CommandsNew, NewIn, StashNew, MailboxNew, OwnCommand, ReadNew
<1>18. CASE Pc
  <2>1. UNCHANGED <<base, g_inbound, wpc, wline, mailbox, gpc, gcmd, session>>
    BY <1>18 DEF Pc, PcSendLuaExec, PcSendLine
  <2>2. base <= cmds'
    <3>1. cmds' = cmds + 1 \/ cmds' = cmds
      BY <1>18 DEF Pc, PcSendLuaExec, PcSendLine
    <3> QED
      BY <1>t, <1>p, <3>1
  <2>3. PICK l \in Line : /\ toSwitch' = Append(toSwitch, l)
                          /\ l.t = "lua_exec" => l.id > base
    <3>1. CASE PcSendLuaExec
      <4> DEFINE l == [t |-> "lua_exec", id |-> cmds + 1]
      <4>1. l \in Line /\ l.id > base /\ toSwitch' = Append(toSwitch, l)
        BY <3>1, <1>t, <1>p DEF PcSendLuaExec, Line, LineKinds
      <4> QED
        BY <4>1
    <3>2. ASSUME NEW t \in LineKinds \ {"lua_exec"}, PcSendLine(t)
          PROVE  \E l \in Line : /\ toSwitch' = Append(toSwitch, l)
                                 /\ l.t = "lua_exec" => l.id > base
      <4> DEFINE l == [t |-> t, id |-> 0]
      <4>1. l \in Line /\ l.t # "lua_exec" /\ toSwitch' = Append(toSwitch, l)
        BY <3>2 DEF PcSendLine, Line, LineKinds
      <4> QED
        BY <4>1
    <3> QED
      BY <1>18, <3>1, <3>2 DEF Pc
  <2>4. NewIn(toSwitch', base)
    BY <1>t, <1>p, <1>9, <2>3
  <2> QED
    BY <2>1, <2>2, <2>4
       DEF CommandsNew, NewIn, StashNew, MailboxNew, OwnCommand, ReadNew
<1> QED
  BY <1>1, <1>2, <1>3, <1>4, <1>5, <1>6, <1>10, <1>11, <1>12, <1>13, <1>14,
     <1>15, <1>16, <1>17, <1>18
     DEF Next, Worker, Game, ProcessCommand

LEMMA RepliesStep ==
  ASSUME IInv, StaleInv, NewInv, [Next]_vars
  PROVE  RepliesNew'
<1>0. /\ g_sendBuffer \in Seq(Message) /\ wire \in Seq(Message)
      /\ Queued \in Seq(Message)
      /\ session \in Nat /\ gcmd \in Command /\ gpush \in Message
  BY ConcatProperties DEF IInv, TypeOK, Queued
<1>r. RepliesNew
  BY DEF NewInv
<1>1. CASE UNCHANGED <<wire, g_sendBuffer, session, base>>
  BY <1>1, <1>r DEF RepliesNew, Queued
<1>2. ASSUME NEW m \in Message, UNCHANGED <<wire, session, base>>,
             g_sendBuffer' = Append(g_sendBuffer, m),
             m.t = "reply" /\ m.born = session => m.src > base /\ m.seq > base
      PROVE  RepliesNew'
  <2>1. Queued' = Append(Queued, m)
    BY <1>0, <1>2, AppendQueued DEF Queued
  <2>2. \A i \in DOMAIN Append(Queued, m) :
           \/ i \in DOMAIN Queued /\ Append(Queued, m)[i] = Queued[i]
           \/ Append(Queued, m)[i] = m
    BY <1>0
  <2> QED
    BY <1>2, <1>r, <2>1, <2>2 DEF RepliesNew
<1>3. CASE Quiet
  <2>1. UNCHANGED <<wire, g_sendBuffer, session>>
    BY <1>3, QuietStep
  <2>2. base' = base
    <3>1. CASE \/ PrepareThread \/ Sleep \/ PollClosed \/ PollIn \/ CloseReady
               \/ DispatchHelloAck \/ DispatchKick \/ DispatchLuaExec
      BY <3>1 DEF PrepareThread, Sleep, PollClosed, PollIn, CloseReady,
                  DispatchHelloAck, DispatchKick, DispatchLuaExec
    <3>2. CASE \/ ResolveFail \/ Resolve \/ ConnectFail \/ LeaveLoop
               \/ PollTimeout \/ NoMoreLines \/ GiveUp \/ GiveUpBehindSource
      BY <3>2 DEF ResolveFail, Resolve, ConnectFail, LeaveLoop, PollTimeout,
                  NoMoreLines, GiveUp, GiveUpBehindSource, OnlyWorkerPc
    <3>3. CASE StashSrc \/ StashLen \/ StashSeq \/ RaiseReady
      BY <3>3 DEF StashSrc, StashLen, StashSeq, RaiseReady
    <3>4. CASE \/ StartWorker \/ ScheduleAgain \/ TakeCommand \/ ReadLen
               \/ ReadSeq \/ LoadSrc \/ TostringError \/ ClearReady
               \/ \E kind \in {"layout_uuid", "push"} : CheckPush(kind)
      BY <3>4 DEF StartWorker, ScheduleAgain, TakeCommand, ReadLen, ReadSeq,
                  LoadSrc, TostringError, ClearReady, CheckPush
    <3>5. CASE Pc \/ UNCHANGED vars
      BY <3>5 DEF Pc, PcSendLuaExec, PcSendLine, vars
    <3> QED
      BY <1>3, <3>1, <3>2, <3>3, <3>4, <3>5 DEF Quiet
  <2> QED
    BY <1>1, <2>1, <2>2
<1>4. CASE EnqueueReply
  <2> DEFINE m == [t |-> "reply", born |-> gcmd.session, seq |-> gcmd.seq,
                   src |-> gcmd.src]
  <2>1. /\ m \in Message /\ g_sendBuffer' = Append(g_sendBuffer, m)
        /\ UNCHANGED <<wire, session, base>>
    BY <1>0, <1>4 DEF EnqueueReply, Enqueue, Message, Command, GameKinds
  <2>2. m.born = session => m.src > base /\ m.seq > base
    BY <1>4 DEF EnqueueReply, NewInv, CommandsNew, ReadNew
  <2> QED
    BY <1>2, <2>1, <2>2
<1>5. CASE EnqueuePush
  <2>1. /\ gpush.t # "reply" /\ g_sendBuffer' = Append(g_sendBuffer, gpush)
        /\ UNCHANGED <<wire, session, base>>
    BY <1>5 DEF EnqueuePush, Enqueue, StaleInv, PushKinds
  <2> QED
    BY <1>0, <1>2, <2>1
<1>6. CASE SendHello \/ DispatchPing
  <2>1. /\ \E m \in Message : /\ m.t # "reply"
                              /\ g_sendBuffer' = Append(g_sendBuffer, m)
        /\ UNCHANGED <<wire, session, base>>
    BY <1>0, <1>6 DEF SendHello, DispatchPing, Enqueue, Plain, Message, GameKinds,
                      WorkerKinds
  <2> QED
    BY <1>2, <2>1
<1>7. CASE PumpOutbound
  <2>1. PICK k \in 0..Len(g_sendBuffer) :
          /\ wire' = wire \o SubSeq(g_sendBuffer, 1, k)
          /\ g_sendBuffer' = SubSeq(g_sendBuffer, k + 1, Len(g_sendBuffer))
    BY <1>7 DEF PumpOutbound
  <2>2. Queued' = Queued /\ session' = session /\ base' = base
    BY <1>0, <1>7, <2>1, PumpKeepsQueued DEF PumpOutbound, Queued
  <2> QED
    BY <1>r, <2>2 DEF RepliesNew
<1>8. CASE Connect
  <2>1. /\ wire' = <<>> /\ g_sendBuffer' = g_sendBuffer /\ session' = session + 1
    BY <1>8 DEF Connect
  <2>2. Queued' = g_sendBuffer
    BY <1>0, <2>1, ConcatEmptySeq DEF Queued
  <2>3. \A i \in DOMAIN g_sendBuffer : g_sendBuffer[i].born <= session
    <3>1. /\ DOMAIN g_sendBuffer = 1..Len(g_sendBuffer) /\ Len(wire) \in Nat
          /\ DOMAIN Queued = 1..(Len(wire) + Len(g_sendBuffer))
          /\ \A i \in 1..Len(g_sendBuffer) :
               Queued[Len(wire) + i] = g_sendBuffer[i]
      BY <1>0 DEF Queued
    <3>2. \A i \in 1..Len(g_sendBuffer) :
             Len(wire) + i \in 1..(Len(wire) + Len(g_sendBuffer))
      BY <1>0
    <3> QED
      BY <3>1, <3>2 DEF StaleInv, BornBefore
  <2>4. \A i \in DOMAIN g_sendBuffer : g_sendBuffer[i].born # session'
    BY <1>0, <2>1, <2>3
  <2> QED
    BY <2>2, <2>4 DEF RepliesNew
<1>9. CASE RaiseConnected \/ CloseFlag \/ CloseFd
  BY <1>1, <1>9 DEF RaiseConnected, CloseFlag, CloseFd
<1>10. CASE CloseClear
  <2>1. /\ wire' = wire /\ g_sendBuffer' = <<>> /\ UNCHANGED <<session, base>>
    BY <1>10 DEF CloseClear
  <2>2. Queued' = wire
    BY <1>0, <2>1, ConcatEmptySeq DEF Queued
  <2>3. \A i \in DOMAIN wire : i \in DOMAIN Queued /\ Queued[i] = wire[i]
    BY <1>0, PrefixStale DEF Queued
  <2> QED
    BY <1>r, <2>1, <2>2, <2>3 DEF RepliesNew
<1> QED
  BY <1>3, <1>4, <1>5, <1>6, <1>7, <1>8, <1>9, <1>10
     DEF Next, Worker, Game, ProcessCommand, Quiet

LEMMA InitiallyNew == Init => NewInv
<1> SUFFICES ASSUME Init PROVE NewInv
  OBVIOUS
<1>1. /\ wire = <<>> /\ g_sendBuffer = <<>> /\ g_inbound = <<>> /\ toSwitch = <<>>
      /\ wpc = "off" /\ gpc = "idle" /\ ~g_readyForGameThread
      /\ base = 0 /\ cmds = 0
  BY DEF Init
<1>2. Queued = <<>>
  BY <1>1 DEF Queued
<1> QED
  BY <1>1, <1>2 DEF NewInv, CommandsNew, RepliesNew, NewIn, StashNew, MailboxNew,
                    OwnCommand, ReadNew

\* However many commands the PC sends ahead and however the stores of the worker
\* and the reads of the game thread overlap: a command taken on a connection is
\* read, run and answered from lines of that connection alone.
THEOREM NothingOfDeadConnections == Spec => []RepliesOfThisConnection
<1>1. NewInv => RepliesOfThisConnection
  BY DEF NewInv, CommandsNew, RepliesNew, ReadNew, RepliesOfThisConnection
<1>2. IInv /\ StaleInv /\ NewInv /\ [Next]_vars => NewInv'
  BY CommandsStep, RepliesStep DEF NewInv
<1> QED
  BY <1>1, <1>2, InitiallyNew, InitiallyNoneStale, Invariance, StaleStep, PTL
     DEF Spec
=============================================================================
