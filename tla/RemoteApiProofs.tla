-------------------------- MODULE RemoteApiProofs --------------------------
(***************************************************************************)
(* What holds of the bridge for every bound: type correctness, and the     *)
(* properties of the connection, of the mailbox flag and of the lock.      *)
(* Those of the connection and of the lock are not inductive: they rest on *)
(* what the worker has already done at its present statement, which        *)
(* WorkerPoint records.                                                    *)
(***************************************************************************)
EXTENDS RemoteApi, SequenceTheorems, TLAPS

\* Statements of the worker at which it has no connection, and at which it has
\* one that close_socket has not touched.
Unconnected == {"off", "prepare", "resolve", "sleep", "connect", "connected"}
Connected   == {"hello", "stashSrc", "stashLen", "stashSeq", "raiseReady",
                "closeFlag"}
Closing     == {"closeFd", "closeClear", "closeReady"}

\* What the worker has established at each of its statements.
WorkerPoint ==
  /\ wpc \in Unconnected \cup Closing => ~g_socketConnected
  /\ wpc \in Connected => g_socketConnected
  /\ wpc \in {"closeClear", "closeReady"} =>
       g_socket = NoSocket /\ g_inbound = <<>>
  /\ wpc = "connected" => g_socket = session /\ session > 0
  /\ wpc = "hello" => ~g_readyForGameThread
  /\ ~g_socketConnected /\ wpc \notin Closing =>
       g_inbound = <<>> /\ ~g_readyForGameThread
  /\ ~g_socketConnected /\ wpc \notin Closing \cup {"connected"} =>
       g_socket = NoSocket

\* Before the mutex exists nothing can make the game thread lock it.
BeforeLock ==
  /\ ~s_initialized => wpc = "off"
  /\ wpc \in {"off", "prepare"} <=> g_sendBufferLock = "none"
  /\ g_sendBufferLock = "none" => gpc = "idle" /\ gpush = NoPush

IInv ==
  /\ TypeOK /\ WorkerPoint /\ BeforeLock /\ ConnectedHasSocket /\ AtMostOnce

\* The variables in groups, for every step below.
USE DEF workerLocals, connection, mailbox, sendQueue, pcSide, inputs, engine, histories,
        gameSide, workerSide, switchSide, NoSocket, NoCommand

\* ProcessCommand's reads keep gcmd a record of four naturals.
LEMMA CommandType ==
  ASSUME TypeOK, ReadLen \/ ReadSeq \/ LoadSrc \/ ClearReady \/ TostringError
  PROVE  gcmd' \in Command
<1>1. /\ gcmd \in Command
      /\ g_pendingLuaLen \in Nat /\ g_pendingSeq \in Nat
      /\ g_pendingLuaSrc \in Nat
  BY DEF TypeOK
<1>2. \/ gcmd' = [gcmd EXCEPT !.len = g_pendingLuaLen]
      \/ gcmd' = [gcmd EXCEPT !.seq = g_pendingSeq]
      \/ gcmd' = [gcmd EXCEPT !.src = g_pendingLuaSrc]
      \/ gcmd' = [src |-> 0, len |-> 0, seq |-> 0, session |-> 0]
  BY DEF ReadLen, ReadSeq, LoadSrc, ClearReady, TostringError, NothingRead
<1> QED
  BY <1>1, <1>2 DEF Command

LEMMA TypeStep == TypeOK /\ [Next]_vars => TypeOK'
<1> SUFFICES ASSUME TypeOK, [Next]_vars PROVE TypeOK'
  OBVIOUS
<1> USE DEF TypeOK
<1>1. CASE PrepareThread
  BY <1>1 DEF PrepareThread
<1>2. CASE ResolveFail
  BY <1>2 DEF ResolveFail, OnlyWorkerPc
<1>3. CASE Resolve
  BY <1>3 DEF Resolve, OnlyWorkerPc
<1>4. CASE ConnectFail
  BY <1>4 DEF ConnectFail, OnlyWorkerPc
<1>5. CASE Sleep
  BY <1>5, ConstantsAssumption DEF Sleep
<1>6. CASE Connect
  BY <1>6, ConstantsAssumption DEF Connect
<1>40. CASE RaiseConnected
  BY <1>40, ConstantsAssumption DEF RaiseConnected
<1>7. CASE SendHello
  BY <1>7 DEF SendHello, Enqueue, Plain, Message, WorkerKinds, GameKinds
<1>8. CASE LeaveLoop
  BY <1>8 DEF LeaveLoop, OnlyWorkerPc
<1>9. CASE PollClosed
  BY <1>9 DEF PollClosed
<1>10. CASE PollTimeout
  BY <1>10 DEF PollTimeout, OnlyWorkerPc
<1>11. CASE PollIn
  BY <1>11 DEF PollIn
<1>12. CASE NoMoreLines
  BY <1>12 DEF NoMoreLines, OnlyWorkerPc
<1>13. CASE DispatchHelloAck
  BY <1>13 DEF DispatchHelloAck, PopLine
<1>14. CASE DispatchPing
  BY <1>14 DEF DispatchPing, PopLine, Enqueue, Plain, Message, WorkerKinds, GameKinds
<1>15. CASE DispatchKick
  BY <1>15 DEF DispatchKick, PopLine
<1>16. CASE DispatchLuaExec
  <2>1. Head(g_inbound) \in Line /\ Tail(g_inbound) \in Seq(Line)
    BY <1>16 DEF DispatchLuaExec, PopLine
  <2> QED
    BY <1>16, <2>1 DEF DispatchLuaExec, PopLine, Line
<1>41. CASE GiveUp
  BY <1>41 DEF GiveUp, OnlyWorkerPc
<1>42. CASE GiveUpBehindSource
  BY <1>42 DEF GiveUpBehindSource, OnlyWorkerPc
<1>17. CASE StashSrc
  BY <1>17 DEF StashSrc
<1>18. CASE StashLen
  BY <1>18 DEF StashLen
<1>19. CASE StashSeq
  BY <1>19 DEF StashSeq
<1>20. CASE RaiseReady
  BY <1>20 DEF RaiseReady
<1>21. CASE PumpOutbound
  <2>1. PICK k \in 0..Len(g_sendBuffer) :
          /\ wire' = wire \o SubSeq(g_sendBuffer, 1, k)
          /\ g_sendBuffer' = SubSeq(g_sendBuffer, k + 1, Len(g_sendBuffer))
          /\ wpc' = "poll"
          /\ UNCHANGED <<workerLocals, g_inbound, connection, mailbox,
                         g_sendBufferLock, clientSubs, toSwitch, gameSide>>
    BY <1>21 DEF PumpOutbound
  <2>2. /\ SubSeq(g_sendBuffer, 1, k) \in Seq(Message)
        /\ SubSeq(g_sendBuffer, k + 1, Len(g_sendBuffer)) \in Seq(Message)
    BY <2>1
  <2> QED
    BY <2>1, <2>2
<1>22. CASE CloseFlag
  BY <1>22 DEF CloseFlag
<1>23. CASE CloseFd
  BY <1>23 DEF CloseFd
<1>24. CASE CloseClear
  BY <1>24 DEF CloseClear
<1>25. CASE CloseReady
  BY <1>25 DEF CloseReady
<1>26. CASE StartWorker
  BY <1>26 DEF StartWorker
<1>27. CASE TakeCommand
  <2>1. gcmd' \in Command
    BY <1>27 DEF TakeCommand, NothingRead, Command
  <2>2. /\ gpc' = "readLen" /\ untaken' = FALSE /\ failed' = FALSE
        /\ UNCHANGED <<workerSide, g_sendBuffer, engine, gpush, inputs>>
    BY <1>27 DEF TakeCommand
  <2> QED
    BY <2>1, <2>2
<1>28. CASE ReadLen
  <2>1. gcmd' \in Command
    BY <1>28, CommandType
  <2>2. UNCHANGED <<workerSide, g_sendBuffer, engine, gpush, histories, inputs>>
    BY <1>28 DEF ReadLen
  <2>3. gpc' \in {"readSeq", "loadSrc", "run"}
    BY <1>28 DEF ReadLen
  <2> QED
    BY <2>1, <2>2, <2>3
<1>29. CASE ReadSeq
  <2>1. gcmd' \in Command
    BY <1>29, CommandType
  <2>2. UNCHANGED <<workerSide, g_sendBuffer, engine, gpush, histories, inputs>>
    BY <1>29 DEF ReadSeq
  <2>3. gpc' \in {"readSeq", "loadSrc", "run"}
    BY <1>29 DEF ReadSeq
  <2> QED
    BY <2>1, <2>2, <2>3
<1>30. CASE LoadSrc
  <2>1. gcmd' \in Command
    BY <1>30, CommandType
  <2>2. UNCHANGED <<workerSide, g_sendBuffer, engine, gpush, histories, inputs>>
    BY <1>30 DEF LoadSrc
  <2>3. gpc' \in {"readSeq", "loadSrc", "run"}
    BY <1>30 DEF LoadSrc
  <2> QED
    BY <2>1, <2>2, <2>3
<1>31. CASE EnqueueReply
  BY <1>31 DEF EnqueueReply, Enqueue, Message, Command, GameKinds
<1>32. CASE ClearReady
  <2>1. gcmd' \in Command
    BY <1>32, CommandType
  <2>2. gpc' \in {"idle", "run", "clearReady"} /\ g_readyForGameThread' \in BOOLEAN
    BY <1>32 DEF ClearReady
  <2>3. UNCHANGED <<wpc, workerLocals, g_inbound, connection, clientSubs,
                    sendQueue, pcSide>>
    BY <1>32 DEF ClearReady
  <2>4. UNCHANGED <<g_pendingLuaSrc, g_pendingLuaLen, g_pendingSeq,
                    engine, gpush, histories, inputs>>
    BY <1>32 DEF ClearReady
  <2> QED
    BY <2>1, <2>2, <2>3, <2>4
<1>38. CASE ScheduleAgain
  BY <1>38 DEF ScheduleAgain
<1>39. CASE TostringError
  <2>1. gcmd' \in Command
    BY <1>39, CommandType
  <2>2. /\ gpc' = "idle" /\ errors' = errors + 1 /\ updateDue' = FALSE
        /\ failed' = TRUE
        /\ UNCHANGED <<workerSide, g_sendBuffer, s_initialized, gpush, untaken,
                       inputs>>
    BY <1>39 DEF TostringError
  <2>3. errors' \in Nat /\ UNCHANGED <<workerSide, g_sendBuffer>>
    BY <2>2
  <2>4. UNCHANGED <<s_initialized, gpush, untaken, inputs>>
    BY <2>2
  <2> QED
    BY <2>1, <2>3, <2>4, <2>2
<1>33. CASE EnqueuePush
  BY <1>33 DEF EnqueuePush, Enqueue, NoPush, Plain, Message, GameKinds
<1>34. ASSUME NEW kind \in {"layout_uuid", "push"}, CheckPush(kind) PROVE TypeOK'
  BY <1>34 DEF CheckPush, Plain, Message, GameKinds, WorkerKinds
<1>35. CASE PcSendLuaExec
  BY <1>35 DEF PcSendLuaExec, Line, LineKinds
<1>36. ASSUME NEW t \in LineKinds \ {"lua_exec"}, PcSendLine(t) PROVE TypeOK'
  BY <1>36 DEF PcSendLine, Line, LineKinds
<1>37. CASE UNCHANGED vars
  BY <1>37 DEF vars
<1> QED
  BY <1>1, <1>2, <1>3, <1>4, <1>5, <1>6, <1>7, <1>8, <1>9, <1>10, <1>11, <1>12, <1>13, <1>14, <1>15, <1>16, <1>17, <1>18, <1>19, <1>20, <1>21, <1>22, <1>23, <1>24, <1>25, <1>26, <1>27, <1>28, <1>29, <1>30, <1>31, <1>32, <1>33, <1>34, <1>35, <1>36, <1>37, <1>38, <1>39, <1>40, <1>41, <1>42
     DEF Next, Worker, Game, ProcessCommand, Pc

LEMMA InductiveStep == IInv /\ [Next]_vars => IInv'
<1> SUFFICES ASSUME IInv, [Next]_vars PROVE IInv'
  OBVIOUS
<1>0. TypeOK'
  BY TypeStep DEF IInv
<1> SUFFICES /\ WorkerPoint' /\ BeforeLock'
             /\ ConnectedHasSocket' /\ AtMostOnce'
  BY <1>0 DEF IInv
<1>t. /\ session \in Nat /\ untaken \in BOOLEAN /\ failed \in BOOLEAN
      /\ wret \in {"resolve", "lines"} /\ g_sendBufferLock \in {"none", "ready"}
      /\ g_readyForGameThread \in BOOLEAN /\ g_socketConnected \in BOOLEAN
  BY DEF IInv, TypeOK
<1>i. /\ WorkerPoint /\ BeforeLock /\ ConnectedHasSocket /\ AtMostOnce
  BY DEF IInv
<1>n. [Next]_vars
  OBVIOUS
<1> USE <1>t, <1>i DEF WorkerPoint, BeforeLock,
            ConnectedHasSocket, AtMostOnce, Unconnected, Connected, Closing
<1>1. CASE PrepareThread
  BY <1>1 DEF PrepareThread
<1>2. CASE ResolveFail
  BY <1>2 DEF ResolveFail, OnlyWorkerPc
<1>3. CASE Resolve
  BY <1>3 DEF Resolve, OnlyWorkerPc
<1>4. CASE ConnectFail
  BY <1>4 DEF ConnectFail, OnlyWorkerPc
<1>5. CASE Sleep
  BY <1>5 DEF Sleep
<1>6. CASE Connect
  BY <1>6 DEF Connect
<1>40. CASE RaiseConnected
  BY <1>40 DEF RaiseConnected
<1>7. CASE SendHello
  BY <1>7 DEF SendHello
<1>8. CASE LeaveLoop
  BY <1>8 DEF LeaveLoop, OnlyWorkerPc
<1>9. CASE PollClosed
  BY <1>9 DEF PollClosed
<1>10. CASE PollTimeout
  BY <1>10 DEF PollTimeout, OnlyWorkerPc
<1>11. CASE PollIn
  BY <1>11 DEF PollIn
<1>12. CASE NoMoreLines
  BY <1>12 DEF NoMoreLines, OnlyWorkerPc
<1>13. CASE DispatchHelloAck
  BY <1>13 DEF DispatchHelloAck, PopLine
<1>14. CASE DispatchPing
  BY <1>14 DEF DispatchPing, PopLine
<1>15. CASE DispatchKick
  BY <1>15 DEF DispatchKick, PopLine
<1>16. CASE DispatchLuaExec
  BY <1>16 DEF DispatchLuaExec, PopLine
<1>41. CASE GiveUp
  BY <1>41 DEF GiveUp, OnlyWorkerPc
<1>42. CASE GiveUpBehindSource
  BY <1>42 DEF GiveUpBehindSource, OnlyWorkerPc
<1>17. CASE StashSrc
  BY <1>17 DEF StashSrc
<1>18. CASE StashLen
  BY <1>18 DEF StashLen
<1>19. CASE StashSeq
  BY <1>19 DEF StashSeq
<1>20. CASE RaiseReady
  BY <1>20 DEF RaiseReady
<1>21. CASE PumpOutbound
  BY <1>21 DEF PumpOutbound
<1>22. CASE CloseFlag
  BY <1>22 DEF CloseFlag
<1>23. CASE CloseFd
  BY <1>23 DEF CloseFd
<1>24. CASE CloseClear
  BY <1>24 DEF CloseClear
<1>25. CASE CloseReady
  BY <1>25 DEF CloseReady
<1>26. CASE StartWorker
  BY <1>26 DEF StartWorker
<1>27. CASE TakeCommand
  BY <1>27 DEF TakeCommand
<1>28. CASE ReadLen
  BY <1>28 DEF ReadLen
<1>29. CASE ReadSeq
  BY <1>29 DEF ReadSeq
<1>30. CASE LoadSrc
  BY <1>30 DEF LoadSrc
<1>31. CASE EnqueueReply
  BY <1>31 DEF EnqueueReply
<1>32. CASE ClearReady
  BY <1>32 DEF ClearReady
<1>33. CASE EnqueuePush
  BY <1>33 DEF EnqueuePush
<1>38. CASE ScheduleAgain
  BY <1>38 DEF ScheduleAgain
<1>39. CASE TostringError
  BY <1>39 DEF TostringError
<1>34. CASE \E kind \in {"layout_uuid", "push"} : CheckPush(kind)
  BY <1>34 DEF CheckPush
<1>35. CASE PcSendLuaExec
  BY <1>35 DEF PcSendLuaExec
<1>36. CASE \E t \in LineKinds \ {"lua_exec"} : PcSendLine(t)
  BY <1>36 DEF PcSendLine
<1>37. CASE UNCHANGED vars
  BY <1>37 DEF vars
<1> QED
  BY <1>1, <1>2, <1>3, <1>4, <1>5, <1>6, <1>7, <1>8, <1>9, <1>10, <1>11, <1>12, <1>13, <1>14, <1>15, <1>16, <1>17, <1>18, <1>19, <1>20, <1>21, <1>22, <1>23, <1>24, <1>25, <1>26, <1>27, <1>28, <1>29, <1>30, <1>31, <1>32, <1>33, <1>34, <1>35, <1>36, <1>37, <1>38, <1>39, <1>40, <1>41, <1>42
     DEF Next, Worker, Game, ProcessCommand, Pc

LEMMA InitiallyInvariant == Init => IInv
<1> SUFFICES ASSUME Init PROVE IInv
  OBVIOUS
<1>1. /\ NoPush \in Message /\ NoPush.t \in GameKinds
      /\ NothingRead \in Command
  BY DEF NoPush, NothingRead, Command, Plain, Message, GameKinds
<1>2. 0 \in 0..(BackoffCount - 1)
  BY ConstantsAssumption
<1>3. TypeOK
  <2>1. /\ g_inbound \in Seq(Line) /\ toSwitch \in Seq(Line)
        /\ g_sendBuffer \in Seq(Message) /\ wire \in Seq(Message)
    BY DEF Init
  <2>2. /\ gcmd \in Command
        /\ gpush \in Message /\ gpush.t \in GameKinds
    BY <1>1, Zenon DEF Init
  <2>3. /\ wpc = "off" /\ wret = "resolve" /\ wline = 0 /\ backoff_idx = 0
        /\ session = 0 /\ g_socket = 0 /\ g_socketConnected = FALSE
        /\ g_pendingLuaSrc = 0 /\ g_pendingLuaLen = 0 /\ g_pendingSeq = 0
        /\ g_readyForGameThread = FALSE /\ untaken = FALSE /\ failed = FALSE
        /\ g_sendBufferLock = "none" /\ clientSubs = FALSE
        /\ s_initialized = FALSE /\ updateDue = FALSE /\ base = 0
        /\ gpc = "idle" /\ errors = 0
        /\ cmds = 0 /\ lines = 0 /\ pushes = 0
    BY DEF Init
  <2> QED
    BY <1>2, <2>1, <2>2, <2>3 DEF TypeOK
<1>4. WorkerPoint /\ BeforeLock /\ ConnectedHasSocket /\ AtMostOnce
  BY DEF Init, WorkerPoint, BeforeLock, ConnectedHasSocket,
         AtMostOnce, Unconnected, Connected, Closing
<1> QED
  BY <1>3, <1>4 DEF IInv

LEMMA Invariance == Spec => []IInv
BY InitiallyInvariant, InductiveStep, PTL DEF Spec

-----------------------------------------------------------------------------
\* Every variable keeps its type: the backoff index stays inside
\* kBackoffSchedule, the socket is -1 or a connection, queues hold messages.
THEOREM TypeCorrect == Spec => []TypeOK
<1>1. IInv => TypeOK
  BY DEF IInv
<1> QED
  BY <1>1, Invariance, PTL

\* The game thread locks g_sendBufferLock only once the worker's
\* prepare_thread has initialised it, although Init returns before that.
THEOREM LockInitialisedFirst == Spec => []LockBeforeUse
<1>1. IInv => LockBeforeUse
  BY DEF IInv, TypeOK, BeforeLock, LockBeforeUse
<1> QED
  BY <1>1, Invariance, PTL

\* When IsConnected answers true, g_socket is an open descriptor.
THEOREM ConnectedIsOpen == Spec => []ConnectedHasSocket
<1>1. IInv => ConnectedHasSocket
  BY DEF IInv
<1> QED
  BY <1>1, Invariance, PTL

\* While the worker redials, no command of a dead connection is waiting.
THEOREM MailboxEmptyWhileRedialling == Spec => []NoCommandAcrossRedial
<1>1. IInv => NoCommandAcrossRedial
  BY DEF IInv, WorkerPoint, NoCommandAcrossRedial, Unconnected, Closing
<1> QED
  BY <1>1, Invariance, PTL

\* However the threads interleave and however much the PC pipelines, the game
\* thread takes each hand-over of the worker once, and a second time only when
\* an error ended the take before.
THEOREM CommandsRunAtMostOnce == Spec => []AtMostOnce
<1>1. IInv => AtMostOnce
  BY DEF IInv
<1> QED
  BY <1>1, Invariance, PTL

-----------------------------------------------------------------------------
(***************************************************************************)
(* HELLO and pongs.  Pumping moves messages from g_sendBuffer to the wire  *)
(* and leaves their concatenation as it was, so the argument is about      *)
(* Queued: the worker adds HELLO when it holds no message of the worker    *)
(* and pongs when it holds a HELLO.                                        *)
(***************************************************************************)
NoneOfWorker(q) == \A i \in 1..Len(q) : q[i].t \notin WorkerKinds
HasHello(q)     == \E i \in 1..Len(q) : q[i].t = "hello"

\* Between the clear of close_socket and the next HELLO the queue holds only
\* what the game thread put there; after it a HELLO is on its way or sent.
QueuePoint ==
  /\ ~g_socketConnected /\ wpc \notin {"closeFd", "closeClear"} =>
       NoneOfWorker(g_sendBuffer)
  /\ wpc \in {"connected", "hello"} =>
       wire = <<>> /\ NoneOfWorker(g_sendBuffer)
  /\ g_socketConnected /\ wpc # "hello" => HasHello(Queued)

QInv == WorkerMessagesInOrder /\ QueuePoint

LEMMA AppendQueued ==
  ASSUME NEW w \in Seq(Message), NEW q \in Seq(Message), NEW m \in Message
  PROVE  w \o Append(q, m) = Append(w \o q, m)
<1>1. Append(q, m) = q \o <<m>> /\ Append(w \o q, m) = (w \o q) \o <<m>>
  BY AppendIsConcat, ConcatProperties
<1>2. <<m>> \in Seq(Message)
  OBVIOUS
<1> QED
  BY <1>1, <1>2, ConcatAssociative

LEMMA PumpKeepsQueued ==
  ASSUME NEW w \in Seq(Message), NEW q \in Seq(Message), NEW k \in 0..Len(q)
  PROVE  (w \o SubSeq(q, 1, k)) \o SubSeq(q, k + 1, Len(q)) = w \o q
<1> DEFINE sent == SubSeq(q, 1, k)
           kept == SubSeq(q, k + 1, Len(q))
<1>1. sent \in Seq(Message) /\ kept \in Seq(Message)
  OBVIOUS
<1>2. sent \o kept = q
  <2>1. /\ 1 \in 1..(Len(q) + 1) /\ k \in (1 - 1)..Len(q)
        /\ Len(q) \in k..Len(q)
    OBVIOUS
  <2>2. SubSeq(q, 1, k) \o SubSeq(q, k + 1, Len(q)) = SubSeq(q, 1, Len(q))
    BY <2>1, ConcatAdjacentSubSeq
  <2> QED
    BY <2>2, SubSeqFull
<1> HIDE DEF sent, kept
<1>3. (w \o sent) \o kept = w \o (sent \o kept)
  BY <1>1, ConcatAssociative
<1>4. (w \o sent) \o kept = w \o q
  BY <1>2, <1>3
<1> QED
  BY <1>4 DEF sent, kept

\* A message of the game thread disturbs nothing, wherever it is added.
LEMMA AppendGameMessage ==
  ASSUME NEW q \in Seq(Message), NEW m \in Message, m.t \notin WorkerKinds,
         NEW s
  PROVE  /\ InOrder(q, s) => InOrder(Append(q, m), s)
         /\ NoneOfWorker(q) => NoneOfWorker(Append(q, m))
         /\ HasHello(q) => HasHello(Append(q, m))
<1>1. /\ Len(Append(q, m)) = Len(q) + 1
      /\ \A i \in 1..Len(q) : Append(q, m)[i] = q[i]
      /\ Append(q, m)[Len(q) + 1] = m
  OBVIOUS
<1> QED
  BY <1>1 DEF InOrder, NoneOfWorker, HasHello

LEMMA AppendHello ==
  ASSUME NEW q \in Seq(Message), NEW m \in Message, NEW s,
         m.t = "hello", m.born = s, NoneOfWorker(q)
  PROVE  InOrder(Append(q, m), s) /\ HasHello(Append(q, m))
<1>1. /\ Len(Append(q, m)) = Len(q) + 1
      /\ \A i \in 1..Len(q) : Append(q, m)[i] = q[i]
      /\ Append(q, m)[Len(q) + 1] = m
  OBVIOUS
<1> QED
  BY <1>1 DEF InOrder, NoneOfWorker, HasHello, WorkerKinds

LEMMA AppendPong ==
  ASSUME NEW q \in Seq(Message), NEW m \in Message, NEW s,
         m.t = "pong", m.born = s, InOrder(q, s), HasHello(q)
  PROVE  InOrder(Append(q, m), s) /\ HasHello(Append(q, m))
<1>1. /\ Len(Append(q, m)) = Len(q) + 1
      /\ \A i \in 1..Len(q) : Append(q, m)[i] = q[i]
      /\ Append(q, m)[Len(q) + 1] = m
  OBVIOUS
<1> QED
  BY <1>1 DEF InOrder, HasHello, WorkerKinds

\* What was sent before the queue was cleared stays in order.
LEMMA PrefixInOrder ==
  ASSUME NEW w \in Seq(Message), NEW q \in Seq(Message), NEW s,
         InOrder(w \o q, s)
  PROVE  InOrder(w, s)
<1>1. /\ Len(w \o q) >= Len(w) /\ Len(w) \in Nat
      /\ \A i \in 1..Len(w) : (w \o q)[i] = w[i]
  BY ConcatProperties
<1> QED
  BY <1>1 DEF InOrder

\* Steps that touch neither the queue nor the connection.
Quiet ==
  \/ PrepareThread \/ ResolveFail \/ Resolve \/ ConnectFail \/ Sleep
  \/ LeaveLoop \/ PollClosed \/ PollTimeout \/ PollIn \/ NoMoreLines
  \/ DispatchHelloAck \/ DispatchKick \/ DispatchLuaExec \/ GiveUp
  \/ GiveUpBehindSource \/ StashSrc \/ StashLen \/ StashSeq \/ RaiseReady \/ CloseReady \/ StartWorker
  \/ ScheduleAgain \/ TakeCommand \/ ReadLen \/ ReadSeq \/ LoadSrc
  \/ TostringError \/ ClearReady
  \/ (\E kind \in {"layout_uuid", "push"} : CheckPush(kind)) \/ Pc
  \/ UNCHANGED vars

LEMMA QuietStep ==
  ASSUME IInv, Quiet
  PROVE  /\ UNCHANGED <<wire, g_sendBuffer, session, g_socketConnected>>
         /\ wpc' = "hello" <=> wpc = "hello"
         /\ wpc' = "connected" <=> wpc = "connected"
         /\ wpc \in {"closeFd", "closeClear"} => wpc' = wpc
<1>1. CASE PrepareThread \/ Sleep \/ PollClosed \/ PollIn
  BY <1>1 DEF PrepareThread, Sleep, PollClosed, PollIn
<1>2. CASE \/ ResolveFail \/ Resolve \/ ConnectFail \/ LeaveLoop
           \/ PollTimeout \/ NoMoreLines \/ GiveUp \/ GiveUpBehindSource
  BY <1>2 DEF ResolveFail, Resolve, ConnectFail, LeaveLoop, PollTimeout,
              NoMoreLines, GiveUp, GiveUpBehindSource, OnlyWorkerPc
<1>3. CASE DispatchHelloAck \/ DispatchKick \/ DispatchLuaExec
  BY <1>3 DEF DispatchHelloAck, DispatchKick, DispatchLuaExec, PopLine
<1>4. CASE StashSrc \/ StashLen \/ StashSeq \/ RaiseReady
  BY <1>4 DEF StashSrc, StashLen, StashSeq, RaiseReady
<1>5. CASE CloseReady
  BY <1>5 DEF CloseReady, IInv, TypeOK
<1>6. CASE StartWorker
  BY <1>6 DEF StartWorker, IInv, BeforeLock
<1>7. CASE \/ ScheduleAgain \/ TakeCommand \/ ReadLen \/ ReadSeq \/ LoadSrc
           \/ TostringError \/ ClearReady
           \/ \E kind \in {"layout_uuid", "push"} : CheckPush(kind)
  BY <1>7 DEF ScheduleAgain, TakeCommand, ReadLen, ReadSeq, LoadSrc,
              TostringError, ClearReady, CheckPush
<1>8. CASE Pc
  BY <1>8 DEF Pc, PcSendLuaExec, PcSendLine
<1>9. CASE UNCHANGED vars
  BY <1>9 DEF vars
<1> QED
  BY <1>1, <1>2, <1>3, <1>4, <1>5, <1>6, <1>7, <1>8, <1>9 DEF Quiet

LEMMA QueueStep == IInv /\ QInv /\ [Next]_vars => QInv'
<1> SUFFICES ASSUME IInv, QInv, [Next]_vars PROVE QInv'
  OBVIOUS
<1>0. /\ g_sendBuffer \in Seq(Message) /\ wire \in Seq(Message)
      /\ wire \o g_sendBuffer \in Seq(Message)
      /\ session \in Nat
  BY ConcatProperties DEF IInv, TypeOK
<1>1. CASE Quiet
  BY <1>1, QuietStep
     DEF QInv, WorkerMessagesInOrder, QueuePoint, Queued
<1>2. ASSUME NEW m \in Message, m.t \notin WorkerKinds,
             g_sendBuffer' = Append(g_sendBuffer, m),
             UNCHANGED <<wpc, wire, session, g_socketConnected>>
      PROVE  QInv'
  <2>1. Queued' = Append(Queued, m)
    BY <1>0, <1>2, AppendQueued DEF Queued
  <2> QED
    BY <1>0, <1>2, <2>1, AppendGameMessage
       DEF QInv, WorkerMessagesInOrder, QueuePoint, Queued
<1>3. CASE EnqueueReply
  <2> DEFINE m == [t |-> "reply", born |-> gcmd.session, seq |-> gcmd.seq,
                   src |-> gcmd.src]
  <2>1. m \in Message /\ m.t \notin WorkerKinds
    BY DEF IInv, TypeOK, Message, Command, GameKinds, WorkerKinds
  <2>2. /\ g_sendBuffer' = Append(g_sendBuffer, m)
        /\ UNCHANGED <<wpc, wire, session, g_socketConnected>>
    BY <1>3 DEF EnqueueReply, Enqueue
  <2> QED
    BY <1>2, <2>1, <2>2
<1>4. CASE EnqueuePush
  <2>1. gpush \in Message /\ gpush.t \notin WorkerKinds
    BY DEF IInv, TypeOK, GameKinds, WorkerKinds
  <2>2. /\ g_sendBuffer' = Append(g_sendBuffer, gpush)
        /\ UNCHANGED <<wpc, wire, session, g_socketConnected>>
    BY <1>4 DEF EnqueuePush, Enqueue
  <2> QED
    BY <1>2, <2>1, <2>2
<1>5. CASE SendHello
  <2> DEFINE m == Plain("hello", session)
  <2>1. m \in Message /\ m.t = "hello" /\ m.born = session
    BY <1>0 DEF Plain, Message, GameKinds, WorkerKinds
  <2>2. Queued' = Append(Queued, m)
    BY <1>0, <1>5, <2>1, AppendQueued DEF SendHello, Enqueue, Queued
  <2>3. NoneOfWorker(Queued) /\ Queued \in Seq(Message)
    BY <1>0, <1>5, ConcatEmptySeq DEF SendHello, QInv, QueuePoint, Queued
  <2>4. /\ wpc' = "poll" /\ session' = session
        /\ g_socketConnected' = g_socketConnected /\ g_socketConnected
    BY <1>5 DEF SendHello, IInv, WorkerPoint, Connected
  <2> QED
    BY <2>1, <2>2, <2>3, <2>4, AppendHello
       DEF QInv, WorkerMessagesInOrder, QueuePoint
<1>6. CASE DispatchPing
  <2> DEFINE m == Plain("pong", session)
  <2>1. m \in Message /\ m.t = "pong" /\ m.born = session
    BY <1>0 DEF Plain, Message, GameKinds, WorkerKinds
  <2>2. Queued' = Append(Queued, m)
    BY <1>0, <1>6, <2>1, AppendQueued DEF DispatchPing, Enqueue, Queued
  <2>3. /\ wpc = "lines" /\ wpc' = "lines" /\ session' = session
        /\ g_socketConnected' = g_socketConnected /\ g_socketConnected
    BY <1>6 DEF DispatchPing, PopLine, IInv, WorkerPoint, Closing
  <2>4. HasHello(Queued) /\ Queued \in Seq(Message)
    BY <1>0, <2>3 DEF QInv, QueuePoint, Queued
  <2> QED
    BY <2>1, <2>2, <2>3, <2>4, AppendPong
       DEF QInv, WorkerMessagesInOrder, QueuePoint
<1>7. CASE PumpOutbound
  <2>1. PICK k \in 0..Len(g_sendBuffer) :
          /\ g_socket = NoSocket => k = 0
          /\ wire' = wire \o SubSeq(g_sendBuffer, 1, k)
          /\ g_sendBuffer' = SubSeq(g_sendBuffer, k + 1, Len(g_sendBuffer))
    BY <1>7 DEF PumpOutbound
  <2>2. /\ wpc = "pump" /\ wpc' = "poll"
        /\ UNCHANGED <<session, g_socketConnected>>
    BY <1>7 DEF PumpOutbound
  <2>3. Queued' = Queued
    BY <1>0, <2>1, PumpKeepsQueued DEF Queued
  <2>4. NoneOfWorker(g_sendBuffer) => NoneOfWorker(g_sendBuffer')
    BY <1>0, <2>1 DEF NoneOfWorker
  <2> QED
    BY <2>2, <2>3, <2>4 DEF QInv, WorkerMessagesInOrder, QueuePoint
<1>8. CASE Connect
  <2>1. NoneOfWorker(g_sendBuffer) /\ ~g_socketConnected'
    BY <1>8 DEF Connect, QInv, QueuePoint, IInv, WorkerPoint, Unconnected
  <2>2. wire' = <<>> /\ g_sendBuffer' = g_sendBuffer /\ wpc' = "connected"
    BY <1>8 DEF Connect
  <2>3. Queued' = g_sendBuffer
    BY <1>0, <2>2, ConcatEmptySeq DEF Queued
  <2> QED
    BY <2>1, <2>2, <2>3
       DEF QInv, WorkerMessagesInOrder, QueuePoint, InOrder, NoneOfWorker
<1>11. CASE RaiseConnected
  <2>1. /\ wpc = "connected" /\ wpc' = "hello"
        /\ UNCHANGED <<wire, g_sendBuffer, session>>
    BY <1>11 DEF RaiseConnected
  <2> QED
    BY <2>1 DEF QInv, WorkerMessagesInOrder, QueuePoint, Queued
<1>9. CASE CloseFlag \/ CloseFd
  BY <1>9 DEF CloseFlag, CloseFd, QInv, WorkerMessagesInOrder, QueuePoint,
              Queued, IInv, WorkerPoint, Closing
<1>10. CASE CloseClear
  <2>1. /\ wire' = wire /\ g_sendBuffer' = <<>> /\ session' = session
        /\ wpc' = "closeReady" /\ ~g_socketConnected'
    BY <1>10 DEF CloseClear, IInv, WorkerPoint, Closing
  <2>2. Queued' = wire
    BY <1>0, <2>1, ConcatEmptySeq DEF Queued
  <2>3. InOrder(wire, session)
    BY <1>0, PrefixInOrder DEF QInv, WorkerMessagesInOrder, Queued
  <2> QED
    BY <2>1, <2>2, <2>3
       DEF QInv, WorkerMessagesInOrder, QueuePoint, NoneOfWorker
<1> QED
  BY <1>1, <1>3, <1>4, <1>5, <1>6, <1>7, <1>8, <1>9, <1>10, <1>11
     DEF Next, Worker, Game, ProcessCommand, Quiet

\* HELLO and pongs stay on the connection they were made for, HELLO once and
\* ahead of every pong, whatever the game thread queues in between.
THEOREM HelloBeforePongs == Spec => []WorkerMessagesInOrder
<1>1. Init => QInv
  BY DEF Init, QInv, WorkerMessagesInOrder, QueuePoint, InOrder, NoneOfWorker,
         Queued
<1>2. QInv => WorkerMessagesInOrder
  BY DEF QInv
<1> QED
  BY <1>1, <1>2, Invariance, QueueStep, PTL DEF Spec
=============================================================================
