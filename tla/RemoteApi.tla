----------------------------- MODULE RemoteApi -----------------------------
(***************************************************************************)
(* The bridge of source/program/remote_api.cpp.  The Switch is the TCP     *)
(* client: a worker thread (worker_main) finds the PC, dials it, announces *)
(* itself with HELLO and then alternates between reading lines and pumping *)
(* the send queue.  The game thread (ProcessCommand, the Send*Json         *)
(* helpers) shares with it a one-slot mailbox of globals for the Lua       *)
(* command to run, a mutex-protected send queue and two atomics.           *)
(*                                                                         *)
(* Grain.  Everything the other thread can observe is a step of its own:   *)
(* the four stores that fill the mailbox, the four statements of           *)
(* close_socket, the loads of ProcessCommand.  A critical section of       *)
(* g_sendBufferLock is one step: it makes no blocking call and touches     *)
(* nothing but the send queue and the socket, so it commutes with what the *)
(* other thread does while the lock is held.  Messages and lines are       *)
(* atomic here; SendQueue and InboundFraming model their bytes.            *)
(***************************************************************************)
EXTENDS Integers, Sequences, FiniteSets

CONSTANTS
  BackoffCount,  \* kBackoffCount: entries of the backoff schedule
  MaxSessions,   \* bound: connections made
  MaxCommands,   \* bound: lua_exec lines the PC sends
  MaxLines,      \* bound: other lines the PC sends
  MaxPushes,     \* bound: pushes the game's Lua makes
  MaxErrors      \* bound: commands whose result tostring raises an error on

ASSUME ConstantsAssumption ==
  /\ BackoffCount \in Nat \ {0}
  /\ {MaxSessions, MaxCommands, MaxLines, MaxPushes, MaxErrors} \subseteq Nat

VARIABLES
  \* The worker thread.
  wpc,                   \* the statement the worker is about to execute
  wret,                  \* where close_socket returns to
  wline,                 \* the id of the lua_exec line being dispatched
  backoff_idx,           \* index into kBackoffSchedule
  g_inbound,             \* received lines that are not dispatched yet
  \* The connection, written by the worker only.
  session,               \* connections made so far: the name of the last one
  g_socket,              \* the session g_socket belongs to, NoSocket for -1
  g_socketConnected,     \* atomic: read by the game thread
  \* The mailbox: the id of the command each global was last written from.
  g_pendingLuaSrc, g_pendingLuaLen, g_pendingSeq,
  g_readyForGameThread,  \* atomic: set by the worker, cleared by both
  \* The send queue.
  g_sendBuffer,          \* messages waiting for Send, oldest first
  g_sendBufferLock,      \* "none" before InitializeMutex, then "ready"
  clientSubs,            \* both subscriptions: hello_ack sets them together
  \* The game thread.
  s_initialized,         \* RemoteApi::Init has run
  updateDue,             \* the engine holds a call of RemoteLua.Update
  gpc,                   \* the statement ProcessCommand is about to execute
  gcmd,                  \* what ProcessCommand has read of the mailbox
  gpush,                 \* a Send*Json call between its checks and its enqueue
  \* The PC, known to the code only through the socket.
  toSwitch,              \* lines the PC sent on this connection
  wire,                  \* messages Sent on this connection, oldest first
  \* Histories.
  cmds, lines, pushes,   \* bounded inputs used so far
  base,                  \* commands sent before this connection was made
  errors,                \* commands the game thread took and never finished
  untaken,               \* the last hand-over has not been taken
  failed                 \* the last command taken ended in an error

\* The variables in groups, for what a step leaves alone: gameSide is what the
\* worker never writes, workerSide and switchSide what a step of the game thread
\* or of the PC usually does not write.
workerLocals == <<wret, wline, backoff_idx>>
connection   == <<session, g_socket, g_socketConnected, base>>
mailbox      == <<g_pendingLuaSrc, g_pendingLuaLen, g_pendingSeq,
                  g_readyForGameThread>>
histories    == <<untaken, failed>>
sendQueue    == <<g_sendBuffer, g_sendBufferLock>>
pcSide       == <<toSwitch, wire>>
inputs       == <<cmds, lines, pushes>>
engine       == <<s_initialized, updateDue, errors>>
gameSide     == <<engine, gpc, gcmd, gpush, histories, inputs>>
workerSide == <<wpc, workerLocals, g_inbound, connection, mailbox, clientSubs,
                g_sendBufferLock, pcSide>>
switchSide == <<wpc, workerLocals, g_inbound, connection, mailbox, clientSubs,
                sendQueue, engine, gpc, gcmd, gpush, histories>>
vars == <<wpc, workerLocals, g_inbound, connection, mailbox, sendQueue,
          clientSubs, pcSide, gameSide>>

-----------------------------------------------------------------------------
NoSocket  == 0
NoCommand == 0

\* What travels to the PC.  "born" is the connection the sender saw: the one
\* a push found connected, the one whose lua_exec a reply answers.  A reply
\* carries the seq it echoes and the source it is the result of.
GameKinds   == {"reply", "layout_uuid", "push"}
WorkerKinds == {"hello", "pong"}
Message == [t: GameKinds \cup WorkerKinds, born: Nat, seq: Nat, src: Nat]
Plain(kind, s) == [t |-> kind, born |-> s, seq |-> NoCommand, src |-> NoCommand]

LineKinds == {"lua_exec", "ping", "hello_ack", "kick"}
Line == [t: LineKinds, id: Nat]

\* No push is under way.
NoPush == Plain("push", NoSocket)

\* What ProcessCommand has read of the mailbox, and the connection it saw then.
Command == [src: Nat, len: Nat, seq: Nat, session: Nat]
NothingRead == [src |-> NoCommand, len |-> NoCommand, seq |-> NoCommand,
                session |-> NoSocket]

Init ==
  /\ wpc = "off" /\ wret = "resolve" /\ wline = NoCommand
  /\ backoff_idx = 0 /\ g_inbound = <<>>
  /\ session = 0 /\ g_socket = NoSocket /\ g_socketConnected = FALSE
  /\ g_pendingLuaSrc = NoCommand /\ g_pendingLuaLen = NoCommand
  /\ g_pendingSeq = NoCommand /\ g_readyForGameThread = FALSE
  /\ g_sendBuffer = <<>> /\ g_sendBufferLock = "none" /\ clientSubs = FALSE
  /\ s_initialized = FALSE /\ updateDue = FALSE /\ errors = 0
  /\ gpc = "idle" /\ gcmd = NothingRead /\ gpush = NoPush
  /\ toSwitch = <<>> /\ wire = <<>>
  /\ cmds = 0 /\ lines = 0 /\ pushes = 0 /\ base = 0
  /\ untaken = FALSE /\ failed = FALSE

\* enqueue: lock, push_back, unlock.
Enqueue(m) == g_sendBuffer' = Append(g_sendBuffer, m)

-----------------------------------------------------------------------------
\* Faulty variants of single statements, one slip each.  The specification does
\* not use them: put in the place of the statement they are named after, each
\* breaks a property below, which shows what that property depends on.

\* The schedule index is not capped.
SleepUncapped ==
  /\ wpc = "sleep" /\ wpc' = "resolve"
  /\ backoff_idx' = backoff_idx + 1
  /\ UNCHANGED <<wret, wline, g_inbound, connection, mailbox, sendQueue,
                 clientSubs, pcSide, gameSide>>

\* The mutex is not initialised.
PrepareThreadNoMutex ==
  /\ wpc = "prepare" /\ wpc' = "resolve"
  /\ UNCHANGED <<workerLocals, g_inbound, connection, mailbox, sendQueue,
                 clientSubs, pcSide, gameSide>>

\* close_socket does not lower g_socketConnected.
CloseFlagForgotten ==
  /\ wpc = "closeFlag" /\ wpc' = "closeFd"
  /\ UNCHANGED <<workerLocals, g_inbound, connection, mailbox, sendQueue,
                 clientSubs, pcSide, gameSide>>

\* close_socket does not clear the send queue.
CloseClearForgotten ==
  /\ wpc = "closeClear" /\ wpc' = "closeReady"
  /\ UNCHANGED <<workerLocals, g_inbound, connection, mailbox, sendQueue,
                 clientSubs, pcSide, gameSide>>

\* close_socket does not lower g_readyForGameThread.
CloseReadyForgotten ==
  /\ wpc = "closeReady" /\ wpc' = wret
  /\ UNCHANGED <<workerLocals, g_inbound, connection, mailbox, sendQueue,
                 clientSubs, pcSide, gameSide>>

\* The inner loop does not look at g_socketConnected again after a kick.
LeaveLoopForgotten ==
  /\ wpc = "poll" /\ ~g_socketConnected
  /\ wpc' = "pump"
  /\ UNCHANGED <<workerLocals, g_inbound, connection, mailbox, sendQueue,
                 clientSubs, pcSide, gameSide>>

\* The queue is pumped only after input.
PollTimeoutWithoutPump ==
  /\ wpc = "poll" /\ g_socketConnected /\ toSwitch = <<>> /\ wpc' = "poll"
  /\ UNCHANGED <<workerLocals, g_inbound, connection, mailbox, sendQueue,
                 clientSubs, pcSide, gameSide>>

\* ProcessCommand does not give the mailbox back.
ClearReadyForgotten ==
  /\ gpc = "clearReady" /\ gpc' = "idle" /\ gcmd' = NothingRead
  /\ UNCHANGED <<workerSide, g_sendBuffer, engine, gpush, histories,
                 inputs>>

\* ProcessCommand waits for the subscription as the Send*Json helpers do.
TakeCommandIfSubscribed ==
  /\ gpc = "idle" /\ gpush = NoPush /\ updateDue
  /\ g_readyForGameThread /\ clientSubs
  /\ gpc' = "readLen" /\ untaken' = FALSE /\ failed' = FALSE
  /\ gcmd' = [NothingRead EXCEPT !.session = session]
  /\ UNCHANGED <<workerSide, g_sendBuffer, engine, gpush, inputs>>

\* A push does not ask for a connection.
CheckPushAnytime(kind) ==
  /\ gpc \in {"idle", "run"} /\ gpush = NoPush /\ pushes < MaxPushes
  /\ session > 0
  /\ kind = "push" => clientSubs
  /\ gpush' = Plain(kind, session) /\ pushes' = pushes + 1
  /\ UNCHANGED <<workerSide, g_sendBuffer, engine, gpc, gcmd, histories,
                 cmds, lines>>

-----------------------------------------------------------------------------
\* The worker thread.

\* prepare_thread: the mutex is made by the worker, after Init has returned to
\* the game thread; then the socket pool and the network request.
PrepareThread ==
  /\ wpc = "prepare" /\ wpc' = "resolve"
  /\ g_sendBufferLock' = "ready"
  /\ UNCHANGED <<workerLocals, g_inbound, connection, mailbox, g_sendBuffer,
                 clientSubs, pcSide, gameSide>>

\* Only wpc moves: no shared variable is written.
OnlyWorkerPc ==
  UNCHANGED <<workerLocals, g_inbound, connection, mailbox, sendQueue,
              clientSubs, pcSide, gameSide>>

\* resolveBridge found nobody.
ResolveFail ==
  wpc = "resolve" /\ wpc' = "sleep" /\ OnlyWorkerPc

Resolve ==
  /\ wpc = "resolve" /\ session < MaxSessions
  /\ wpc' = "connect" /\ OnlyWorkerPc

\* tcp_connect refused: the descriptor it opened is closed before it returns.
ConnectFail ==
  wpc = "connect" /\ wpc' = "sleep" /\ OnlyWorkerPc

\* Sleep for kBackoffSchedule[backoff_idx], then move on to the next entry.
Sleep ==
  /\ wpc = "sleep" /\ wpc' = "resolve"
  /\ backoff_idx' = IF backoff_idx + 1 < BackoffCount THEN backoff_idx + 1
                                                      ELSE backoff_idx
  /\ UNCHANGED <<wret, wline, g_inbound, connection, mailbox, sendQueue,
                 clientSubs, pcSide, gameSide>>

\* tcp_connect has a connection, on a new descriptor: the inbound buffer is
\* emptied, and the PC may already send.
Connect ==
  /\ wpc = "connect" /\ wpc' = "connected"
  /\ session' = session + 1 /\ g_socket' = session + 1 /\ base' = cmds
  /\ g_inbound' = <<>>
  /\ toSwitch' = <<>> /\ wire' = <<>>
  /\ UNCHANGED <<workerLocals, g_socketConnected, mailbox, sendQueue,
                 clientSubs, gameSide>>

\* The end of tcp_connect.  The game thread may see the connection from here on,
\* before the worker reaches sendHello.
RaiseConnected ==
  /\ wpc = "connected" /\ wpc' = "hello"
  /\ g_socketConnected' = TRUE
  /\ backoff_idx' = 0
  /\ UNCHANGED <<wret, wline, g_inbound, session, g_socket, base, mailbox,
                 sendQueue, clientSubs, pcSide, gameSide>>

SendHello ==
  /\ wpc = "hello" /\ wpc' = "poll"
  /\ Enqueue(Plain("hello", session))
  /\ UNCHANGED <<workerLocals, g_inbound, connection, mailbox,
                 g_sendBufferLock, clientSubs, pcSide, gameSide>>

\* The loop condition after a kick: back to discovery, with no sleep.
LeaveLoop ==
  /\ wpc = "poll" /\ ~g_socketConnected
  /\ wpc' = "resolve" /\ OnlyWorkerPc

\* Poll failed, reported POLLERR or POLLHUP, or Recv returned the peer's FIN.
\* What the PC sent and the worker did not read is lost.
PollClosed ==
  /\ wpc = "poll" /\ g_socketConnected
  /\ wpc' = "closeFlag" /\ wret' = "resolve"
  /\ UNCHANGED <<wline, backoff_idx, g_inbound, connection, mailbox, sendQueue,
                 clientSubs, pcSide, gameSide>>

\* Poll times out only when nothing has arrived: POLLIN is level triggered.
PollTimeout ==
  /\ wpc = "poll" /\ g_socketConnected /\ toSwitch = <<>>
  /\ wpc' = "pump" /\ OnlyWorkerPc

\* POLLIN and drain_into_inbound.  A partial arrival is a PC that sends later.
PollIn ==
  /\ wpc = "poll" /\ g_socketConnected /\ toSwitch # <<>>
  /\ wpc' = "lines"
  /\ g_inbound' = g_inbound \o toSwitch /\ toSwitch' = <<>>
  /\ UNCHANGED <<workerLocals, connection, mailbox, sendQueue, clientSubs,
                 wire, gameSide>>

-----------------------------------------------------------------------------
\* The line loop: consume_line, then dispatch_line, until no newline is left.

NoMoreLines ==
  wpc = "lines" /\ g_inbound = <<>> /\ wpc' = "pump" /\ OnlyWorkerPc

PopLine(t) ==
  /\ wpc = "lines" /\ g_inbound # <<>> /\ Head(g_inbound).t = t
  /\ g_inbound' = Tail(g_inbound)

DispatchHelloAck ==
  /\ PopLine("hello_ack")
  /\ clientSubs' = TRUE
  /\ UNCHANGED <<wpc, workerLocals, connection, mailbox, sendQueue, pcSide,
                 gameSide>>

DispatchPing ==
  /\ PopLine("ping")
  /\ Enqueue(Plain("pong", session))
  /\ UNCHANGED <<wpc, workerLocals, connection, mailbox, g_sendBufferLock,
                 clientSubs, pcSide, gameSide>>

\* kick closes the socket from inside the line loop and returns to it.
DispatchKick ==
  /\ PopLine("kick") /\ wpc' = "closeFlag" /\ wret' = "lines"
  /\ UNCHANGED <<wline, backoff_idx, connection, mailbox, sendQueue,
                 clientSubs, pcSide, gameSide>>

DispatchLuaExec ==
  /\ PopLine("lua_exec") /\ wpc' = "stashSrc"
  /\ wline' = Head(g_inbound).id
  /\ UNCHANGED <<wret, backoff_idx, connection, mailbox, sendQueue, clientSubs,
                 pcSide, gameSide>>

\* A seq that is no number or a source that is no string: the line is given up
\* before its source is copied.
GiveUp ==
  wpc = "stashSrc" /\ wpc' = "lines" /\ OnlyWorkerPc

\* The mailbox is filled with plain stores, whatever the game thread is doing:
\* no test of g_readyForGameThread comes first.
StashSrc ==
  /\ wpc = "stashSrc" /\ wpc' = "stashLen"
  /\ g_pendingLuaSrc' = wline
  /\ UNCHANGED <<workerLocals, g_inbound, connection, g_pendingLuaLen,
                 g_pendingSeq, g_readyForGameThread, sendQueue,
                 clientSubs, pcSide, gameSide>>

\* A seq that is no number, behind the source: the line is given up with its
\* source in the mailbox.
GiveUpBehindSource ==
  wpc = "stashLen" /\ wpc' = "lines" /\ OnlyWorkerPc

StashLen ==
  /\ wpc = "stashLen" /\ wpc' = "stashSeq"
  /\ g_pendingLuaLen' = wline
  /\ UNCHANGED <<workerLocals, g_inbound, connection, g_pendingLuaSrc,
                 g_pendingSeq, g_readyForGameThread, sendQueue,
                 clientSubs, pcSide, gameSide>>

StashSeq ==
  /\ wpc = "stashSeq" /\ wpc' = "raiseReady"
  /\ g_pendingSeq' = wline
  /\ UNCHANGED <<workerLocals, g_inbound, connection, g_pendingLuaSrc,
                 g_pendingLuaLen, g_readyForGameThread, sendQueue,
                 clientSubs, pcSide, gameSide>>

RaiseReady ==
  /\ wpc = "raiseReady" /\ wpc' = "lines"
  /\ g_readyForGameThread' = TRUE /\ untaken' = TRUE
  /\ UNCHANGED <<workerLocals, g_inbound, connection, g_pendingLuaSrc,
                 g_pendingLuaLen, g_pendingSeq, sendQueue, clientSubs, pcSide,
                 engine, gpc, gcmd, gpush, failed, inputs>>

\* pump_outbound: Send accepts a prefix of the queue (all of it, or what is
\* there when it would block or fails); with no socket it accepts nothing.
PumpOutbound ==
  /\ wpc = "pump" /\ wpc' = "poll"
  /\ \E k \in 0..Len(g_sendBuffer) :
       /\ g_socket = NoSocket => k = 0
       /\ wire' = wire \o SubSeq(g_sendBuffer, 1, k)
       /\ g_sendBuffer' = SubSeq(g_sendBuffer, k + 1, Len(g_sendBuffer))
  /\ UNCHANGED <<workerLocals, g_inbound, connection, mailbox,
                 g_sendBufferLock, clientSubs, toSwitch, gameSide>>

-----------------------------------------------------------------------------
\* close_socket, one step for each statement the game thread can observe.

CloseFlag ==
  /\ wpc = "closeFlag" /\ wpc' = "closeFd"
  /\ g_socketConnected' = FALSE
  /\ UNCHANGED <<workerLocals, g_inbound, session, g_socket, base, mailbox,
                 sendQueue, clientSubs, pcSide, gameSide>>

CloseFd ==
  /\ wpc = "closeFd" /\ wpc' = "closeClear"
  /\ g_socket' = NoSocket /\ g_inbound' = <<>>
  /\ toSwitch' = <<>>
  /\ UNCHANGED <<workerLocals, session, g_socketConnected, base, mailbox,
                 sendQueue, clientSubs, wire, gameSide>>

CloseClear ==
  /\ wpc = "closeClear" /\ wpc' = "closeReady"
  /\ g_sendBuffer' = <<>>
  /\ UNCHANGED <<workerLocals, g_inbound, connection, mailbox,
                 g_sendBufferLock, clientSubs, pcSide, gameSide>>

CloseReady ==
  /\ wpc = "closeReady" /\ wpc' = wret
  /\ g_readyForGameThread' = FALSE
  /\ UNCHANGED <<workerLocals, g_inbound, connection, g_pendingLuaSrc,
                 g_pendingLuaLen, g_pendingSeq, sendQueue, clientSubs,
                 pcSide, gameSide>>

Worker ==
  \/ PrepareThread \/ ResolveFail \/ Resolve \/ ConnectFail \/ Sleep \/ Connect
  \/ RaiseConnected \/ SendHello \/ LeaveLoop \/ PollClosed \/ PollTimeout
  \/ PollIn \/ NoMoreLines \/ DispatchHelloAck \/ DispatchPing \/ DispatchKick
  \/ DispatchLuaExec \/ GiveUp \/ StashSrc \/ GiveUpBehindSource \/ StashLen
  \/ StashSeq \/ RaiseReady \/ PumpOutbound
  \/ CloseFlag \/ CloseFd \/ CloseClear \/ CloseReady

-----------------------------------------------------------------------------
\* The game thread.

\* multiworld_init, the first time: RemoteApi::Init, and a call of
\* RemoteLua.Update left with the engine.
StartWorker ==
  /\ gpc = "idle" /\ gpush = NoPush /\ ~s_initialized
  /\ s_initialized' = TRUE /\ wpc' = "prepare" /\ updateDue' = TRUE
  /\ UNCHANGED <<workerLocals, g_inbound, connection, mailbox, sendQueue,
                 clientSubs, pcSide, gpc, gcmd, gpush, histories, errors,
                 inputs>>

\* multiworld_init again, with a new Lua state: the exchange makes Init a no-op
\* and leaves the mailbox as it is, but the tick is scheduled anew.
ScheduleAgain ==
  /\ gpc = "idle" /\ gpush = NoPush /\ s_initialized
  /\ ~updateDue /\ updateDue' = TRUE
  /\ UNCHANGED <<workerSide, g_sendBuffer, s_initialized, errors, gpc, gcmd,
                 gpush, histories, inputs>>

\* ProcessCommand's test of the flag.  From here on the command is the game
\* thread's, whatever happens to the connection it came on.
TakeCommand ==
  /\ gpc = "idle" /\ gpush = NoPush /\ updateDue /\ g_readyForGameThread
  /\ gpc' = "readLen" /\ untaken' = FALSE /\ failed' = FALSE
  /\ gcmd' = [NothingRead EXCEPT !.session = session]
  /\ UNCHANGED <<workerSide, g_sendBuffer, engine, gpush, inputs>>

\* The arguments of the processor call: the length and seq are passed by value,
\* the source by reference, so it is read later, by luaL_loadbuffer.
ReadLen ==
  /\ gpc = "readLen" /\ gpc' = "readSeq"
  /\ gcmd' = [gcmd EXCEPT !.len = g_pendingLuaLen]
  /\ UNCHANGED <<workerSide, g_sendBuffer, engine, gpush, histories,
                 inputs>>

ReadSeq ==
  /\ gpc = "readSeq" /\ gpc' = "loadSrc"
  /\ gcmd' = [gcmd EXCEPT !.seq = g_pendingSeq]
  /\ UNCHANGED <<workerSide, g_sendBuffer, engine, gpush, histories,
                 inputs>>

LoadSrc ==
  /\ gpc = "loadSrc" /\ gpc' = "run"
  /\ gcmd' = [gcmd EXCEPT !.src = g_pendingLuaSrc]
  /\ UNCHANGED <<workerSide, g_sendBuffer, engine, gpush, histories,
                 inputs>>

\* The end of the pcall: the reply goes into the queue, connected or not.
EnqueueReply ==
  /\ gpc = "run" /\ gpush = NoPush /\ gpc' = "clearReady"
  /\ Enqueue([t |-> "reply", born |-> gcmd.session, seq |-> gcmd.seq,
              src |-> gcmd.src])
  /\ UNCHANGED <<workerSide, engine, gcmd, gpush, histories, inputs>>

\* tostring is called outside the pcall: when the result's __tostring raises,
\* the error unwinds ProcessCommand and multiworld_update.  Nothing is queued,
\* the flag stays up, and nobody schedules the next Update.
TostringError ==
  /\ gpc = "run" /\ gpush = NoPush /\ errors < MaxErrors
  /\ gpc' = "idle" /\ gcmd' = NothingRead
  /\ errors' = errors + 1 /\ failed' = TRUE /\ updateDue' = FALSE
  /\ UNCHANGED <<workerSide, g_sendBuffer, s_initialized, gpush, untaken,
                 inputs>>

\* Only after the enqueue does ProcessCommand give the mailbox back.
ClearReady ==
  /\ gpc = "clearReady" /\ gpc' = "idle"
  /\ g_readyForGameThread' = FALSE /\ gcmd' = NothingRead
  /\ UNCHANGED <<wpc, workerLocals, g_inbound, connection, g_pendingLuaSrc,
                 g_pendingLuaLen, g_pendingSeq, clientSubs, sendQueue,
                 pcSide, engine, gpush, histories, inputs>>

\* A Send*Json call, made by the game's own Lua or by the Lua of a running
\* command: SendLayoutUuidJson asks for a connection, the others also for the
\* subscription.  Building the envelope separates the tests from the enqueue.
CheckPush(kind) ==
  /\ gpc \in {"idle", "run"} /\ gpush = NoPush /\ pushes < MaxPushes
  /\ g_socketConnected
  /\ kind = "push" => clientSubs
  /\ gpush' = Plain(kind, session) /\ pushes' = pushes + 1
  /\ UNCHANGED <<workerSide, g_sendBuffer, engine, gpc, gcmd, histories,
                 cmds, lines>>

EnqueuePush ==
  /\ gpush # NoPush /\ gpush' = NoPush
  /\ Enqueue(gpush)
  /\ UNCHANGED <<workerSide, engine, gpc, gcmd, histories, inputs>>

ProcessCommand ==
  \/ TakeCommand \/ ReadLen \/ ReadSeq \/ LoadSrc \/ EnqueueReply
  \/ TostringError \/ ClearReady

Game ==
  \/ StartWorker \/ ScheduleAgain \/ ProcessCommand \/ EnqueuePush
  \/ \E kind \in {"layout_uuid", "push"} : CheckPush(kind)

-----------------------------------------------------------------------------
\* The PC's bridge server, external to the repository.  Nothing it sends before
\* the connection exists or after it is gone can reach the Switch.

\* Nothing in the code keeps the PC from sending the next command while it has
\* no reply to the last.
PcSendLuaExec ==
  /\ g_socket # NoSocket /\ cmds < MaxCommands
  /\ cmds' = cmds + 1
  /\ toSwitch' = Append(toSwitch, [t |-> "lua_exec", id |-> cmds + 1])
  /\ UNCHANGED <<switchSide, wire, lines, pushes>>

PcSendLine(t) ==
  /\ g_socket # NoSocket /\ lines < MaxLines
  /\ lines' = lines + 1
  /\ toSwitch' = Append(toSwitch, [t |-> t, id |-> NoCommand])
  /\ UNCHANGED <<switchSide, wire, cmds, pushes>>

Pc ==
  \/ PcSendLuaExec
  \/ \E t \in LineKinds \ {"lua_exec"} : PcSendLine(t)

-----------------------------------------------------------------------------
Next == Worker \/ Game \/ Pc

\* Both threads are scheduled for ever: the worker's loops wait with timeouts
\* only, and the engine runs RemoteLua.Update every frame.  A peer that keeps
\* the connection open keeps reading, so Send does not accept nothing for ever.
\* Nothing makes a connection fail: PollClosed is not among the worker's steps
\* that must happen.
Fairness ==
  /\ WF_vars(Worker /\ ~PollClosed)
  /\ WF_vars(ProcessCommand) /\ WF_vars(EnqueuePush)
  /\ SF_vars(PumpOutbound /\ wire' # wire)

Spec     == Init /\ [][Next]_vars
FairSpec == Spec /\ Fairness

-----------------------------------------------------------------------------
\* Properties.

\* Every variable holds a value of its type; backoff_idx never leaves the
\* schedule it indexes.
TypeOK ==
  /\ wpc \in {"off", "prepare", "resolve", "sleep", "connect", "connected",
              "hello", "poll", "lines", "stashSrc", "stashLen", "stashSeq",
              "raiseReady", "pump", "closeFlag", "closeFd", "closeClear",
              "closeReady"}
  /\ wret \in {"resolve", "lines"} /\ wline \in Nat
  /\ backoff_idx \in 0..(BackoffCount - 1)
  /\ g_inbound \in Seq(Line)
  /\ session \in Nat /\ g_socket \in Nat /\ g_socketConnected \in BOOLEAN
  /\ g_pendingLuaSrc \in Nat /\ g_pendingLuaLen \in Nat /\ g_pendingSeq \in Nat
  /\ g_readyForGameThread \in BOOLEAN
  /\ g_sendBuffer \in Seq(Message) /\ g_sendBufferLock \in {"none", "ready"}
  /\ clientSubs \in BOOLEAN /\ untaken \in BOOLEAN /\ failed \in BOOLEAN
  /\ s_initialized \in BOOLEAN /\ updateDue \in BOOLEAN /\ errors \in Nat
  /\ gpc \in {"idle", "readLen", "readSeq", "loadSrc", "run", "clearReady"}
  /\ gcmd \in Command
  /\ gpush \in Message /\ gpush.t \in GameKinds
  /\ toSwitch \in Seq(Line) /\ wire \in Seq(Message)
  /\ cmds \in Nat /\ lines \in Nat /\ pushes \in Nat /\ base \in Nat

\* The game thread locks g_sendBufferLock, which the worker initialises after
\* Init has already returned, only when it has been initialised.
LockBeforeUse ==
  gpush # NoPush \/ gpc # "idle" => g_sendBufferLock = "ready"

\* A connection the game thread can see is one with a descriptor behind it:
\* close_socket lowers the flag before it closes, tcp_connect raises it after.
ConnectedHasSocket == g_socketConnected => g_socket = session /\ session > 0

\* Once the worker is looking for the PC again, no command of the connection
\* that died is waiting to be taken by the game thread.
NoCommandAcrossRedial ==
  wpc \in {"resolve", "sleep", "connect", "connected", "hello"} =>
    ~g_readyForGameThread

\* A raised flag that the game thread can act on is that of a hand-over it has
\* not taken yet, or of one whose take an error ended: that flag stays up, and
\* the tick of the next Lua state takes the command again.  Nothing else makes
\* ProcessCommand take a hand-over a second time.
AtMostOnce ==
  g_readyForGameThread /\ gpc = "idle" => untaken \/ failed

Queued == wire \o g_sendBuffer

\* Nothing of a dead connection's commands reaches the replies of the present
\* one: what the game thread reads for a command it took on this connection, and
\* what it answers, comes from lines that arrived on this connection, however
\* many of them the PC sends ahead.  Of this connection only: one line's source
\* may still run under another's seq, see CommandOfOneLine.
RepliesOfThisConnection ==
  /\ gpc \in {"run", "clearReady"} /\ gcmd.session = session =>
       gcmd.src > base /\ gcmd.len > base /\ gcmd.seq > base
  /\ \A i \in DOMAIN Queued :
       Queued[i].t = "reply" /\ Queued[i].born = session =>
         Queued[i].src > base /\ Queued[i].seq > base

\* HELLO and pongs are the worker's own and go out on the connection they were
\* made for; each connection carries one HELLO, ahead of every pong.
InOrder(q, s) ==
  \A i \in 1..Len(q) :
    q[i].t \in WorkerKinds =>
      /\ q[i].born = s
      /\ \A j \in 1..(i - 1) : q[j].t = "hello" => q[i].t = "pong"
      /\ q[i].t = "pong" => \E j \in 1..(i - 1) : q[j].t = "hello"
WorkerMessagesInOrder == InOrder(Queued, session)

StaleIn(q, kinds) ==
  {i \in DOMAIN q : q[i].t \in kinds /\ q[i].born # session}

\* What the game thread still had in hand when a connection closed is all that
\* can leak into a later one: one reply and one push.
AtMostOneStale ==
  /\ Cardinality(StaleIn(Queued, {"reply"})) <= 1
  /\ Cardinality(StaleIn(Queued, {"push", "layout_uuid"})) <= 1

\* A connection being closed leads back to discovery, whatever the game thread
\* does: the worker never waits for it.
ClosedIsRedialled == wpc = "closeFlag" ~> wpc = "resolve"

\* A command waiting in the mailbox is taken by the game thread or dropped with
\* its connection.  One thing only can leave it there: an error ended the last
\* take, and with it the tick, and Lua has not scheduled a new one.
CommandTakenOrDropped ==
  g_readyForGameThread /\ gpc = "idle" ~>
    gpc # "idle" \/ ~g_readyForGameThread \/ (failed /\ ~updateDue)

\* A reply in the queue of an open connection leaves it for the PC, unless that
\* connection is closed first.
ReplySentOrClosed ==
  \A c \in 1..MaxCommands :
    (\E i \in DOMAIN g_sendBuffer : g_sendBuffer[i].seq = c) ~>
      \/ \A i \in DOMAIN g_sendBuffer : g_sendBuffer[i].seq # c
      \/ g_socket = NoSocket

-----------------------------------------------------------------------------
\* What comments of the code say and the code does not do.

\* worker_main, before sendHello: "First message: HELLO."
HelloFirst == wire # <<>> => Head(wire).t = "hello"

\* remote_api.hpp on ProcessCommand: "If a queued lua_exec is pending, runs the
\* processor".  A command handed over when each one before it on the connection
\* has been answered is run under its seq, unless the PC sends another behind it
\* or the connection closes.
Answered(c) == \E i \in DOMAIN wire : wire[i].seq = c
QueuedCommandRuns ==
  \A c \in 1..MaxCommands :
    wpc = "raiseReady" /\ wline = c /\ (\A d \in (base + 1)..(c - 1) : Answered(d))
      ~> gcmd.seq = c \/ cmds > c \/ g_socket = NoSocket

\* The lifecycle comment of remote_api.cpp: for a lua_exec source and seq are
\* stashed, the flag is flipped and the game thread "runs the lua, builds
\* lua_exec_reply".  What it runs is the source, length and seq of one line.
CommandOfOneLine ==
  gpc = "run" => gcmd.src = gcmd.seq /\ gcmd.len = gcmd.seq
=============================================================================
