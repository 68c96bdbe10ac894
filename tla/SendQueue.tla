----------------------------- MODULE SendQueue -----------------------------
(***************************************************************************)
(* g_sendBuffer of source/program/remote_api.cpp, byte by byte: enqueue,   *)
(* the loop of pump_outbound with its partial sends, and the clear of      *)
(* close_socket.  pump_outbound holds g_sendBufferLock for the whole loop, *)
(* so the only steps between two Sends are the kernel's and the PC's.      *)
(***************************************************************************)
EXTENDS Integers, Sequences, FiniteSets, SequencesExt

CONSTANTS
  MaxLen,      \* bound: bytes of a message, the newline included
  MaxMessages, \* bound: messages enqueued
  MaxSessions  \* bound: connections made

ASSUME BoundsAssumption ==
  MaxLen \in Nat \ {0} /\ {MaxMessages, MaxSessions} \subseteq Nat

VARIABLES
  g_sendBuffer,  \* the buffers, oldest first, each what is left of a message
  pos,           \* the loop's position while pump_outbound runs, else 0
  g_socket,      \* "open", "closed" (g_sendBuffer not cleared yet) or "none"
  wire,          \* bytes the kernel accepted on this connection
  made,          \* messages made so far
  sessions       \* connections made so far

vars == <<g_sendBuffer, pos, g_socket, wire, made, sessions>>

\* Message id as its bytes.  Its length is a function of its id, so that the
\* messages of a run have different lengths; the last byte is the newline.
LenOf(id) == 1 + ((id - 1) % MaxLen)
BytesOf(id) == [p \in 1..LenOf(id) |-> [id |-> id, pos |-> p]]

Byte == [id: 1..MaxMessages, pos: 1..MaxLen]

Init ==
  /\ g_sendBuffer = <<>> /\ pos = 0 /\ g_socket = "none"
  /\ wire = <<>> /\ made = 0 /\ sessions = 0

-----------------------------------------------------------------------------
\* Faulty variants of single statements; each breaks a property below.

\* A partial write does not end the loop.
SendSomeNoBreak ==
  /\ pos \in 1..Len(g_sendBuffer) /\ g_socket = "open"
  /\ \E n \in 1..(Len(g_sendBuffer[pos]) - 1) :
       /\ wire' = wire \o SubSeq(g_sendBuffer[pos], 1, n)
       /\ g_sendBuffer' = [g_sendBuffer EXCEPT
                             ![pos] = SubSeq(@, n + 1, Len(@))]
  /\ pos' = pos + 1
  /\ UNCHANGED <<g_socket, made, sessions>>

\* A finished buffer is erased inside the loop, under the iterator.
SendAllErasing ==
  /\ pos \in 1..Len(g_sendBuffer) /\ g_socket = "open"
  /\ wire' = wire \o g_sendBuffer[pos]
  /\ g_sendBuffer' = RemoveAt(g_sendBuffer, pos)
  /\ pos' = pos + 1
  /\ UNCHANGED <<g_socket, made, sessions>>

\* Finished buffers stay in the queue.
EndPumpKeepsEmpty ==
  /\ pos = Len(g_sendBuffer) + 1
  /\ pos' = 0
  /\ UNCHANGED <<g_sendBuffer, g_socket, wire, made, sessions>>

\* close_socket keeps what was not sent.
ClearForgotten ==
  /\ g_socket = "closed" /\ g_socket' = "none"
  /\ UNCHANGED <<g_sendBuffer, pos, wire, made, sessions>>

\* The pump is skipped when more than one message is waiting.
StartPumpIfQuiet ==
  /\ pos = 0 /\ g_socket \in {"open", "none"} /\ sessions > 0
  /\ Len(g_sendBuffer) = 1
  /\ pos' = 1
  /\ UNCHANGED <<g_sendBuffer, g_socket, wire, made, sessions>>

-----------------------------------------------------------------------------
\* enqueue, by either thread, whenever the lock is free: also with no socket,
\* because ProcessCommand and a push past its checks do not look again.
Enqueue ==
  /\ pos = 0 /\ made < MaxMessages
  /\ made' = made + 1
  /\ g_sendBuffer' = Append(g_sendBuffer, BytesOf(made + 1))
  /\ UNCHANGED <<pos, g_socket, wire, sessions>>

Connect ==
  /\ g_socket = "none" /\ pos = 0 /\ sessions < MaxSessions
  /\ g_socket' = "open" /\ sessions' = sessions + 1 /\ wire' = <<>>
  /\ UNCHANGED <<g_sendBuffer, pos, made>>

\* close_socket: the descriptor goes first, the queue is cleared later.
Close ==
  /\ g_socket = "open" /\ pos = 0
  /\ g_socket' = "closed"
  /\ UNCHANGED <<g_sendBuffer, pos, wire, made, sessions>>

Clear ==
  /\ g_socket = "closed" /\ g_socket' = "none"
  /\ g_sendBuffer' = <<>>
  /\ UNCHANGED <<pos, wire, made, sessions>>

\* pump_outbound takes the lock.  The turn of the loop that handled a kick pumps
\* once more, with no socket.
StartPump ==
  /\ pos = 0 /\ g_socket \in {"open", "none"} /\ sessions > 0
  /\ pos' = 1
  /\ UNCHANGED <<g_sendBuffer, g_socket, wire, made, sessions>>

\* Send would block or failed: the loop ends.
SendNothing ==
  /\ pos \in 1..Len(g_sendBuffer)
  /\ pos' = Len(g_sendBuffer) + 1
  /\ UNCHANGED <<g_sendBuffer, g_socket, wire, made, sessions>>

\* Send took the whole buffer: it is emptied, and the loop goes on.
SendAll ==
  /\ pos \in 1..Len(g_sendBuffer) /\ g_socket = "open"
  /\ wire' = wire \o g_sendBuffer[pos]
  /\ g_sendBuffer' = [g_sendBuffer EXCEPT ![pos] = <<>>]
  /\ pos' = pos + 1
  /\ UNCHANGED <<g_socket, made, sessions>>

\* Send took a part: the tail stays, and the loop ends.
SendSome ==
  /\ pos \in 1..Len(g_sendBuffer) /\ g_socket = "open"
  /\ \E n \in 1..(Len(g_sendBuffer[pos]) - 1) :
       /\ wire' = wire \o SubSeq(g_sendBuffer[pos], 1, n)
       /\ g_sendBuffer' = [g_sendBuffer EXCEPT
                             ![pos] = SubSeq(@, n + 1, Len(@))]
  /\ pos' = Len(g_sendBuffer) + 1
  /\ UNCHANGED <<g_socket, made, sessions>>

\* remove_if: the buffers with something left, each at its place among them.
Kept == {i \in DOMAIN g_sendBuffer : g_sendBuffer[i] # <<>>}
KeptAt(n) == CHOOSE i \in Kept : Cardinality({j \in Kept : j <= i}) = n

\* The erase of the emptied buffers, and the unlock.
EndPump ==
  /\ pos = Len(g_sendBuffer) + 1
  /\ g_sendBuffer' = [n \in 1..Cardinality(Kept) |-> g_sendBuffer[KeptAt(n)]]
  /\ pos' = 0
  /\ UNCHANGED <<g_socket, wire, made, sessions>>

Send == SendAll \/ SendSome

Next ==
  \/ Enqueue \/ Connect \/ Close \/ Clear
  \/ StartPump \/ Send \/ SendNothing \/ EndPump

\* The worker pumps on every turn of its poll loop, and a peer that keeps the
\* connection keeps reading, so Send takes something again and again.
Fairness ==
  /\ WF_vars(Clear) /\ WF_vars(StartPump) /\ WF_vars(EndPump)
  /\ SF_vars(Send)

Spec == Init /\ [][Next]_vars /\ Fairness

-----------------------------------------------------------------------------
\* Properties.

\* The loop position stays inside the queue it walks.
TypeOK ==
  /\ g_sendBuffer \in Seq(Seq(Byte))
  /\ pos \in 0..(Len(g_sendBuffer) + 1)
  /\ g_socket \in {"none", "open", "closed"}
  /\ wire \in Seq(Byte)
  /\ made \in 0..MaxMessages /\ sessions \in 0..MaxSessions

\* The comment in pump_outbound: nothing is spliced ahead of an unsent tail.  A
\* byte on the wire is followed by the next of its message or, after the
\* newline, by the first of a later one; a connection starts with a first byte.
NoSplice ==
  \A i \in DOMAIN wire :
    \/ wire[i].pos = 1 /\ i = 1
    \/ /\ i > 1 /\ wire[i].id = wire[i - 1].id
       /\ wire[i].pos = wire[i - 1].pos + 1
    \/ /\ i > 1 /\ wire[i].id > wire[i - 1].id
       /\ wire[i].pos = 1 /\ wire[i - 1].pos = LenOf(wire[i - 1].id)

\* Between two pumps the queue holds only messages with something left to send,
\* and only the first of them can be cut.
OnlyHeadIsCut ==
  pos = 0 =>
    \A i \in DOMAIN g_sendBuffer :
      /\ g_sendBuffer[i] # <<>>
      /\ i > 1 => g_sendBuffer[i][1].pos = 1

\* Clearing takes place between a partly sent message and a new connection, and
\* nothing else loses a byte: the queue implements a first-in first-out stream.
Stream == INSTANCE ByteStream WITH
            MessageBytes <- BytesOf, waiting <- FlattenSeq(g_sendBuffer),
            sent <- wire, made <- made, link <- g_socket
ImplementsStream == Stream!Spec

\* What is queued on an open connection is sent to its last byte, unless the
\* connection is closed.
IsQueued(id) ==
  \E i \in DOMAIN g_sendBuffer : g_sendBuffer[i] # <<>> /\ g_sendBuffer[i][1].id = id
QueueDrains ==
  \A id \in 1..MaxMessages :
    IsQueued(id) /\ g_socket = "open" ~> ~IsQueued(id) \/ g_socket # "open"
=============================================================================
