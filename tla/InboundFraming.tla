--------------------------- MODULE InboundFraming ---------------------------
(***************************************************************************)
(* g_inbound of source/program/remote_api.cpp, byte by byte: how           *)
(* drain_into_inbound, find_newline and consume_line cut the byte stream   *)
(* of the PC into the lines that dispatch_line is given.  TCP hands the    *)
(* stream over in pieces of any size; a line longer than the stack buffer  *)
(* of worker_main is cut, one longer than g_inbound is dropped up to where *)
(* the buffer was full.                                                    *)
(***************************************************************************)
EXTENDS Integers, Sequences, SequencesExt, FiniteSetsExt

CONSTANTS
  InboundCap,   \* kInboundCap: bytes of g_inbound
  LineCap,      \* sizeof(line_buf) - 1: bytes of a line that are dispatched
  MaxLineLen,   \* bound: bytes of a line, without its newline
  MaxLines,     \* bound: lines the PC sends on one connection
  MaxSessions   \* bound: connections made

ASSUME CapsAssumption ==
  /\ {InboundCap, LineCap} \subseteq Nat \ {0} /\ LineCap < InboundCap
  /\ {MaxLineLen, MaxLines, MaxSessions} \subseteq Nat

VARIABLES
  wpc,         \* "poll", "lines" (the loop over complete lines) or "closed"
  g_inbound,   \* the first g_inboundLen bytes of the buffer
  stream,      \* bytes sent on this connection and not received yet
  sent,        \* the lines the PC sent on this connection
  peerClosed,  \* the PC has shut its side down, or the connection has failed
  dispatched,  \* what dispatch_line was called with on this connection
  sessions     \* connections made

vars == <<wpc, g_inbound, stream, sent, peerClosed, dispatched, sessions>>

\* A byte is known by the line it belongs to and its place in it; the newline
\* is at place 0.
Payload(i, len) == [p \in 1..len |-> [line |-> i, pos |-> p]]
Newline(i)      == [line |-> i, pos |-> 0]
Byte == [line: 1..MaxLines, pos: 0..MaxLineLen]

Init ==
  /\ wpc = "closed" /\ g_inbound = <<>> /\ stream = <<>> /\ sent = <<>>
  /\ peerClosed = FALSE /\ dispatched = <<>> /\ sessions = 0

\* find_newline: the index of the first newline, 0 if there is none.
find_newline ==
  LET newlines == {i \in DOMAIN g_inbound : g_inbound[i].pos = 0}
  IN  IF newlines = {} THEN 0 ELSE Min(newlines)

\* Faulty variants of single definitions, here and below; each breaks a property.

\* The whole line is copied into line_buf.
LineBufUncut(nl) == SubSeq(g_inbound, 1, nl - 1)

\* The newline itself stays in the buffer.
ConsumeKeepsNewline(nl) == SubSeq(g_inbound, nl, Len(g_inbound))

\* What was received behind the newline is discarded with the line.
ConsumeAll(nl) == <<>>

\* What worker_main copies into line_buf, of the line that ends at nl.
LineBuf(nl) == SubSeq(g_inbound, 1, Min({nl - 1, LineCap}))

\* consume_line: the bytes behind the newline move to the front.
consume_line(nl) == SubSeq(g_inbound, nl + 1, Len(g_inbound))

\* A kick is recognised when all of it is dispatched.
IsKick(line) ==
  line # <<>> /\ sent[line[1].line].kick /\ Len(line) = sent[line[1].line].len

\* drain_into_inbound, before Recv: a full buffer is reset.
Kept == IF Len(g_inbound) >= InboundCap THEN <<>> ELSE g_inbound

close_socket ==
  /\ wpc' = "closed" /\ g_inbound' = <<>> /\ stream' = <<>>

\* A full buffer is not reset, so Recv is asked for 0 bytes and returns 0, which
\* reads as the peer's FIN.
ReceiveNoReset ==
  /\ wpc = "poll" /\ stream # <<>>
  /\ IF Len(g_inbound) = InboundCap
     THEN /\ close_socket
     ELSE \E n \in 1..Min({InboundCap - Len(g_inbound), Len(stream)}) :
            /\ g_inbound' = g_inbound \o SubSeq(stream, 1, n)
            /\ stream' = SubSeq(stream, n + 1, Len(stream))
            /\ wpc' = "lines"
  /\ UNCHANGED <<sent, peerClosed, dispatched, sessions>>

-----------------------------------------------------------------------------
\* tcp_connect: the buffer starts empty.
Connect ==
  /\ wpc = "closed" /\ sessions < MaxSessions
  /\ wpc' = "poll" /\ sessions' = sessions + 1
  /\ g_inbound' = <<>> /\ stream' = <<>> /\ sent' = <<>>
  /\ peerClosed' = FALSE /\ dispatched' = <<>>

\* POLLIN, and Recv takes what it likes of what has arrived and fits.
Receive ==
  /\ wpc = "poll" /\ stream # <<>>
  /\ \E n \in 1..Min({InboundCap - Len(Kept), Len(stream)}) :
       /\ g_inbound' = Kept \o SubSeq(stream, 1, n)
       /\ stream' = SubSeq(stream, n + 1, Len(stream))
  /\ wpc' = "lines"
  /\ UNCHANGED <<sent, peerClosed, dispatched, sessions>>

\* POLLIN, but Recv fails, which it may at any time: not the end of the
\* connection, and the full buffer has been reset all the same.
ReceiveFails ==
  /\ wpc = "poll"
  /\ g_inbound' = Kept /\ wpc' = "lines"
  /\ UNCHANGED <<stream, sent, peerClosed, dispatched, sessions>>

\* Recv returns 0 when everything the PC sent has been read; POLLHUP, POLLERR and
\* a Poll that fails do not wait for that.
PeerGone ==
  /\ wpc = "poll" /\ peerClosed
  /\ close_socket
  /\ UNCHANGED <<sent, peerClosed, dispatched, sessions>>

\* One turn of the line loop, for a line that is not a kick.
DispatchLine ==
  LET nl == find_newline
  IN  /\ wpc = "lines" /\ nl # 0 /\ ~IsKick(LineBuf(nl))
      /\ g_inbound' = consume_line(nl)
      /\ dispatched' = Append(dispatched, LineBuf(nl))
      /\ UNCHANGED <<wpc, stream, sent, peerClosed, sessions>>

\* A kick empties the buffer under the loop that called dispatch_line.
DispatchKick ==
  LET nl == find_newline
  IN  /\ wpc = "lines" /\ nl # 0 /\ IsKick(LineBuf(nl))
      /\ dispatched' = Append(dispatched, LineBuf(nl))
      /\ close_socket
      /\ UNCHANGED <<sent, peerClosed, sessions>>

NoMoreLines ==
  /\ wpc = "lines" /\ find_newline = 0 /\ wpc' = "poll"
  /\ UNCHANGED <<g_inbound, stream, sent, peerClosed, dispatched, sessions>>

Worker ==
  \/ Connect \/ Receive \/ ReceiveFails \/ PeerGone
  \/ DispatchLine \/ DispatchKick \/ NoMoreLines

\* The PC, external: a line is any number of bytes and a newline.
PcSend(len, kick) ==
  /\ wpc # "closed" /\ ~peerClosed /\ Len(sent) < MaxLines
  /\ kick => len \in 1..LineCap
  /\ sent' = Append(sent, [len |-> len, kick |-> kick])
  /\ stream' = stream \o Append(Payload(Len(sent) + 1, len),
                                Newline(Len(sent) + 1))
  /\ UNCHANGED <<wpc, g_inbound, peerClosed, dispatched, sessions>>

PcClose ==
  /\ wpc # "closed" /\ ~peerClosed /\ peerClosed' = TRUE
  /\ UNCHANGED <<wpc, g_inbound, stream, sent, dispatched, sessions>>

Pc == PcClose \/ \E len \in 0..MaxLineLen, kick \in BOOLEAN : PcSend(len, kick)

Next == Worker \/ Pc

\* The worker's loop waits with timeouts only.  A Recv that fails is tried again
\* at the next POLLIN: with bytes in the socket it does not fail for ever.
Spec == Init /\ [][Next]_vars /\ WF_vars(Worker) /\ SF_vars(Receive)

-----------------------------------------------------------------------------
\* Properties.

\* No index leaves its buffer: g_inbound holds at most kInboundCap bytes, and
\* what is copied into line_buf leaves room for its terminator.
TypeOK ==
  /\ wpc \in {"poll", "lines", "closed"} /\ peerClosed \in BOOLEAN
  /\ g_inbound \in Seq(Byte) /\ Len(g_inbound) <= InboundCap
  /\ stream \in Seq(Byte)
  /\ sent \in Seq([len: 0..MaxLineLen, kick: BOOLEAN])
  /\ dispatched \in Seq(Seq(Byte))
  /\ \A i \in DOMAIN dispatched : Len(dispatched[i]) <= LineCap
  /\ sessions \in 0..MaxSessions

\* What is dispatched for a line of len bytes: the line itself up to LineCap
\* bytes, the first LineCap bytes of a line that fits g_inbound, and of a longer
\* one what is left behind the last full buffer.
Expected(i) ==
  LET len  == sent[i].len
      from == InboundCap * (len \div InboundCap)
  IN  SubSeq(Payload(i, len), from + 1, Min({len, from + LineCap}))

\* The i-th call of dispatch_line is for the i-th line the PC sent, and what it
\* is given depends on that line only: not on how TCP cut the stream into
\* pieces, nor on the lines around it, the overlong ones included.
LinesAsExpected ==
  \A i \in DOMAIN dispatched : i \in DOMAIN sent /\ dispatched[i] = Expected(i)

\* While the connection is open no newline is lost: each line the PC sent has
\* been dispatched, is in g_inbound or is still to be received.  The reset of a
\* full buffer drops bytes of one line only.
Newlines(q) == Quantify(DOMAIN q, LAMBDA i : q[i].pos = 0)
NoLineLost ==
  wpc # "closed" =>
    Len(dispatched) + Newlines(g_inbound) + Newlines(stream) = Len(sent)

\* Every line sent is dispatched, however long the lines before it were, unless
\* the PC closes the connection or has sent a kick before it.
LinesArrive ==
  \A i \in 1..MaxLines :
    Len(sent) >= i ~>
      \/ Len(dispatched) >= i
      \/ peerClosed
      \/ \E j \in 1..(i - 1) : j \in DOMAIN sent /\ sent[j].kick
=============================================================================
