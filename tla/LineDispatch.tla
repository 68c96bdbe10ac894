---------------------------- MODULE LineDispatch ----------------------------
(***************************************************************************)
(* What becomes of one line: dispatch_line of remote_api.cpp walks it with *)
(* a Reader, once for its type and once more for the fields of a lua_exec  *)
(* or a ping, and parseReply of discovery.cpp does the same with the       *)
(* answer to a probe.  One step is one turn of a field loop.  The line is  *)
(* what the sender meant, or its beginning: line_buf and the receive       *)
(* buffers cut what is too long for them.  The mailbox is the one of       *)
(* RemoteApi, with the lengths and the narrowing of its fields kept; it    *)
(* holds an earlier command when the line arrives.                         *)
(***************************************************************************)
EXTENDS JsonLine, FiniteSets

CONSTANTS
  Lines,       \* field sequences of the lines that the PC sends
  Replies,     \* field sequences of the datagrams that answer a probe
  Envelopes,   \* field sequences of the envelopes that the mod writes
  BufferSize,  \* characters a CommandBuffer holds
  LineCap,     \* kCap: characters a LineBuffer holds
  HostSize,    \* characters of a host that parseReply keeps
  IntRange,    \* how many values an int has: a seq or a port is narrowed to it
  PortMax      \* 0xFFFF

\* The mailbox when a line arrives: a command that is not taken yet.
OldCommand == [src |-> <<"old", "old">>, len |-> 2, seq |-> 1, ready |-> TRUE]

ASSUME ConstantsAssumption ==
  /\ {BufferSize, LineCap, HostSize, IntRange, PortMax} \subseteq Nat \ {0}
  /\ PortMax < IntRange
  /\ BufferSize >= Len(OldCommand.src)
  /\ {"old", "t", "pong", "ts_ms"} \subseteq Char
  /\ Lines \cup Replies \cup Envelopes \subseteq Seq(FieldType)

VARIABLES
  pc,        \* the loop that runs: "idle", "type", "lua_exec", "ping", "reply"
  caller,    \* who walks the line: "dispatch_line" or "parseReply"
  line,      \* the tokens in the buffer
  sent,      \* history: the fields the sender wrote
  seen,     \* history: the fields that the buffer shows of them
  torn,      \* history: the end of the line is missing
  r,         \* the Reader of the loop
  got,       \* the locals of the loops
  mailbox,   \* g_pendingLuaSrc, g_pendingLuaLen, g_pendingSeq and the flag
  before,    \* history: the mailbox when the line arrived
  did,       \* history: what the line led to
  queued     \* the envelope written: its tokens and what was meant

vars == <<pc, caller, line, sent, seen, torn, r, got, mailbox, before, did, queued>>
input == <<caller, line, sent, seen, torn, before>>

-----------------------------------------------------------------------------
\* What a line can lead to.
Nothing         == [kind |-> "nothing"]
Command(src, n) == [kind |-> "command", src |-> src, seq |-> n]
Pong(ts)        == [kind |-> "pong", ts_ms |-> ts]
Target(host, n) == [kind |-> "target", host |-> host, port |-> n]

NoLocals == [t_val |-> <<>>, src_len |-> 0, seq |-> 0, ts_ms |-> 0,
             saw_t_bridge |-> FALSE, host |-> <<>>, port |-> 0]

Prefix(s, n) == SubSeq(s, 1, IF n < Len(s) THEN n ELSE Len(s))
\* memcpy to the start of a buffer: what lies behind it stays.
Overlay(old, new) == new \o SubSeq(old, Len(new) + 1, Len(old))
\* static_cast<int> of a 64-bit number.
Narrow(i) == i % IntRange

Init ==
  /\ pc = "start" /\ caller = "dispatch_line"
  /\ line = <<>> /\ sent = <<>> /\ seen = <<>> /\ torn = FALSE
  /\ r = NewReader /\ got = NoLocals
  /\ mailbox = OldCommand /\ before = mailbox
  /\ did = Nothing /\ queued = [out |-> <<>>, meant |-> <<>>]

-----------------------------------------------------------------------------
\* The first n tokens of a line, the last of them perhaps cut: a string without
\* its end, a number of several digits without its last one.  A cut literal is
\* to every caller like one that is missing.
Shortened(token) == IF token.k = "str" THEN Mark("cut") ELSE Int64(token.n \div 10)
CanBeCut(token) == token.k = "str" \/ (token.k = "int" /\ token.n > 9)
FirstTokens(b, n, cut) ==
  IF cut THEN Append(Prefix(b, n - 1), Shortened(b[n])) ELSE Prefix(b, n)

\* What the tokens b show of the fields fs: field i ends with token 4 * i, and a
\* number that has lost digits reads like any other.
SeenFields(fs, b) ==
  LET there == {i \in DOMAIN fs : 4 * i <= Len(b) /\ b[4 * i].k # "cut"}
  IN  [i \in there |-> [fs[i] EXCEPT !.val = b[4 * i]]]

\* A line or a datagram in its buffer, and enterObject.
Arrive(who, fs) ==
  /\ pc = "start"
  /\ \E b \in {ObjectTokens(fs)} : \E n \in 0..Len(b), cut \in BOOLEAN :
       /\ cut => n > 0 /\ CanBeCut(b[n])
       /\ line' = FirstTokens(b, n, cut) /\ torn' = (n < Len(b))
  /\ sent' = fs /\ seen' = SeenFields(fs, line')
  /\ caller' = who /\ before' = mailbox
  /\ LET entered == enterObject(line', NewReader)
     IN  /\ r' = entered.r
         /\ pc' = IF ~entered.ok THEN "done"
                  ELSE IF who = "parseReply" THEN "reply" ELSE "type"
  /\ UNCHANGED <<got, mailbox, did, queued>>

-----------------------------------------------------------------------------
\* The field loops: what each looks for, and of which kind it must be.
Wanted == [type     |-> [t |-> "str"],
           lua_exec |-> [seq |-> "int", src |-> "str"],
           ping     |-> [ts_ms |-> "int"],
           reply    |-> [t |-> "str", host |-> "str", port |-> "int"]]
Loops == DOMAIN Wanted

\* What nextField returns at this turn, and for a wanted field what nextString
\* or nextInt returns after it.
Field == nextField(line, r)
IsWanted == \E word \in DOMAIN Wanted[pc] : Field.val.s = <<word>>
Value(word) == IF Wanted[pc][word] = "str" THEN nextString(line, Field.r)
                                           ELSE nextInt(line, Field.r)

\* The loop goes on behind the value of the field named word.
Take(loop, word) ==
  /\ pc = loop /\ Field.ok /\ Field.val.s = <<word>> /\ Value(word).ok
  /\ r' = Value(word).r
  /\ UNCHANGED <<pc, input, did, queued>>

\* A field nobody asked for.
SkipField ==
  /\ pc \in Loops /\ Field.ok /\ ~IsWanted
  /\ r' = skipValue(line, Field.r)
  /\ UNCHANGED <<pc, input, got, mailbox, did, queued>>

\* The value of a wanted field is of another kind: the line is given up.
GiveUp ==
  /\ pc \in Loops /\ Field.ok
  /\ \E word \in DOMAIN Wanted[pc] : Field.val.s = <<word>> /\ ~Value(word).ok
  /\ pc' = "done"
  /\ UNCHANGED <<input, r, got, mailbox, did, queued>>

TypeField ==
  /\ Take("type", "t")
  /\ got' = [got EXCEPT !.t_val = Value("t").val.s]
  /\ UNCHANGED mailbox

\* A faulty variant that stores the number in the mailbox at once.
SeqFieldStored ==
  /\ Take("lua_exec", "seq")
  /\ got' = [got EXCEPT !.seq = Narrow(Value("seq").val.n)]
  /\ mailbox' = [mailbox EXCEPT !.seq = Narrow(Value("seq").val.n)]
SeqField ==
  /\ Take("lua_exec", "seq")
  /\ got' = [got EXCEPT !.seq = Narrow(Value("seq").val.n)]
  /\ UNCHANGED mailbox

\* The source goes into the mailbox as soon as it is read.
SrcFieldUncut ==
  /\ Take("lua_exec", "src")
  /\ LET src == Value("src").val.s
     IN  /\ got' = [got EXCEPT !.src_len = Len(src)]
         /\ mailbox' = [mailbox EXCEPT !.src = Overlay(@, src)]
SrcField ==
  /\ Take("lua_exec", "src")
  /\ LET src == Prefix(Value("src").val.s, BufferSize)
     IN  /\ got' = [got EXCEPT !.src_len = Len(src)]
         /\ mailbox' = [mailbox EXCEPT !.src = Overlay(@, src)]

TsField ==
  /\ Take("ping", "ts_ms")
  /\ got' = [got EXCEPT !.ts_ms = Value("ts_ms").val.n]
  /\ UNCHANGED mailbox

BridgeField ==
  /\ Take("reply", "t")
  /\ got' = [got EXCEPT !.saw_t_bridge = @ \/ Value("t").val.s = <<"bridge">>]
  /\ UNCHANGED mailbox

HostField ==
  /\ Take("reply", "host")
  /\ got' = [got EXCEPT !.host = Prefix(Value("host").val.s, HostSize)]
  /\ UNCHANGED mailbox

PortField ==
  /\ Take("reply", "port")
  /\ got' = [got EXCEPT !.port = Narrow(Value("port").val.n)]
  /\ UNCHANGED mailbox

-----------------------------------------------------------------------------
\* The end of a loop: the closing brace and an error are the same to it.
LoopEnds(loop) == pc = loop /\ ~Field.ok
Return == pc' = "done" /\ UNCHANGED <<input, r, got>>

\* The second pass is made over a copy: the first one decodes in place.
SecondPass(word) ==
  /\ LoopEnds("type") /\ got.t_val = <<word>>
  /\ pc' = word /\ r' = enterObject(line, NewReader).r
  /\ UNCHANGED <<input, got, mailbox, did, queued>>

HelloAck ==
  /\ LoopEnds("type") /\ got.t_val = <<"hello_ack">>
  /\ did' = [kind |-> "subscribed"]
  /\ Return /\ UNCHANGED <<mailbox, queued>>

\* close_socket lowers the flag.
Kick ==
  /\ LoopEnds("type") /\ got.t_val = <<"kick">>
  /\ did' = [kind |-> "closed"] /\ mailbox' = [mailbox EXCEPT !.ready = FALSE]
  /\ Return /\ UNCHANGED queued

UnknownType ==
  /\ LoopEnds("type")
  /\ got.t_val \notin {<<"lua_exec">>, <<"ping">>, <<"hello_ack">>, <<"kick">>}
  /\ Return /\ UNCHANGED <<mailbox, did, queued>>

HandOver ==
  /\ LoopEnds("lua_exec")
  /\ mailbox' = [mailbox EXCEPT !.len = got.src_len, !.seq = got.seq,
                                !.ready = TRUE]
  /\ did' = Command(Prefix(mailbox.src, got.src_len), got.seq)
  /\ Return /\ UNCHANGED queued

\* An envelope written with the Encoder into a LineBuffer.
Write(fs) == queued' = [out |-> Encode(fs, LineCap), meant |-> fs]

enqueue_pong ==
  /\ LoopEnds("ping")
  /\ did' = Pong(got.ts_ms)
  /\ Write(<<[key |-> <<"t">>, val |-> Str(<<"pong">>)],
             [key |-> <<"ts_ms">>, val |-> Int64(got.ts_ms)]>>)
  /\ Return /\ UNCHANGED mailbox

ReplyEnds ==
  /\ LoopEnds("reply")
  /\ did' = IF got.saw_t_bridge /\ got.host # <<>> /\ got.port \in 1..PortMax
            THEN Target(got.host, got.port) ELSE Nothing
  /\ Return /\ UNCHANGED <<mailbox, queued>>

\* The Send*Json helpers, HELLO, the reply of ProcessCommand and the probe.
\* SendInventoryJson puts its array literal into the LineBuffer between a name
\* and the closing brace; it is one value that ends where the literal ends.
WriteEnvelope(fs) ==
  /\ pc = "start" /\ pc' = "done"
  /\ Write(fs)
  /\ UNCHANGED <<input, r, got, mailbox, did>>

-----------------------------------------------------------------------------
FieldTaken ==
  \/ TypeField \/ SeqField \/ SrcField \/ TsField
  \/ BridgeField \/ HostField \/ PortField

Next ==
  \/ \E fs \in Lines : Arrive("dispatch_line", fs)
  \/ \E fs \in Replies : Arrive("parseReply", fs)
  \/ FieldTaken \/ SkipField \/ GiveUp
  \/ \E word \in {"lua_exec", "ping"} : SecondPass(word)
  \/ HelloAck \/ Kick \/ UnknownType \/ HandOver \/ enqueue_pong \/ ReplyEnds
  \/ \E fs \in Envelopes : WriteEnvelope(fs)

Spec == Init /\ [][Next]_vars

-----------------------------------------------------------------------------
\* What a line means, from its fields alone.

\* How far a loop that looks for the keys in known gets: to the first field
\* whose name has an escape that is none, or to the first of another name whose
\* value is neither a string nor null.  The reader is stuck there, because
\* trying a string first has set its error.
Name(f) == Decode(f.key)
Readable(val) == val.k = "str" /\ "bad" \notin ToSet(Decode(val.s))
Reached(fs, known) ==
  LET stops == {i \in DOMAIN fs :
                  \/ "bad" \in ToSet(Name(fs[i]))
                  \/ /\ Name(fs[i]) \notin {<<w>> : w \in known}
                     /\ fs[i].val.k # "null" /\ ~Readable(fs[i].val)}
  IN  {i \in DOMAIN fs : \A j \in stops : i < j}

\* A wanted field of the wrong kind within reach makes the caller give up.
IllTyped(fs, loop) ==
  \E i \in Reached(fs, DOMAIN Wanted[loop]), word \in DOMAIN Wanted[loop] :
    /\ Name(fs[i]) = <<word>>
    /\ IF Wanted[loop][word] = "str" THEN ~Readable(fs[i].val)
                                     ELSE fs[i].val.k # "int"

\* The last of the fields with one name that are reached, or a default.
LastValue(fs, loop, word, default) ==
  LET at == {i \in Reached(fs, DOMAIN Wanted[loop]) : Name(fs[i]) = <<word>>}
  IN  IF at = {} THEN default ELSE fs[CHOOSE i \in at : \A j \in at : j <= i].val

Chars(token) == Decode(token.s)

MeaningOfLine(fs) ==
  LET t     == Chars(LastValue(fs, "type", "t", Str(<<>>)))
      Of(loop, word, default) == LastValue(fs, loop, word, default)
  IN  IF IllTyped(fs, "type") THEN Nothing
      ELSE CASE t = <<"lua_exec">> /\ ~IllTyped(fs, "lua_exec") ->
                  Command(Prefix(Chars(Of("lua_exec", "src", Str(<<>>))), BufferSize),
                          Narrow(Of("lua_exec", "seq", Int64(0)).n))
             [] t = <<"ping">> /\ ~IllTyped(fs, "ping") ->
                  Pong(Of("ping", "ts_ms", Int64(0)).n)
             [] t = <<"hello_ack">> -> [kind |-> "subscribed"]
             [] t = <<"kick">> -> [kind |-> "closed"]
             [] OTHER -> Nothing

MeaningOfReply(fs) ==
  LET host == Prefix(Chars(LastValue(fs, "reply", "host", Str(<<>>))), HostSize)
      port == Narrow(LastValue(fs, "reply", "port", Int64(0)).n)
      bridge == \E i \in Reached(fs, DOMAIN Wanted.reply) :
                  Name(fs[i]) = <<"t">> /\ Chars(fs[i].val) = <<"bridge">>
  IN  IF ~IllTyped(fs, "reply") /\ bridge /\ host # <<>> /\ port \in 1..PortMax
      THEN Target(host, port) ELSE Nothing

MeaningOf(fs) == IF caller = "parseReply" THEN MeaningOfReply(fs)
                                          ELSE MeaningOfLine(fs)

\* What a line without its end can show of the fields fs: the first of them as
\* they are, or the last of these a number that has lost its end.
Beginnings(fs) ==
  {Prefix(fs, n) : n \in 0..Len(fs)} \cup
  {[Prefix(fs, n) EXCEPT ![n].val = Shortened(@)] :
     n \in {i \in DOMAIN fs : fs[i].val.k = "int" /\ CanBeCut(fs[i].val)}}

-----------------------------------------------------------------------------
\* Properties.

\* Every variable holds a value of its type: no source outgrows the mailbox, no
\* host its array and no envelope the LineBuffer, whatever the line says.
TypeOK ==
  /\ pc \in {"start", "done"} \cup Loops
  /\ caller \in {"dispatch_line", "parseReply"} /\ torn \in BOOLEAN
  /\ \A i \in DOMAIN line : line[i].k \in TokenKinds
  /\ r.p \in 1..(Len(line) + 1)
  /\ Len(mailbox.src) <= BufferSize /\ mailbox.len <= BufferSize
  /\ mailbox.seq \in 0..(IntRange - 1) /\ mailbox.ready \in BOOLEAN
  /\ Len(got.host) <= HostSize /\ got.port \in 0..(IntRange - 1)
  /\ Len(Text(queued.out)) <= LineCap

\* A whole line leads to what its fields mean, read one after the other up to
\* the first that the loop cannot skip: the two passes of dispatch_line, the
\* skips with isNull, nextString, nextInt and nextBool and the escapes decoded
\* in place neither lose nor invent a field.
LineAsMeant == pc = "done" /\ line # <<>> /\ ~torn => did = MeaningOf(sent)

\* A line whose end is missing leads to nothing or to what a beginning of its
\* fields means.  No string counts without its end: a source or a host that the
\* end of the buffer cuts is neither run nor dialled.  A number does: a seq, a
\* port or a ts_ms at the cut is used without its last digits, and fields that
\* are not there at all are 0 or empty, a command without its seq included.
\* (A whole source or host that its array has no room for is cut to it, torn line
\* or not: that is part of what a line means.)
TornLineLosesItsEnd ==
  pc = "done" /\ line # <<>> /\ torn =>
    /\ seen \in Beginnings(sent)
    /\ did = Nothing \/ did = MeaningOf(seen)

\* A line that hands nothing over leaves a command that is waiting in the
\* mailbox as it was; a lua_exec that is given up may have written over its
\* source, and over nothing else.
PendingKept ==
  pc = "done" /\ did.kind \notin {"command", "closed"} =>
    \/ mailbox = before
    \/ got.t_val = <<"lua_exec">> /\ [mailbox EXCEPT !.src = before.src] = before

\* An envelope is the object that was meant, in the order it was written; one
\* that is too long for the LineBuffer is a beginning of it without the closing
\* brace, so the PC cannot take it for a shorter message.
EnvelopeAsMeant ==
  LET whole == ObjectTokens([i \in DOMAIN queued.meant |->
                 [queued.meant[i] EXCEPT !.val.s = Escape(@)]])
      n == Len(queued.out)
  IN  queued.out # <<>> =>
        \/ queued.out = whole
        \/ /\ n < Len(whole) /\ Prefix(queued.out, n - 1) = Prefix(whole, n - 1)
           /\ queued.out[n] \in {whole[n], Mark("cut")}

=============================================================================
