--------------------------- MODULE MCLineDispatch ---------------------------
(***************************************************************************)
(* The lines, datagrams and envelopes that LineDispatch is checked with.   *)
(***************************************************************************)
EXTENDS LineDispatch

MCChar ==
  {"quote", "backslash", "newline", "n", "old", "pong", "a", "b", "c", "x",
   "t", "lua_exec", "ping", "hello_ack", "kick", "other", "seq", "src", "print",
   "ts_ms", "host", "port", "bridge", "10.0.0.2", "log", "msg", "ok",
   "inventory"}

F(word, val) == [key |-> <<word>>, val |-> val]
Word(word)   == Str(<<word>>)

\* Every wanted field with values of the right and of the wrong kind, numbers
\* beyond an int among them, sources that fit and that do not, with escapes,
\* and unknown fields of every kind.
LineFields ==
  {F("t", Word(w)) : w \in {"lua_exec", "ping", "hello_ack", "kick", "other"}} \cup
  {F("t", Int64(1)), F("seq", Int64(5)), F("seq", Int64(20)), F("seq", Word("x")),
   F("src", Word("print")), F("src", Mark("null")), F("src", Str(<<>>)),
   F("src", Str(<<"backslash", "quote", "a", "b", "c">>)),
   F("src", Str(<<"backslash", "x">>)),
   F("ts_ms", Int64(20)), F("ts_ms", Mark("bool"))}
Unknown ==
  {F("x", Word("a")), F("x", Mark("null")), F("x", Int64(3)),
   [key |-> <<"backslash", "x">>, val |-> Word("a")]}

\* One field for each thing that can happen to a loop: taken, skipped, given up,
\* stuck, stored cut, narrowed.
Telling ==
  {F("t", Word("lua_exec")), F("t", Word("ping")), F("t", Word("hello_ack")),
   F("seq", Int64(20)), F("seq", Word("x")), F("src", Word("print")),
   F("src", Str(<<"backslash", "quote", "a", "b", "c">>)),
   F("src", Str(<<"backslash", "x">>)), F("ts_ms", Int64(20)),
   F("x", Mark("null")), F("x", Int64(3)),
   [key |-> <<"backslash", "x">>, val |-> Word("a")]}

UpTo(n, S) == UNION {[1..m -> S] : m \in 0..n}
\* The four fields of a lua_exec with an unknown one in any order.
LuaExecs ==
  {p \in UNION {[1..4 -> {F("t", Word("lua_exec")), F("seq", Int64(5)),
                          F("src", Str(<<"backslash", "n", "a">>)), x}] :
                   x \in Unknown \cup {F("x", Mark("bool")), F("x", Mark("open"))}} :
     IsInjective(p)}
\* A lua_exec whose second source is empty, given up because of its seq.
TwoSources ==
  {<<F("t", Word("lua_exec")), F("src", Word("print")), F("src", Str(<<>>)),
     F("seq", x)>> : x \in {Int64(5), Word("x")}}
\* Two of all fields or three of the telling ones, in any order.
MCLines ==
  UpTo(2, LineFields \cup Unknown) \cup UpTo(3, Telling) \cup LuaExecs \cup TwoSources

ReplyFields ==
  {F("t", Word("bridge")), F("t", Word("other")), F("host", Word("10.0.0.2")),
   F("host", Str(<<>>)), F("host", Str(<<"a", "b", "c">>)), F("port", Int64(7)),
   F("port", Int64(0)), F("port", Int64(12)), F("port", Int64(18)),
   F("port", Word("x")), F("x", Mark("null")), F("x", Int64(3))}
MCReplies == UpTo(3, ReplyFields) \cup
  {p \in [1..4 -> {F("t", Word("bridge")), F("host", Word("10.0.0.2")),
                   F("port", Int64(7)), F("x", Int64(3))}] : IsInjective(p)}

\* Envelopes of up to three fields, some of them longer than a LineBuffer, the
\* array of SendInventoryJson among them.
EnvelopeFields ==
  {F("t", Word("log")), F("msg", Str(<<"a", "quote">>)), F("msg", Str(<<>>)),
   F("msg", Str(<<"a", "newline", "backslash", "b", "c">>)),
   F("ok", Mark("bool")), F("seq", Int64(5)), F("inventory", Mark("open"))}
MCEnvelopes == UpTo(3, EnvelopeFields) \ {<<>>}
=============================================================================
