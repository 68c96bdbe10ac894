------------------------------ MODULE JsonLine ------------------------------
(***************************************************************************)
(* The line JSON of source/program/json_line.cpp: the Reader that          *)
(* dispatch_line and parseReply walk a line with, and the Encoder that     *)
(* every envelope is written with.  A line is a sequence of tokens; a      *)
(* string token holds the characters between its quotes as they are on the *)
(* wire, so that escapes are visible.  An object of the code is a record:  *)
(* a Reader is [p, needs_comma, error], an Encoder [out, room, needs].     *)
(* A method is an operator from the record to what it returns and the      *)
(* record it leaves.  No caller enters an array or a nested object, so the *)
(* frame stacks have depth one at most.                                    *)
(***************************************************************************)
EXTENDS Integers, Sequences, SequencesExt

CONSTANT Char  \* the characters of a string; a word stands for a run of letters

ASSUME CharAssumption == {"quote", "backslash", "newline", "n"} \subseteq Char

\* A token: its kind, and its characters or its number.  "cut" is a string
\* whose end is missing, "open" a nested array or object, at which every read of
\* a value fails.
TokenKinds == {"{", "}", ",", ":", "str", "int", "bool", "null", "open", "cut"}
Mark(kind) == [k |-> kind, s |-> <<>>, n |-> 0]
Str(chars) == [k |-> "str", s |-> chars, n |-> 0]
Int64(i)   == [k |-> "int", s |-> <<>>, n |-> i]

Token == [k : TokenKinds, s : Seq(Char), n : Int]
\* What a field can hold.
FieldValue ==
  {v \in Token : \/ v = Str(v.s) \/ v = Int64(v.n)
                 \/ v \in {Mark("bool"), Mark("null"), Mark("open")}}
FieldType == [key : Seq(Char), val : FieldValue]

\* A field of an object and the tokens of the object that has these fields.
FieldTokens(f) == <<Str(f.key), Mark(":"), f.val>>
ObjectTokens(fs) ==
  LET Part(i) == IF i = 1 THEN FieldTokens(fs[1])
                          ELSE <<Mark(",")>> \o FieldTokens(fs[i])
  IN  <<Mark("{")>> \o FlattenSeq([i \in DOMAIN fs |-> Part(i)]) \o <<Mark("}")>>

-----------------------------------------------------------------------------
\* Escapes.
Escaped == [quote |-> "quote", backslash |-> "backslash", newline |-> "n"]
Escape(chars) ==
  FlattenSeq([i \in DOMAIN chars |->
    IF chars[i] \in DOMAIN Escaped THEN <<"backslash", Escaped[chars[i]]>>
                                   ELSE <<chars[i]>>])

\* readString: what the characters stand for, position by position; <<"bad">>
\* in the result when a backslash is not followed by an escape it knows.
Decode(chars) ==
  LET Known == [c \in {"quote", "backslash", "n"} |->
                  CHOOSE d \in DOMAIN Escaped : Escaped[d] = c]
      From[i \in 1..(Len(chars) + 2)] ==
        IF i > Len(chars) THEN <<>>
        ELSE IF chars[i] # "backslash" THEN <<chars[i]>> \o From[i + 1]
        ELSE IF i < Len(chars) /\ chars[i + 1] \in DOMAIN Known
             THEN <<Known[chars[i + 1]]>> \o From[i + 2]
        ELSE <<"bad">>
  IN  IF "backslash" \in ToSet(chars) THEN From[1] ELSE chars

-----------------------------------------------------------------------------
\* Reader.  A call returns whether it succeeded, the token it delivers and the
\* reader it leaves; fail() makes the error final.

NewReader == [p |-> 1, needs_comma |-> FALSE, error |-> FALSE]
KindAt(b, i) == IF i \in DOMAIN b THEN b[i].k ELSE "end"

Yes(r, token) == [ok |-> TRUE, val |-> token, r |-> r]
No(r)         == [ok |-> FALSE, val |-> Mark("null"), r |-> r]
Fail(r)       == No([r EXCEPT !.error = TRUE])

enterObject(b, r) ==
  IF KindAt(b, r.p) = "{" THEN Yes([r EXCEPT !.p = r.p + 1], Mark("{"))
                          ELSE Fail(r)

\* The end of the object is no error; everything else that is not a comma where
\* one is due, a key and a colon is.
nextField(b, r) ==
  LET key == IF r.needs_comma THEN r.p + 1 ELSE r.p
  IN  IF r.error \/ KindAt(b, r.p) = "}" THEN No(r)
      ELSE IF /\ r.needs_comma => KindAt(b, r.p) = ","
              /\ KindAt(b, key) = "str" /\ KindAt(b, key + 1) = ":"
              /\ "bad" \notin ToSet(Decode(b[key].s))
           THEN Yes([p |-> key + 2, needs_comma |-> TRUE, error |-> FALSE],
                    Str(Decode(b[key].s)))
      ELSE Fail(r)

\* A value of one kind; anything else sets the error.
NextOf(kind, b, r) ==
  IF ~r.error /\ KindAt(b, r.p) = kind THEN Yes([r EXCEPT !.p = r.p + 1], b[r.p])
                                       ELSE Fail(r)
nextInt(b, r)  == NextOf("int", b, r)
nextBool(b, r) == NextOf("bool", b, r)
\* A faulty nextString that takes the end of the line for the closing quote.
nextStringUnclosed(b, r) ==
  IF ~r.error /\ KindAt(b, r.p) \in {"str", "cut"}
  THEN Yes([r EXCEPT !.p = r.p + 1], Str(Decode(b[r.p].s)))
  ELSE Fail(r)
nextString(b, r) ==
  LET v == NextOf("str", b, r)
      chars == Decode(v.val.s)
  IN  IF v.ok /\ "bad" \notin ToSet(chars) THEN Yes(v.r, Str(chars)) ELSE Fail(r)

\* A faulty isNull that does not give back what it looked at.
isNullEating(b, r) ==
  IF ~r.error /\ KindAt(b, r.p) = "null" THEN Yes([r EXCEPT !.p = r.p + 1], b[r.p])
                                         ELSE No([r EXCEPT !.p = r.p + 1])
\* isNull gives back what it looked at: no null is no error.
isNull(b, r) ==
  IF ~r.error /\ KindAt(b, r.p) = "null" THEN Yes([r EXCEPT !.p = r.p + 1], b[r.p])
                                         ELSE No(r)

\* The callers' skip of a value: isNull || nextString || nextInt || nextBool.
\* Each is tried on the reader the one before left, its error included.
skipValue(b, r) ==
  LET null == isNull(b, r)
      str  == nextString(b, null.r)
      int  == nextInt(b, str.r)
  IN  IF null.ok THEN null.r ELSE IF str.ok THEN str.r
      ELSE IF int.ok THEN int.r ELSE nextBool(b, int.r).r

-----------------------------------------------------------------------------
\* Encoder over a LineBuffer with so much room left.  A token that does not fit
\* is cut and leaves no room; what does not fit any more is dropped silently.
NewEncoder(room) == [out |-> <<>>, room |-> room, needs |-> <<>>]
\* The characters of a token, as many as it takes up of the LineBuffer: those of
\* a string and its quotes, one of a brace, a comma or a colon, several, of which
\* the end may be cut, of a number, a boolean or an array literal.
Wire(token) ==
  IF token.k = "str" THEN <<"quote">> \o token.s \o <<"quote">>
  ELSE IF token.k \in {"int", "bool", "open"} THEN <<token.k, token.k>>
  ELSE <<token.k>>
Size(token) == Len(Wire(token))
Text(tokens) == FlattenSeq([i \in DOMAIN tokens |-> Wire(tokens[i])])

append(e, token) ==
  IF Size(token) <= e.room
  THEN [e EXCEPT !.out = Append(@, token), !.room = @ - Size(token)]
  ELSE IF e.room > 0
  THEN [e EXCEPT !.out = Append(@, Mark("cut")), !.room = 0]
  ELSE e

maybeComma(e) == IF e.needs # <<>> /\ Last(e.needs) THEN append(e, Mark(",")) ELSE e
NeedsComma(e, b) ==
  IF e.needs = <<>> THEN e ELSE [e EXCEPT !.needs = Append(Front(@), b)]

beginObject(e) ==
  [append(maybeComma(e), Mark("{")) EXCEPT !.needs = Append(@, FALSE)]
endObject(e) ==
  NeedsComma([append(e, Mark("}")) EXCEPT !.needs = Front(@)], TRUE)
\* A faulty key that leaves the comma of the value due.
keyKeepsComma(e, chars) == append(append(maybeComma(e), Str(chars)), Mark(":"))
key(e, chars) ==
  NeedsComma(append(append(maybeComma(e), Str(chars)), Mark(":")), FALSE)
value(e, token) ==
  NeedsComma(append(maybeComma(e),
    IF token.k = "str" THEN Str(Escape(token.s)) ELSE token), TRUE)

\* An envelope: beginObject, the fields in order, endObject.
Encode(fs, room) ==
  LET After[i \in 0..Len(fs)] ==
        IF i = 0 THEN beginObject(NewEncoder(room))
                 ELSE value(key(After[i - 1], fs[i].key), fs[i].val)
  IN  endObject(After[Len(fs)]).out
=============================================================================
