----------------------------- MODULE ByteStream -----------------------------
(***************************************************************************)
(* What the send queue promises: a first-in first-out stream of bytes.     *)
(* Whole messages go in, any number of bytes comes out at a time, nothing  *)
(* is reordered, lost or repeated while a connection lasts: what waits is  *)
(* dropped only when a connection has been closed, and once for each.  A   *)
(* new connection starts with whole messages only.                         *)
(***************************************************************************)
EXTENDS Integers, Sequences

CONSTANT MessageBytes(_)  \* the messages, as sequences of bytes, under an id

VARIABLES
  waiting,  \* bytes accepted and not sent
  sent,     \* bytes sent on the present connection
  made,     \* ids used so far
  link      \* "open", "closed" (nothing dropped yet) or "none"

vars == <<waiting, sent, made, link>>

Init == waiting = <<>> /\ sent = <<>> /\ made = 0 /\ link = "none"

Accept ==
  /\ made' = made + 1
  /\ waiting' = waiting \o MessageBytes(made + 1)
  /\ UNCHANGED <<sent, link>>

Transmit ==
  /\ link = "open"
  /\ \E k \in 1..Len(waiting) :
       /\ sent' = sent \o SubSeq(waiting, 1, k)
       /\ waiting' = SubSeq(waiting, k + 1, Len(waiting))
  /\ UNCHANGED <<made, link>>

Break == link = "open" /\ link' = "closed" /\ UNCHANGED <<waiting, sent, made>>

Drop ==
  /\ link = "closed" /\ link' = "none"
  /\ waiting' = <<>> /\ UNCHANGED <<sent, made>>

\* The bytes of a suffix of the messages accepted.
StartsWhole ==
  \/ waiting = <<>>
  \/ \E id \in 1..made :
       LET m == MessageBytes(id)
       IN  /\ Len(m) <= Len(waiting)
           /\ SubSeq(waiting, 1, Len(m)) = m

Reconnect ==
  /\ link = "none" /\ link' = "open"
  /\ StartsWhole
  /\ sent' = <<>> /\ UNCHANGED <<waiting, made>>

Next == Accept \/ Transmit \/ Break \/ Drop \/ Reconnect

Spec == Init /\ [][Next]_vars
=============================================================================
