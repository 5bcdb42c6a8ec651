----------------------------- MODULE ByteStream -----------------------------
(***************************************************************************)
(* What a stream connection promises its two sides: the bytes that one     *)
(* side sent reach the other once and in order, and an end of file comes   *)
(* after the last of them and only when the sender has ended.              *)
(* The bytes that a side sends are numbered from 1.                        *)
(***************************************************************************)
EXTENDS Naturals, Sequences

CONSTANT Total      \* bytes that a side has to send

Sides == {"dialed", "accepted"}
Other(s) == IF s = "dialed" THEN "accepted" ELSE "dialed"

VARIABLES
  sent,        \* how many bytes a side has sent
  rcvd,        \* the bytes it has received
  ended,       \* it sends nothing more
  eof          \* it was told that the other side has ended

vars == <<sent, rcvd, ended, eof>>

Numbers(n) == [i \in 1..n |-> i]

Init ==
  /\ sent = [s \in Sides |-> 0]
  /\ rcvd = [s \in Sides |-> <<>>]
  /\ ended = [s \in Sides |-> FALSE]
  /\ eof = [s \in Sides |-> FALSE]

Send(s) ==
  /\ ~ended[s]
  /\ \E m \in sent[s]..Total : sent' = [sent EXCEPT ![s] = m]
  /\ UNCHANGED <<rcvd, ended, eof>>

Receive(s) ==
  /\ ~eof[s]
  /\ \E m \in Len(rcvd[s])..sent[Other(s)] : rcvd' = [rcvd EXCEPT ![s] = Numbers(m)]
  /\ UNCHANGED <<sent, ended, eof>>

End(s) ==
  /\ ended' = [ended EXCEPT ![s] = TRUE]
  /\ UNCHANGED <<sent, rcvd, eof>>

EndOfFile(s) ==
  /\ ended[Other(s)] /\ Len(rcvd[s]) = sent[Other(s)]
  /\ eof' = [eof EXCEPT ![s] = TRUE]
  /\ UNCHANGED <<sent, rcvd, ended>>

Next == \E s \in Sides : Send(s) \/ Receive(s) \/ End(s) \/ EndOfFile(s)

Spec == Init /\ [][Next]_vars
=============================================================================
