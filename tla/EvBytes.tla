------------------------------- MODULE EvBytes -------------------------------
(***************************************************************************)
(* What the evbuffers of net/libevent/src/buffer.c promise (buffer.h): each *)
(* is a sequence of bytes that grows at either end, shrinks at the front,   *)
(* and gives bytes to another buffer without changing their order.          *)
(***************************************************************************)
EXTENDS Integers, Sequences

CONSTANTS Bufs, K, MaxAdd

VARIABLE bytes

\* The bytes a caller adds at the end of s, or in front of it: consecutive
\* numbers modulo K, so that a byte out of its place shows.
Tail2(s, n) == [i \in 1 .. n |-> (i + (IF s = << >> THEN 0 ELSE s[Len(s)])) % K]
Head2(s, n) == [i \in 1 .. n |-> (i + (IF s = << >> THEN 0 ELSE s[1] + K * n - n - 1)) % K]

Init == bytes = [b \in Bufs |-> << >>]

Rest(s, n) == SubSeq(s, n + 1, Len(s))

Append1(b) == \E n \in 1 .. MaxAdd : bytes' = [bytes EXCEPT ![b] = @ \o Tail2(@, n)]

\* A prepend that runs out of memory may have stored the end of its data.
Prepend1(b) == \E n \in 1 .. MaxAdd, m \in 0 .. MaxAdd - 1 :
  /\ m < n
  /\ bytes' = [bytes EXCEPT ![b] = Rest(Head2(@, n), m) \o @]

Drain1(b) == \E n \in 1 .. Len(bytes[b]) : bytes' = [bytes EXCEPT ![b] = Rest(@, n)]

Move(i, o) == \E n \in 1 .. Len(bytes[i]) :
  bytes' = [bytes EXCEPT ![o] = @ \o SubSeq(bytes[i], 1, n), ![i] = Rest(@, n)]

MoveToFront(i, o) == bytes' = [bytes EXCEPT ![o] = bytes[i] \o @, ![i] = << >>]

\* A copy that runs out of memory ends where a chain of the source does.
Copy(i, o) == \E n \in 1 .. Len(bytes[i]) :
  bytes' = [bytes EXCEPT ![o] = @ \o SubSeq(bytes[i], 1, n)]

Release(b) == bytes' = [bytes EXCEPT ![b] = << >>]

Next == \E b \in Bufs :
  \/ Append1(b) \/ Prepend1(b) \/ Drain1(b) \/ Release(b)
  \/ \E o \in Bufs \ {b} : Move(b, o) \/ MoveToFront(b, o) \/ Copy(b, o)

Spec == Init /\ [][Next]_bytes
==============================================================================
