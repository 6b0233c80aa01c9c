------------------------------- MODULE EvHeap -------------------------------
(***************************************************************************)
(* The binary heap of net/libevent/include/minheap-internal.h, in which an *)
(* event base keeps its timers.  A heap is a sequence of events, h[k] with *)
(* children h[2*k] and h[2*k + 1]; ev_timeout is the key of each event and *)
(* the index min_heap_idx of an event is its place in the sequence.        *)
(***************************************************************************)
EXTENDS Integers, Sequences

\* e goes into the hole at k, its ancestors with later times move down.
ShiftUp(h, ev_timeout, k, e) ==
  LET up[j \in 1 .. Len(h)] ==
        IF j > 1 /\ ev_timeout[h[j \div 2]] > ev_timeout[e]
        THEN [up[j \div 2] EXCEPT ![j] = h[j \div 2]]
        ELSE [h EXCEPT ![j] = e]
  IN up[k]

\* The child that is not later than the other.
MinChild(h, ev_timeout, k) ==
  IF 2 * k = Len(h) \/ ev_timeout[h[2 * k + 1]] > ev_timeout[h[2 * k]]
  THEN 2 * k ELSE 2 * k + 1

\* e goes into the hole at k, the earlier child of each hole moves up.
ShiftDown(h, ev_timeout, k, e) ==
  LET down[j \in 1 .. Len(h)] ==
        LET child == MinChild(h, ev_timeout, j)
        IN IF 2 * j <= Len(h) /\ ev_timeout[e] > ev_timeout[h[child]]
           THEN [down[child] EXCEPT ![j] = h[child]]
           ELSE [h EXCEPT ![j] = e]
  IN down[k]

HeapPush(h, ev_timeout, e) == ShiftUp(Append(h, e), ev_timeout, Len(h) + 1, e)

\* The last element takes the place of e and moves up or down from there.
HeapErase(h, ev_timeout, e) ==
  LET n    == Len(h)
      k    == CHOOSE j \in 1 .. n : h[j] = e
      rest == SubSeq(h, 1, n - 1)
  IN CASE k = n -> rest
       [] k < n /\ k > 1 /\ ev_timeout[h[k \div 2]] > ev_timeout[h[n]] ->
            ShiftUp(rest, ev_timeout, k, h[n])
       [] OTHER -> ShiftDown(rest, ev_timeout, k, h[n])

\* No event is earlier than its parent.
IsHeap(h, ev_timeout) ==
  \A k \in 2 .. Len(h) : ev_timeout[h[k \div 2]] <= ev_timeout[h[k]]
=============================================================================
