------------------------------ MODULE MCEvLoop ------------------------------
(***************************************************************************)
(* An event loop with a persistent descriptor, a more important timer, a   *)
(* deferred callback and an exit; and, because its heaps stay small, the   *)
(* heap of EvHeap on every heap of seven events at four times.             *)
(***************************************************************************)
EXTENDS EvLoop

CONSTANTS io, tick, defer, exit

MCPri == [e \in Users |-> IF e = tick THEN 0 ELSE 1]

Members(h) == {h[k] : k \in DOMAIN h}
Heap7 == [k \in 1 .. 7 |-> k]
Times == {t \in [1 .. 8 -> 1 .. 4] : IsHeap(Heap7, t)}

\* Pushing and erasing keep every event but the erased one, and the order.
ASSUME HeapsStayHeaps ==
  \A t \in Times :
    /\ LET h == HeapPush(Heap7, t, 8)
       IN IsHeap(h, t) /\ Members(h) = 1 .. 8 /\ Len(h) = 8
    /\ \A e \in 1 .. 7 :
         LET h == HeapErase(Heap7, t, e)
         IN IsHeap(h, t) /\ Members(h) = (1 .. 7) \ {e} /\ Len(h) = 6
=============================================================================
