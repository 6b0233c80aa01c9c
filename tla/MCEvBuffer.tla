----------------------------- MODULE MCEvBuffer -----------------------------
(***************************************************************************)
(* Two buffers and room for a few chains of 2 or 4 bytes.                  *)
(***************************************************************************)
EXTENDS EvBuffer

CONSTANTS a, b

MCFreezes == {<<a, "end">>, <<b, "start">>}

\* The numbers of the chains do not matter: states are the same when their
\* chains are, in the order in which the buffers have them.  Of the counts for
\* the callback it matters whether they are 0 and what they add up to.
InOrder ==
  LET used == ToSet(list[a]) \cup ToSet(list[b])
      order == list[a] \o list[b] \o SetToSeq({c \in Chains : heap[c].refcnt > 0} \ used)
      Rank(c) == IF c = 0 THEN 0 ELSE CHOOSE i \in 1 .. Len(order) : order[i] = c
  IN <<vars = vars, [i \in 1 .. Len(order) |-> [heap[order[i]] EXCEPT !.parent = Rank(@)]],
       Len(list[a]), dp, last, total, refs, pending, frozen, dropped, fault, calls,
       [x \in Bufs |-> <<nadd[x] = 0, ndel[x] = 0, told[x] + nadd[x] - ndel[x]>>],
       [x \in Bufs |-> [i \in 1 .. Len(reserved[x]) |->
                          [reserved[x][i] EXCEPT !.chain = Rank(@)]]]>>
==============================================================================
