------------------------------ MODULE EvBuffer ------------------------------
(***************************************************************************)
(* Evbuffers (net/libevent/src/buffer.c): a buffer is a list of chains,     *)
(* each a piece of memory with the data in a window of it, and a pointer to *)
(* the pointer to the last chain that has data, after which everything      *)
(* writes.  Chains are moved between buffers, and shared by reference.      *)
(*                                                                          *)
(* A call runs under the lock of its buffers and is one step.  A C function *)
(* that others call is an operator from the world before it to the world    *)
(* after it.  `dp' is last_with_datap: 0 for &buf->first and i for the next *)
(* pointer of the i-th chain; NULL is 0.                                    *)
(***************************************************************************)
EXTENDS Integers, Sequences, FiniteSets, SequencesExt

CONSTANTS
  Bufs, NoBuf,
  Chains,        \* the chains the memory has room for, a set of numbers from 1
  Sizes,         \* the sizes evbuffer_chain_new rounds up to
  MaxAuto,       \* EVBUFFER_CHAIN_MAX_AUTO_SIZE
  ResizeShare,   \* 8: the share of its chain that is worth a resize
  ReadVecs,      \* NUM_READ_IOVEC
  Freezes,       \* bound: the ends <<b, "start">> or <<b, "end">> that are frozen at times
  Deferred,      \* the buffers with evbuffer_defer_callbacks
  Repaired,      \* the functions taken with a repair, see README
  K, MaxAdd,     \* bytes are 0 .. K-1; a call adds at most MaxAdd of them
  Asks,          \* how much room is asked for
  MaxLen,        \* bound: the bytes of all buffers together
  MaxCalls       \* bound: the calls

VARIABLES
  heap,          \* each chain
  list,          \* buf->first and the next pointers, for each buffer
  dp, last,      \* last_with_datap and last
  total, nadd, ndel,  \* total_len, n_add_for_cb, n_del_for_cb
  refs,          \* the reference count of a buffer
  pending,       \* its deferred callback is queued in the event base
  told,          \* history: the length its callback knows of
  frozen,        \* freeze_start, freeze_end
  dropped,       \* its owner has called evbuffer_free
  reserved,      \* the extents of the last evbuffer_reserve_space
  bytes,         \* history: the bytes in the chains of each buffer in use
  fault,         \* history: the assertions of buffer.c that have failed
  calls          \* the calls so far

vars == <<heap, list, dp, last, total, nadd, ndel, refs, pending, told,
          frozen, dropped, reserved, bytes, fault, calls>>

NoChain == [cap |-> 0, mis |-> 0, data |-> << >>, ro |-> FALSE, refcnt |-> 0,
            kind |-> "plain", parent |-> 0, source |-> NoBuf]

EvBufferAssumption ==
  /\ Chains \subseteq Nat \ {0} /\ Sizes \subseteq Nat \ {0}
  /\ NoBuf \notin Bufs /\ Deferred \subseteq Bufs
  /\ Freezes \subseteq Bufs \X {"start", "end"}
  /\ {K, MaxAdd, MaxAuto, ResizeShare, ReadVecs} \cup Asks \subseteq Nat \ {0}
ASSUME EvBufferAssumption

Ids == Chains \cup {0}

TypeOK ==
  /\ \A c \in Chains :
       /\ heap[c].cap \in Nat /\ heap[c].mis \in 0 .. heap[c].cap
       /\ heap[c].data \in Seq(0 .. K - 1)
       /\ heap[c].mis + Len(heap[c].data) <= heap[c].cap
       /\ heap[c].refcnt \in Nat /\ heap[c].ro \in BOOLEAN
       /\ heap[c].parent \in Ids /\ heap[c].source \in Bufs \cup {NoBuf}
  /\ list \in [Bufs -> Seq(Chains)]
  /\ {dp, last, total, nadd, ndel, refs, told} \subseteq [Bufs -> Nat]
  /\ {pending, dropped} \subseteq [Bufs -> BOOLEAN]
  /\ frozen \in [Bufs -> SUBSET {"start", "end"}]
  /\ bytes \in [Bufs -> Seq(0 .. K - 1)] /\ calls \in 0 .. MaxCalls

Init ==
  /\ heap = [c \in Chains |-> NoChain]
  /\ list = [b \in Bufs |-> << >>]
  /\ dp = [b \in Bufs |-> 0] /\ last = dp
  /\ total = dp /\ nadd = dp /\ ndel = dp /\ told = dp
  /\ refs = [b \in Bufs |-> 1]
  /\ pending = [b \in Bufs |-> FALSE] /\ dropped = pending
  /\ frozen = [b \in Bufs |-> {}]
  /\ reserved = [b \in Bufs |-> << >>]
  /\ bytes = [b \in Bufs |-> << >>]
  /\ fault = {} /\ calls = 0

---------------------------------------------------------------------------
(* The world between two statements: the variables a call changes, and how *)
(* often the calling thread holds the lock of each buffer.                 *)

Now == [heap |-> heap, list |-> list, dp |-> dp, last |-> last, total |-> total,
        nadd |-> nadd, ndel |-> ndel, refs |-> refs, pending |-> pending,
        told |-> told, held |-> [b \in Bufs |-> 0], fault |-> fault]

Becomes(w) ==
  /\ heap' = w.heap /\ list' = w.list /\ dp' = w.dp /\ last' = w.last
  /\ total' = w.total /\ nadd' = w.nadd /\ ndel' = w.ndel /\ refs' = w.refs
  /\ pending' = w.pending /\ told' = w.told /\ fault' = w.fault

Assert1(w, holds, what) == IF holds THEN w ELSE [w EXCEPT !.fault = @ \cup {what}]

Lock(w, b) == [w EXCEPT !.held[b] = @ + 1]
Unlock(w, b) == Assert1([w EXCEPT !.held[b] = IF @ > 0 THEN @ - 1 ELSE 0],
                        w.held[b] > 0, "unlock")

At(w, b, i) == IF i \in 1 .. Len(w.list[b]) THEN w.list[b][i] ELSE 0
Off(w, c) == Len(w.heap[c].data)
\* CHAIN_SPACE_LEN
Space(w, c) == IF w.heap[c].ro THEN 0 ELSE w.heap[c].cap - w.heap[c].mis - Off(w, c)

\* The bytes of the first i chains of a list.
Upto(w, s, i) == FoldLeft(LAMBDA n, c : n + Off(w, c), 0, SubSeq(s, 1, i))
Contents(h, s) == FoldLeft(LAMBDA bs, c : bs \o h[c].data, << >>, s)

Least(S) == CHOOSE n \in S : \A m \in S : n <= m
Larger(m, n) == IF m >= n THEN m ELSE n
Smaller(m, n) == IF m <= n THEN m ELSE n
Rest(s, n) == SubSeq(s, n + 1, Len(s))

---------------------------------------------------------------------------
(* Chains *)

Unused(w) == {c \in Chains : w.heap[c].refcnt = 0 /\ \A b \in Bufs : c \notin ToSet(w.list[b])}
CanAlloc(w, n) == Unused(w) # {} /\ \E s \in Sizes : s >= n
Plain(n, s) == [NoChain EXCEPT !.cap = Least({z \in Sizes : z >= n}), !.data = s, !.refcnt = 1]

RECURSIVE ChainFree(_, _), FreeAll(_, _), Decref(_, _)

\* evbuffer_chain_free
ChainFree(w, c) ==
  LET h == w.heap[c]
      gone == [w EXCEPT !.heap[c] = NoChain]
  IN CASE h.refcnt = 0 -> Assert1(w, FALSE, "refcnt")
       [] h.refcnt > 1 -> [w EXCEPT !.heap[c].refcnt = @ - 1]
       [] h.refcnt = 1 /\ h.kind = "multicast" -> Decref(ChainFree(gone, h.parent), h.source)
       [] OTHER -> gone

FreeAll(w, s) == IF s = << >> THEN w ELSE FreeAll(ChainFree(w, Head(s)), Tail(s))

Zero(w, b) == [w EXCEPT !.list[b] = << >>, !.dp[b] = 0, !.last[b] = 0, !.total[b] = 0]

\* evbuffer_decref_and_unlock_
Decref(w, b) ==
  LET f == Zero(FreeAll(w, w.list[b]), b)
  IN IF w.refs[b] > 1 THEN [w EXCEPT !.refs[b] = @ - 1]
     ELSE [f EXCEPT !.refs[b] = 0, !.nadd[b] = 0, !.ndel[b] = 0, !.told[b] = 0]

\* evbuffer_free_trailing_empty_chains: what is left ends where the new chain goes.
FreeTrailing(w, b) ==
  LET s == w.list[b]
      k == Least({i \in w.dp[b] + 1 .. Len(s) : Off(w, s[i]) = 0} \cup {Len(s) + 1})
      empty == \A i \in k .. Len(s) : Off(w, s[i]) = 0
  IN [FreeAll(Assert1(w, empty, "all_empty"), Rest(s, k - 1)) EXCEPT !.list[b] = SubSeq(s, 1, k - 1)]

\* evbuffer_chain_insert, of a chain that has just been made
InsertNew(w, b, chain) ==
  LET c == Least(Unused(w))
      t == IF At(w, b, w.dp[b] + 1) # 0 THEN FreeTrailing(w, b)
           ELSE Assert1(w, w.dp[b] = 0 /\ w.list[b] = << >>, "no_chains")
      chp == Len(t.list[b])
  IN [t EXCEPT !.heap[c] = chain, !.list[b] = Append(@, c), !.last[b] = chp + 1,
               !.dp[b] = IF chain.data # << >> THEN chp ELSE @,
               !.total[b] = @ + Len(chain.data)]

\* Bytes put after the data of chain c of buffer b.
Grow(w, b, c, s) == [w EXCEPT !.heap[c].data = @ \o s, !.total[b] = @ + Len(s)]

ShouldRealign(h, n) == h.cap - Len(h.data) >= n /\ Len(h.data) < h.cap \div 2

\* advance_last_with_data as the code has it: it stops at the first empty chain.
AdvanceOne(w, b) ==
  LET s == w.list[b]
      next == {i \in w.dp[b] + 2 .. Len(s) : \A j \in w.dp[b] + 2 .. i : Off(w, s[j]) > 0}
  IN [w EXCEPT !.dp[b] = @ + Cardinality(next)]

\* Repaired, it looks past the empty chains.
Advance(w, b) ==
  LET s == w.list[b]
      full == {i \in w.dp[b] + 1 .. Len(s) : Off(w, s[i]) > 0}
  IN IF "advance_last_with_data" \notin Repaired THEN AdvanceOne(w, b)
     ELSE [w EXCEPT !.dp[b] = IF full = {} THEN @ ELSE (CHOOSE i \in full : \A j \in full : j <= i) - 1]

---------------------------------------------------------------------------
(* Callbacks *)

\* Faulty: the counts start anew although nobody was told.
RunCallbacksSilent(w, b, tell) ==
  IF tell THEN [w EXCEPT !.told[b] = w.total[b], !.nadd[b] = 0, !.ndel[b] = 0]
  ELSE [w EXCEPT !.nadd[b] = 0, !.ndel[b] = 0]

\* evbuffer_run_callbacks: each buffer has one callback, without NODEFER.
RunCallbacks(w, b, tell) ==
  LET l == Assert1(w, w.held[b] > 0, "locked")
  IN IF ~tell \/ (w.nadd[b] = 0 /\ w.ndel[b] = 0) THEN l
     ELSE [l EXCEPT !.told[b] = w.total[b], !.nadd[b] = 0, !.ndel[b] = 0]

\* evbuffer_invoke_callbacks_: a deferred callback keeps the buffer, and the
\* lock that evbuffer_incref_and_lock_ takes is given back; the code gives it
\* back also when the callback was queued already.
Invoke(w, b) ==
  LET scheduled == b \in Deferred /\ ~w.pending[b]
      q == IF ~scheduled THEN w
           ELSE Lock([w EXCEPT !.pending[b] = TRUE, !.refs[b] = @ + 1], b)
      back == b \in Deferred /\ (scheduled \/ "evbuffer_invoke_callbacks_" \notin Repaired)
  IN RunCallbacks(IF back THEN Unlock(q, b) ELSE q, b, b \notin Deferred)

Added(w, b, n) == Invoke([w EXCEPT !.nadd[b] = @ + n], b)
Deleted(w, b, n) == Invoke([w EXCEPT !.ndel[b] = @ + n], b)

---------------------------------------------------------------------------
(* Adding and removing bytes.  A result says whether the call returned 0.  *)

Result(ok, w) == [ok |-> ok, w |-> w]

\* evbuffer_add, once there is a chain to write into
AddTo(w, b, s) ==
  LET n == Len(s)
      c == At(w, b, w.dp[b] + 1)
      h == w.heap[c]
      remain == Space(w, c)
      align == ~h.ro /\ remain < n /\ ShouldRealign(h, n)
      aligned == IF align THEN [w EXCEPT !.heap[c].mis = 0] ELSE w
      size == Larger(n, IF h.cap <= MaxAuto \div 2 THEN 2 * h.cap ELSE h.cap)
      tmp == [Plain(size, << >>) EXCEPT !.data = Rest(s, remain)]
  IN IF (~h.ro /\ remain >= n) \/ align THEN Result(TRUE, Added(Grow(aligned, b, c, s), b, n))
     ELSE IF ~CanAlloc(w, size) THEN Result(FALSE, w)
     ELSE Result(TRUE, Added(InsertNew(Grow(w, b, c, SubSeq(s, 1, remain)), b, tmp), b, n))

\* An empty buffer gets a chain first, if there is memory for one.
WithChain(w, b, n) == IF w.list[b] # << >> THEN w ELSE InsertNew(w, b, Plain(n, << >>))
NoRoom(w, b, n) == w.list[b] = << >> /\ ~CanAlloc(w, n)

\* evbuffer_add
Add(w, b, s) ==
  IF "end" \in frozen[b] \/ NoRoom(w, b, Len(s)) THEN Result(FALSE, w)
  ELSE AddTo(WithChain(w, b, Len(s)), b, s)

\* evbuffer_prepend, once there is a first chain.  Without memory for another
\* one the call fails, after it has stored what fits in front of the first.
PrependTo(w, b, s) ==
  LET n == Len(s)
      c == At(w, b, 1)
      h == w.heap[c]
      front == IF h.ro THEN 0 ELSE IF h.data = << >> THEN h.cap ELSE h.mis
      fit == Smaller(front, n)
      part == IF h.ro THEN w
              ELSE [w EXCEPT !.heap[c].data = Rest(s, n - fit) \o @, !.heap[c].mis = front - fit,
                             !.total[b] = @ + fit, !.nadd[b] = @ + fit]
      tmp == Plain(n - fit, SubSeq(s, 1, n - fit))
      t == Least(Unused(part))
      whole == [part EXCEPT !.heap[t] = [tmp EXCEPT !.mis = tmp.cap - (n - fit)],
                            !.list[b] = <<t>> \o @, !.dp[b] = @ + 1, !.last[b] = @ + 1,
                            !.total[b] = @ + (n - fit)]
  IN IF fit = n THEN Result(TRUE, Added(part, b, 0))
     ELSE IF ~CanAlloc(part, n - fit) THEN Result(FALSE, part)
     ELSE Result(TRUE, Added(whole, b, n - fit))

\* evbuffer_prepend
Prepend(w, b, s) ==
  IF "start" \in frozen[b] \/ NoRoom(w, b, Len(s)) THEN Result(FALSE, w)
  ELSE PrependTo(WithChain(w, b, Len(s)), b, s)

\* evbuffer_drain
Drain(w, b, n) ==
  LET s == w.list[b]
      k == CHOOSE i \in 0 .. Len(s) : Upto(w, s, i) <= n /\ (i = Len(s) \/ Upto(w, s, i + 1) > n)
      c == At(w, b, k + 1)
      left == n - Upto(w, s, k)
      some == [FreeAll(Assert1(w, c # 0, "drained"), SubSeq(s, 1, k)) EXCEPT
                 !.list[b] = Rest(s, k), !.total[b] = @ - n,
                 !.dp[b] = IF @ <= k THEN 0 ELSE @ - k,
                 !.last[b] = @ - k,
                 !.heap[c].mis = @ + left, !.heap[c].data = Rest(@, left)]
  IN CASE w.total[b] = 0 -> Result(TRUE, w)
       [] w.total[b] > 0 /\ "start" \in frozen[b] -> Result(FALSE, w)
       [] OTHER -> Result(TRUE, IF n >= w.total[b]
                                THEN Deleted(Zero(FreeAll(w, s), b), b, w.total[b])
                                ELSE Deleted(some, b, n))

---------------------------------------------------------------------------
(* Moving and sharing chains *)

\* COPY_CHAIN, after the empty chains of the destination are freed
CopyChain(w, o, i) ==
  [FreeAll(w, w.list[o]) EXCEPT !.list[o] = w.list[i], !.dp[o] = w.dp[i],
                                !.last[o] = w.last[i], !.total[o] = w.total[i]]

\* Faulty: last_with_datap goes where the source had it.
AppendChainStale(w, o, i) ==
  LET t == FreeTrailing(w, o)
      n == Len(t.list[o])
  IN [t EXCEPT !.list[o] = @ \o w.list[i], !.dp[o] = w.dp[i],
               !.last[o] = n + w.last[i], !.total[o] = @ + w.total[i]]

\* APPEND_CHAIN
AppendChain(w, o, i) ==
  LET t == FreeTrailing(w, o)
      n == Len(t.list[o])
  IN [t EXCEPT !.list[o] = @ \o w.list[i], !.dp[o] = n + w.dp[i],
               !.last[o] = n + w.last[i], !.total[o] = @ + w.total[i]]

\* PREPEND_CHAIN
PrependChain(w, o, i) ==
  LET n == w.last[i]
  IN [w EXCEPT !.list[o] = w.list[i] \o @, !.dp[o] = n + @, !.last[o] = n + @,
               !.total[o] = @ + w.total[i]]

\* The common part of evbuffer_add_buffer and evbuffer_prepend_buffer
MoveAll(w, o, i, moved) ==
  LET z == [Zero(moved, i) EXCEPT !.ndel[i] = @ + w.total[i], !.nadd[o] = @ + w.total[i]]
  IN Invoke(Invoke(z, i), o)

\* evbuffer_add_buffer
AddBuffer(w, o, i) ==
  CASE w.total[i] = 0 -> Result(TRUE, w)
    [] w.total[i] > 0 /\ ("end" \in frozen[o] \/ "start" \in frozen[i]) -> Result(FALSE, w)
    [] OTHER -> Result(TRUE, MoveAll(w, o, i, IF w.total[o] = 0 THEN CopyChain(w, o, i)
                                              ELSE AppendChain(w, o, i)))

\* evbuffer_prepend_buffer
PrependBuffer(w, o, i) ==
  CASE w.total[i] = 0 -> Result(TRUE, w)
    [] w.total[i] > 0 /\ ("start" \in frozen[o] \/ "start" \in frozen[i]) -> Result(FALSE, w)
    [] OTHER -> Result(TRUE, MoveAll(w, o, i, IF w.total[o] = 0 THEN CopyChain(w, o, i)
                                              ELSE PrependChain(w, o, i)))

\* A chain that shows the memory of chain c of buffer i; c is read-only now.
Reference(w, o, i, c) ==
  LET h == w.heap[c]
      m == [h EXCEPT !.ro = TRUE, !.refcnt = 1, !.kind = "multicast", !.parent = c, !.source = i]
  IN InsertNew([w EXCEPT !.refs[i] = @ + 1, !.heap[c].refcnt = @ + 1, !.heap[c].ro = TRUE], o, m)

RECURSIVE AppendMulticast(_, _, _, _)

\* APPEND_CHAIN_MULTICAST: it stops when there is no memory.
AppendMulticast(w, o, i, s) ==
  CASE s # << >> /\ w.heap[Head(s)].data = << >> -> AppendMulticast(w, o, i, Tail(s))
    [] s # << >> /\ w.heap[Head(s)].data # << >> /\ Unused(w) # {} ->
         AppendMulticast(Reference(w, o, i, Head(s)), o, i, Tail(s))
    [] OTHER -> w

\* evbuffer_add_buffer_reference: the chains of an empty destination are freed
\* and not taken off its list, and all bytes of the source count as added;
\* repaired, they are, and only what was added counts.
AddBufferReference(w, o, i) ==
  LET cleared == FreeAll(w, w.list[o])
      start == CASE w.total[o] > 0 -> w
                 [] w.total[o] = 0 /\ "evbuffer_add_buffer_reference" \in Repaired -> Zero(cleared, o)
                 [] OTHER -> cleared
      all == AppendMulticast(start, o, i, w.list[i])
      n == IF "evbuffer_add_buffer_reference" \in Repaired THEN all.total[o] - w.total[o] ELSE w.total[i]
  IN CASE w.total[i] = 0 -> Result(TRUE, w)
       [] w.total[i] > 0 /\ ("end" \in frozen[o] \/ \E c \in ToSet(w.list[i]) : w.heap[c].kind = "multicast") ->
            Result(FALSE, w)
       [] OTHER -> Result(TRUE, Added(all, o, n))

\* evbuffer_remove_buffer: the first k chains, with nread bytes, are moved,
\* unless they are all empty; repaired, empty chains move.
MoveChains(w, s, d, k, nread) ==
  LET cs == w.list[s]
      t == FreeTrailing(w, d)
      keep == IF "evbuffer_remove_buffer" \in Repaired THEN k = 0 ELSE nread = 0
  IN IF keep THEN [w EXCEPT !.dp[s] = IF @ \in 1 .. k THEN 0 ELSE @]
     ELSE Advance([t EXCEPT !.list[d] = @ \o SubSeq(cs, 1, k), !.last[d] = Len(t.list[d]) + k,
                            !.list[s] = Rest(cs, k), !.last[s] = @ - k,
                            !.dp[s] = IF @ <= k THEN 0 ELSE @ - k,
                            !.total[d] = @ + nread, !.nadd[d] = @ + nread], d)

\* The m bytes of chain c that are left were copied with evbuffer_add.  When
\* that fails they are lost; repaired, they stay.
Removed(add, s, d, c, m, nread) ==
  LET copied == IF m = 0 \/ (~add.ok /\ "evbuffer_remove_buffer" \in Repaired) THEN 0 ELSE m
      done == [Unlock(add.w, d) EXCEPT !.heap[c].mis = @ + copied, !.heap[c].data = Rest(@, copied),
                                       !.total[s] = @ - (nread + copied), !.ndel[s] = @ + nread + copied]
  IN IF nread + copied = 0 THEN done ELSE Invoke(Invoke(done, d), s)

RemoveBuffer(w, s, d, n) ==
  LET cs == w.list[s]
      k == CHOOSE i \in 0 .. Len(cs) : Upto(w, cs, i) <= n /\ (i = Len(cs) \/ Upto(w, cs, i + 1) > n)
      nread == Upto(w, cs, k)
      l == Assert1(w, w.dp[s] + 1 \notin 1 .. k, "last_with_data")
      rest == SubSeq(w.heap[cs[k + 1]].data, 1, n - nread)
  IN IF "end" \in frozen[d] \/ "start" \in frozen[s] THEN Result(FALSE, w)
     ELSE IF n >= w.total[s] THEN AddBuffer(w, d, s)
     ELSE Result(TRUE, Removed(Add(Lock(MoveChains(l, s, d, k, nread), d), d, rest),
                              s, d, cs[k + 1], n - nread, nread))

---------------------------------------------------------------------------
(* Making room at the end, and reading into it                             *)

\* The index of the first chain with writable space.
FirstSpace(w, b) ==
  LET p == w.dp[b] + 1
  IN IF At(w, b, p) # 0 /\ Space(w, At(w, b, p)) = 0 THEN p + 1 ELSE p

\* evbuffer_expand_singlechain: the index of the chain, 0 without memory.
ExpandSingle(w, b, n) ==
  LET p == FirstSpace(w, b)
      c == At(w, b, p)
      h == w.heap[c]
      next == At(w, b, p + 1)
      insert == IF ~CanAlloc(w, n) THEN [at |-> 0, w |-> w]
                ELSE LET i == InsertNew(w, b, Plain(n, << >>)) IN [at |-> Len(i.list[b]), w |-> i]
      size == Len(h.data) + n
      new == Least(Unused(w))
      resized == [ChainFree(w, c) EXCEPT !.heap[new] = Plain(size, h.data), !.list[b][p] = new]
  IN CASE c = 0 -> insert
       [] c # 0 /\ ~h.ro /\ Space(w, c) >= n -> [at |-> p, w |-> w]
       [] c # 0 /\ (h.ro \/ (Space(w, c) < n /\ h.data = << >>)) -> insert
       [] OTHER ->
            CASE ShouldRealign(h, n) -> [at |-> p, w |-> [w EXCEPT !.heap[c].mis = 0]]
              [] ~ShouldRealign(h, n) /\ Space(w, c) < h.cap \div ResizeShare ->
                   IF next # 0 /\ Space(w, next) >= n THEN [at |-> p + 1, w |-> w] ELSE insert
              [] OTHER -> IF CanAlloc(w, size) THEN [at |-> p, w |-> resized] ELSE [at |-> 0, w |-> w]

\* evbuffer_expand_fast_: n bytes in the last k chains.
ExpandFast(w, b, n, k) ==
  LET s == w.list[b]
      from == w.dp[b] + 1
      room(i) == IF Off(w, s[i]) = 0 THEN w.heap[s[i]].cap ELSE Space(w, s[i])
      avail(i) == FoldLeft(LAMBDA m, j : m + room(j), 0, [x \in 1 .. i - from + 1 |-> from + x - 1])
      used(i) == Cardinality({j \in from .. i : Off(w, s[j]) = 0 \/ room(j) > 0})
      stop == Least({i \in from .. Len(s) : avail(i) >= n \/ used(i) = k} \cup {Len(s)})
      empty == {s[i] : i \in {j \in from .. stop : Off(w, s[j]) = 0}}
      l == Assert1(w, \A i \in from + 1 .. Len(s) : Off(w, s[i]) = 0, "all_empty")
      r == [l EXCEPT !.heap = [c \in Chains |-> IF c \in empty THEN [@[c] EXCEPT !.mis = 0] ELSE @[c]]]
      keep == IF Off(w, s[from]) = 0 THEN 0 ELSE from
      nuked == [FreeAll(r, Rest(s, keep)) EXCEPT !.list[b] = SubSeq(s, 1, keep), !.last[b] = keep]
      PutLast(v, size) ==
        LET c == Least(Unused(v))
        IN [v EXCEPT !.heap[c] = Plain(size, << >>), !.list[b] = Append(@, c),
                     !.last[b] = Len(v.list[b]) + 1]
      left == n - (IF keep = 0 THEN 0 ELSE room(from))
  IN CASE s = << >> \/ w.heap[s[Len(s)]].ro ->
            IF CanAlloc(w, n) THEN Result(TRUE, InsertNew(w, b, Plain(n, << >>))) ELSE Result(FALSE, w)
       [] OTHER ->
            CASE avail(stop) >= n -> Result(TRUE, r)
              [] avail(stop) < n /\ used(stop) < k ->
                   IF CanAlloc(r, n - avail(stop)) THEN Result(TRUE, PutLast(r, n - avail(stop)))
                   ELSE Result(FALSE, r)
              [] OTHER -> IF CanAlloc(nuked, left) THEN Result(TRUE, PutLast(nuked, left))
                          ELSE Result(FALSE, nuked)

\* evbuffer_read_setup_vecs_: where n bytes are written, in at most k pieces.
SetupVecs(w, b, n, k, exact) ==
  LET first == FirstSpace(w, b)
      sofar(i) == FoldLeft(LAMBDA m, j : m + Space(w, At(w, b, j)), 0,
                           [x \in 1 .. i - first |-> first + x - 1])
      count == Cardinality({i \in first .. Len(w.list[b]) : i - first < k /\ sofar(i) < n})
  IN [x \in 1 .. count |->
        LET i == first + x - 1
            c == At(w, b, i)
        IN [chain |-> c, pos |-> w.heap[c].mis + Off(w, c),
            len |-> IF exact THEN Smaller(Space(w, c), n - sofar(i)) ELSE Space(w, c)]]

VecsLen(vecs) == FoldLeft(LAMBDA m, v : m + v.len, 0, vecs)

\* The space of chain number at of buffer b.
OneVec(w, b, at, n) ==
  LET c == At(w, b, at)
  IN IF at = 0 THEN [vecs |-> << >>, w |-> w]
     ELSE [vecs |-> <<[chain |-> c, pos |-> w.heap[c].mis + Off(w, c), len |-> Space(w, c)]>>,
           w |-> Assert1(w, Space(w, c) >= n, "reserved")]
OneSpace(one, b, n) == OneVec(one.w, b, one.at, n)
AllSpace(fast, b, n, k) ==
  [vecs |-> IF fast.ok THEN SetupVecs(fast.w, b, n, k, FALSE) ELSE << >>, w |-> fast.w]

\* evbuffer_reserve_space
ReserveSpace(w, b, n, k) ==
  IF "end" \in frozen[b] THEN [vecs |-> << >>, w |-> w]
  ELSE IF k = 1 THEN OneSpace(ExpandSingle(w, b, n), b, n)
  ELSE AllSpace(ExpandFast(w, b, n, k), b, n, k)

\* s put into the free space of the chains from p on, lens[i] bytes in the i-th.
RECURSIVE Fill(_, _, _, _, _)
Fill(w, b, p, lens, s) ==
  IF lens = << >> THEN w
  ELSE LET n == Head(lens)
           g == Grow(w, b, At(w, b, p), SubSeq(s, 1, n))
       IN Fill(IF n > 0 THEN [g EXCEPT !.dp[b] = p - 1] ELSE g, b, p + 1, Tail(lens), Rest(s, n))

\* evbuffer_commit_space: vecs came from evbuffer_reserve_space, their lengths
\* perhaps made smaller.
CommitSpace(w, b, vecs, s) ==
  LET z == w.list[b][Len(w.list[b])]
      Matches(v, c) == v.chain = c /\ v.pos = w.heap[c].mis + Off(w, c) /\ v.len <= Space(w, c)
      p == IF "evbuffer_commit_space" \notin Repaired THEN FirstSpace(w, b)
           ELSE CHOOSE i \in 1 .. Len(w.list[b]) : At(w, b, i) = vecs[1].chain
      ok == \A i \in 1 .. Len(vecs) : At(w, b, p + i - 1) # 0 /\ Matches(vecs[i], At(w, b, p + i - 1))
      single == Grow(w, b, z, s)
      many == Fill(w, b, p, [i \in 1 .. Len(vecs) |-> vecs[i].len], s)
  IN CASE Len(vecs) = 1 /\ Matches(vecs[1], z) ->
            Result(TRUE, Added(IF s # << >> THEN Advance(single, b) ELSE single, b, Len(s)))
       [] OTHER -> IF ok THEN Result(TRUE, Added(many, b, Len(s))) ELSE Result(FALSE, w)

\* evbuffer_read, of the bytes s of the at most n that were asked for
ReadSpace(w, b, n, s) ==
  LET p == FirstSpace(w, b)
      count == Len(SetupVecs(w, b, n, ReadVecs, TRUE))
      before(i) == FoldLeft(LAMBDA m, j : m + Space(w, At(w, b, j)), 0, [x \in 1 .. i - 1 |-> p + x - 1])
      lens == [i \in 1 .. count |-> Smaller(Space(w, At(w, b, p + i - 1)), Larger(0, Len(s) - before(i)))]
  IN Added(Fill(w, b, p, lens, s), b, Len(s))

---------------------------------------------------------------------------
(* evbuffer_pullup *)

\* s put into the memory of chain c from position pos on.  The code writes
\* into the space behind a read-only chain, too: whoever shares the memory
\* sees the bytes change.
Write(w, c, pos, s) ==
  LET Block(d) == IF w.heap[d].parent = 0 THEN d ELSE w.heap[d].parent
      Cell(d, j) == LET x == w.heap[d].mis + j - pos
                    IN IF x \in 1 .. Len(s) THEN s[x] ELSE w.heap[d].data[j]
  IN [w EXCEPT !.heap = [d \in Chains |->
        IF Block(d) # Block(c) \/ w.heap[d].refcnt = 0 THEN @[d]
        ELSE [@[d] EXCEPT !.data = [j \in 1 .. Len(@) |-> Cell(d, j)]]]]

\* The first n bytes are made contiguous, in the first chain if it has room.
Pullup(w, b, n) ==
  LET s == w.list[b]
      h == w.heap[s[1]]
      inplace == h.cap - h.mis >= n /\ ~(h.ro /\ "evbuffer_pullup" \in Repaired)
      taken == SubSeq(Contents(w.heap, s), 1, n)
      from == IF inplace THEN 2 ELSE 1
      k == CHOOSE i \in from - 1 .. Len(s) : Upto(w, s, i) <= n /\ (i = Len(s) \/ Upto(w, s, i + 1) > n)
      left == n - Upto(w, s, k)
      t == IF inplace THEN s[1] ELSE Least(Unused(w))
      new == IF ~inplace THEN [w EXCEPT !.heap[t] = Plain(n, taken)]
             ELSE [Write(w, t, h.mis + Len(h.data), Rest(taken, Len(h.data))) EXCEPT !.heap[t].data = taken]
      cut == IF k = Len(s) THEN new
             ELSE [new EXCEPT !.heap[s[k + 1]].mis = @ + left, !.heap[s[k + 1]].data = Rest(@, left)]
      list1 == <<t>> \o Rest(s, k)
      out == [FreeAll(cut, SubSeq(s, from, k)) EXCEPT !.list[b] = list1, !.last[b] = IF k = Len(s) THEN 1 ELSE @ - k + 1]
      removed == w.dp[b] + 1 \in from .. k
      removedp == w.dp[b] \in from .. k
      dp1 == CASE removed -> 0
               [] ~removed /\ removedp -> IF Len(list1) > 1 /\ Off(cut, list1[2]) > 0 THEN 1 ELSE 0
               [] OTHER -> IF w.dp[b] = 0 THEN 0 ELSE w.dp[b] - k + 1
  IN CASE s = << >> -> w
       [] s # << >> /\ (n > w.total[b] \/ Off(w, s[1]) >= n) -> w
       [] OTHER -> IF inplace \/ CanAlloc(w, n) THEN [out EXCEPT !.dp[b] = dp1] ELSE w

---------------------------------------------------------------------------
(* The calls.  Who calls anything but evbuffer_commit_space after           *)
(* evbuffer_reserve_space forgets the extents (buffer.h).                   *)

Data == INSTANCE EvBytes

Alive(b) == ~dropped[b]
Bounded(n) == FoldLeft(LAMBDA m, b : m + total[b], n, SetToSeq(Bufs)) <= MaxLen

\* The end of a call on the buffers of B, whose locks w holds.
Ends(w, B) ==
  /\ Becomes(FoldLeft(Unlock, w, SetToSeq(B)))
  /\ reserved' = [b \in Bufs |-> IF b \in B THEN << >> ELSE reserved[b]]
  /\ UNCHANGED <<frozen, dropped>>

Locked(B) == FoldLeft(Lock, Now, SetToSeq(B))

evbuffer_add(b, n) ==
  /\ Alive(b) /\ Bounded(n)
  /\ Ends(Add(Locked({b}), b, Data!Tail2(bytes[b], n)).w, {b})

evbuffer_prepend(b, n) ==
  /\ Alive(b) /\ Bounded(n)
  /\ Ends(Prepend(Locked({b}), b, Data!Head2(bytes[b], n)).w, {b})

\* Also evbuffer_remove, evbuffer_readln and evbuffer_write_atmost, which drain
\* what they have read or written.
evbuffer_drain(b, n) ==
  /\ Alive(b) /\ total[b] > 0
  /\ Ends(Drain(Locked({b}), b, n).w, {b})

evbuffer_add_buffer(o, i) ==
  /\ Alive(o) /\ Alive(i) /\ o # i
  /\ Ends(AddBuffer(Locked({o, i}), o, i).w, {o, i})

evbuffer_prepend_buffer(o, i) ==
  /\ Alive(o) /\ Alive(i) /\ o # i
  /\ Ends(PrependBuffer(Locked({o, i}), o, i).w, {o, i})

evbuffer_add_buffer_reference(o, i) ==
  /\ Alive(o) /\ Alive(i) /\ o # i /\ Bounded(total[i])
  /\ Ends(AddBufferReference(Locked({o, i}), o, i).w, {o, i})

evbuffer_remove_buffer(s, d, n) ==
  /\ Alive(s) /\ Alive(d) /\ s # d
  /\ Ends(RemoveBuffer(Locked({s, d}), s, d, n).w, {s, d})

evbuffer_expand(b, n) ==
  /\ Alive(b)
  /\ Ends(ExpandSingle(Locked({b}), b, n).w, {b})

evbuffer_reserve_space(b, n, k) ==
  LET r == ReserveSpace(Locked({b}), b, n, k)
  IN /\ Alive(b)
     /\ Becomes(Unlock(r.w, b))
     /\ reserved' = [reserved EXCEPT ![b] = r.vecs]
     /\ UNCHANGED <<frozen, dropped>>

\* The caller has used from .. to of the extents, at most MaxAdd bytes, and
\* must have them accepted.
evbuffer_commit_space(b, from, to, lens) ==
  LET vecs == [i \in 1 .. to - from + 1 |-> [reserved[b][from + i - 1] EXCEPT !.len = lens[i]]]
      s == Data!Tail2(bytes[b], VecsLen(vecs))
      r == CommitSpace(Locked({b}), b, vecs, s)
  IN /\ Alive(b) /\ "end" \notin frozen[b]
     /\ Bounded(Len(s)) /\ Len(s) \in 1 .. MaxAdd
     /\ \A i \in 1 .. Len(vecs) : lens[i] <= reserved[b][from + i - 1].len
     /\ Ends(Assert1(r.w, r.ok, "commit"), {b})

\* howmuch bytes asked for, got of them read (none: an error or the end of the
\* stream).
evbuffer_read(b, howmuch, got) ==
  LET l == Locked({b})
      e == ExpandFast(l, b, howmuch, ReadVecs)
      w == CASE "end" \in frozen[b] -> l
             [] "end" \notin frozen[b] /\ (~e.ok \/ got = 0) -> e.w
             [] OTHER -> ReadSpace(e.w, b, howmuch, Data!Tail2(bytes[b], got))
  IN Alive(b) /\ Bounded(got) /\ got <= howmuch /\ Ends(w, {b})

evbuffer_add_reference(b, n) ==
  LET l == Locked({b})
      s == Data!Tail2(bytes[b], n)
      chain == [NoChain EXCEPT !.cap = n, !.data = s, !.ro = TRUE, !.refcnt = 1, !.kind = "reference"]
  IN /\ Alive(b) /\ Bounded(n) /\ "end" \notin frozen[b] /\ Unused(l) # {}
     /\ Ends(Added(InsertNew(l, b, chain), b, n), {b})

evbuffer_pullup(b, n) ==
  /\ Alive(b)
  /\ Ends(Pullup(Locked({b}), b, n), {b})

evbuffer_freeze(b, e) ==
  /\ Alive(b)
  /\ frozen' = [frozen EXCEPT ![b] = IF e \in @ THEN @ \ {e} ELSE @ \cup {e}]
  /\ UNCHANGED <<heap, list, dp, last, total, nadd, ndel, refs, pending, told, dropped, reserved, fault>>

evbuffer_free(b) ==
  /\ Alive(b)
  /\ dropped' = [dropped EXCEPT ![b] = TRUE]
  /\ frozen' = [frozen EXCEPT ![b] = {}]
  /\ reserved' = [reserved EXCEPT ![b] = << >>]
  /\ Becomes(Decref(Now, b))

evbuffer_new(b) ==
  /\ dropped[b] /\ refs[b] = 0
  /\ dropped' = [dropped EXCEPT ![b] = FALSE]
  /\ refs' = [refs EXCEPT ![b] = 1]
  /\ UNCHANGED <<heap, list, dp, last, total, nadd, ndel, pending, told, frozen, reserved, fault>>

\* The event base runs the deferred callback of a buffer.
evbuffer_deferred_callback(b) ==
  /\ pending[b]
  /\ Becomes(Decref(RunCallbacks(Lock([Now EXCEPT !.pending[b] = FALSE], b), b, TRUE), b))
  /\ UNCHANGED <<frozen, dropped, reserved>>

Call(b) ==
  \/ \E n \in 1 .. MaxAdd :
       evbuffer_add(b, n) \/ evbuffer_prepend(b, n) \/ evbuffer_add_reference(b, n)
  \/ \E n \in 1 .. MaxLen : evbuffer_drain(b, n) \/ evbuffer_pullup(b, n)
  \/ \E o \in Bufs :
       \/ evbuffer_add_buffer(b, o) \/ evbuffer_prepend_buffer(b, o)
       \/ evbuffer_add_buffer_reference(b, o)
       \/ \E n \in 1 .. MaxLen : evbuffer_remove_buffer(b, o, n)
  \/ \E n \in Asks, k \in {1, ReadVecs} : evbuffer_reserve_space(b, n, k)
  \/ \E to \in 1 .. Len(reserved[b]) : \E from \in {1, to} :
       \E lens \in [1 .. to - from + 1 -> 0 .. MaxAdd] : evbuffer_commit_space(b, from, to, lens)
  \/ \E n \in Asks : \/ evbuffer_expand(b, n)
                      \/ \E got \in 0 .. MaxAdd : evbuffer_read(b, n, got)
  \/ \E e \in {"start", "end"} : <<b, e>> \in Freezes /\ evbuffer_freeze(b, e)
  \/ evbuffer_free(b) \/ evbuffer_new(b)

Shown == bytes' = [b \in Bufs |-> IF dropped'[b] THEN << >> ELSE Contents(heap', list'[b])]

Next ==
  \/ calls < MaxCalls /\ calls' = calls + 1 /\ \E b \in Bufs : Call(b) /\ Shown
  \/ \E b \in Bufs : evbuffer_deferred_callback(b) /\ UNCHANGED calls /\ Shown

Spec == Init /\ [][Next]_vars

---------------------------------------------------------------------------
(* Properties *)

\* last_with_datap points to the last chain that has data, or to the first
\* one, and last to the last chain (evbuffer-internal.h): every call that adds
\* at the end writes there.
LastWithData ==
  \A b \in Bufs :
    LET full == {i \in 1 .. Len(list[b]) : heap[list[b][i]].data # << >>}
    IN /\ last[b] = Len(list[b])
       /\ IF full = {} THEN dp[b] = 0
          ELSE dp[b] + 1 \in full /\ \A i \in full : i <= dp[b] + 1

\* No assertion of buffer.c fails, no lock is given back that is not held, and
\* evbuffer_commit_space takes what evbuffer_reserve_space gave.
AssertionsHold == fault = {}

\* total_len is the number of bytes in the chains.
LengthAgrees == \A b \in Bufs : total[b] = Len(Contents(heap, list[b]))

\* A chain lives exactly as long as a buffer or a chain that shares it needs
\* it, and a buffer as its owner, a chain that shares one of its chains, or a
\* queued callback does.
RefsAgree ==
  /\ \A c \in Chains :
       heap[c].refcnt = Cardinality({b \in Bufs : c \in ToSet(list[b])})
                        + Cardinality({m \in Chains : heap[m].refcnt > 0 /\ heap[m].parent = c})
  /\ \A b \in Bufs :
       /\ IsInjective(list[b])
       /\ refs[b] = (IF dropped[b] THEN 0 ELSE 1) + (IF pending[b] THEN 1 ELSE 0)
                    + Cardinality({m \in Chains : heap[m].source = b})

\* The chains, lengths and references of all buffers between any two calls; and
\* no call on the way met a state that it is not made for.
Inv == TypeOK /\ LastWithData /\ LengthAgrees /\ RefsAgree /\ AssertionsHold

\* Whoever adds up what the callbacks of a buffer were told knows its length,
\* but for the changes the next callback will tell.
CallbacksTellAll == \A b \in Bufs : told[b] + nadd[b] - ndel[b] = total[b]

\* The buffers are the byte sequences of EvBytes.
ImplementsBytes == Data!Spec
==============================================================================
