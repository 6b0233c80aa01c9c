--------------------------- MODULE MsQueueProofs ---------------------------
(***************************************************************************)
(* MsQueue for any number of items, queues and threads: IInv is an         *)
(* inductive invariant, and under it every step is a step of MsFifo or     *)
(* none.                                                                   *)
(***************************************************************************)
EXTENDS MsQueue, FiniteSetTheorems, SequenceTheorems, TLAPS

---------------------------------------------------------------------------
(* Lists: what the three updates of a linked list do to the sequence it    *)
(* stands for.                                                             *)

(***************************************************************************)
(* Taking the head of a list (ms_item_alloc, ms_quene_pop) leaves a list   *)
(* whose head is the link of the old head.                                 *)
(***************************************************************************)
LEMMA TailOfList ==
  ASSUME NEW s \in Seq(Items), s # << >>, NEW link \in [Items -> Items \cup {Null}],
         Linked(s, link), Ended(s, link), NoRepeat(s)
  PROVE  /\ Tail(s) \in Seq(Items)
         /\ Linked(Tail(s), link) /\ Ended(Tail(s), link) /\ NoRepeat(Tail(s))
         /\ HeadOf(Tail(s)) = link[s[1]]
         /\ Tail(s) # << >> => LastOf(Tail(s)) = LastOf(s)
         /\ Tail(s) = << >> <=> link[s[1]] = Null
         /\ \A x : x \in Range(Tail(s)) <=> x \in Range(s) /\ x # s[1]
<1> DEFINE t == Tail(s)
<1>1. /\ t \in Seq(Items) /\ Len(t) = Len(s) - 1
      /\ \A i \in 1 .. Len(t) : t[i] = s[i + 1]
  BY HeadTailProperties, Zenon
<1>2. /\ Len(s) \in Nat \ {0}
      /\ \A i \in 1 .. Len(s) : s[i] \in Items
      /\ DOMAIN s = 1 .. Len(s) /\ DOMAIN t = 1 .. Len(t)
  BY <1>1, EmptySeq, LenProperties, ElementOfSeq
<1>3. t = << >> <=> Len(t) = 0
  BY <1>1, EmptySeq, LenProperties
<1> HIDE DEF t
<1>4. Linked(t, link)
  BY <1>1, <1>2 DEF Linked
<1>5. Ended(t, link)
  BY <1>1, <1>2, <1>3 DEF Ended
<1>6. NoRepeat(t)
  BY <1>1, <1>2 DEF NoRepeat
<1>7. HeadOf(t) = link[s[1]]
  <2>1. CASE t = << >>
    BY <2>1, <1>1, <1>2, <1>3 DEF HeadOf, Ended
  <2>2. CASE t # << >>
    <3>1. Len(s) > 1
      BY <2>2, <1>1, <1>2, <1>3
    <3>2. t[1] = s[2] /\ link[s[1]] = s[2]
      BY <3>1, <1>1, <1>2 DEF Linked
    <3> QED BY <2>2, <3>2 DEF HeadOf
  <2> QED BY <2>1, <2>2
<1>8. t # << >> => LastOf(t) = LastOf(s)
  BY <1>1, <1>2, <1>3 DEF LastOf
<1>9. t = << >> <=> link[s[1]] = Null
  <2>1. t # << >> => t[1] \in Items
    BY <1>1, <1>2, <1>3
  <2> QED BY <1>7, <2>1 DEF HeadOf, Items, Null
<1>10. \A x : x \in Range(t) <=> x \in Range(s) /\ x # s[1]
  <2>1. ASSUME NEW x, x \in Range(t)
        PROVE  x \in Range(s) /\ x # s[1]
    <3>1. PICK i \in 1 .. Len(t) : t[i] = x
      BY <2>1, <1>2 DEF Range
    <3>2. i + 1 \in 1 .. Len(s) /\ s[i + 1] = x /\ i + 1 # 1 /\ 1 \in 1 .. Len(s)
      BY <3>1, <1>1, <1>2
    <3> QED BY <3>2, <1>2 DEF Range, NoRepeat
  <2>2. ASSUME NEW x, x \in Range(s), x # s[1]
        PROVE  x \in Range(t)
    <3>1. PICK i \in 1 .. Len(s) : s[i] = x
      BY <2>2, <1>2 DEF Range
    <3>2. i # 1 /\ i - 1 \in 1 .. Len(t) /\ t[i - 1] = x
      BY <3>1, <2>2, <1>1, <1>2
    <3> QED BY <3>2, <1>2 DEF Range
  <2> QED BY <2>1, <2>2
<1> QED BY <1>1, <1>4, <1>5, <1>6, <1>7, <1>8, <1>9, <1>10 DEF t

(***************************************************************************)
(* Linking an item in front of a list it is not in (ms_item_free).         *)
(***************************************************************************)
LEMMA ConsOfList ==
  ASSUME NEW s \in Seq(Items), NEW link \in [Items -> Items \cup {Null}],
         Linked(s, link), Ended(s, link), NoRepeat(s),
         NEW e \in Items, e \notin Range(s), link[e] = HeadOf(s)
  PROVE  LET t == <<e>> \o s IN
         /\ t \in Seq(Items)
         /\ Linked(t, link) /\ Ended(t, link) /\ NoRepeat(t)
         /\ HeadOf(t) = e
         /\ \A x : x \in Range(t) <=> x \in Range(s) \/ x = e
<1> DEFINE t == <<e>> \o s
<1>1. <<e>> \in Seq(Items) /\ Len(<<e>>) = 1 /\ <<e>>[1] = e
  OBVIOUS
<1>2. /\ t \in Seq(Items) /\ Len(t) = Len(s) + 1
      /\ \A i \in 1 .. Len(s) + 1 : t[i] = IF i = 1 THEN e ELSE s[i - 1]
  <2>1. Len(s) \in Nat
    BY LenProperties
  <2>2. /\ t \in Seq(Items) /\ Len(t) = 1 + Len(s)
        /\ \A i \in 1 .. 1 + Len(s) : t[i] = IF i <= 1 THEN <<e>>[i] ELSE s[i - 1]
    BY <1>1, ConcatProperties
  <2> QED BY <1>1, <2>1, <2>2
<1>3. /\ Len(s) \in Nat
      /\ s = << >> <=> Len(s) = 0
      /\ \A i \in 1 .. Len(s) : s[i] \in Items
      /\ DOMAIN s = 1 .. Len(s) /\ DOMAIN t = 1 .. Len(t)
  BY <1>2, EmptySeq, LenProperties, ElementOfSeq
<1>4. t # << >>
  BY <1>2, <1>3, EmptySeq
<1> HIDE DEF t
<1>5. Linked(t, link)
  <2> SUFFICES ASSUME NEW i \in 1 .. Len(s) PROVE link[t[i]] = t[i + 1]
    BY <1>2, <1>3 DEF Linked
  <2>1. CASE i = 1
    BY <2>1, <1>2, <1>3 DEF HeadOf
  <2>2. CASE i # 1
    BY <2>2, <1>2, <1>3 DEF Linked
  <2> QED BY <2>1, <2>2
<1>6. Ended(t, link)
  BY <1>2, <1>3 DEF Ended, HeadOf
<1>7. NoRepeat(t)
  <2> SUFFICES ASSUME NEW i \in 1 .. Len(t), NEW j \in 1 .. Len(t), t[i] = t[j]
               PROVE  i = j
    BY DEF NoRepeat
  <2>1. \A k \in 1 .. Len(t) : k # 1 => k - 1 \in 1 .. Len(s) /\ t[k] = s[k - 1] /\ t[k] # e
    BY <1>2, <1>3 DEF Range
  <2>2. t[1] = e /\ 1 \in 1 .. Len(t)
    BY <1>2, <1>3
  <2>3. CASE i = 1 \/ j = 1
    BY <2>1, <2>2, <2>3
  <2>4. CASE i # 1 /\ j # 1
    BY <2>1, <2>4, <1>3 DEF NoRepeat
  <2> QED BY <2>3, <2>4
<1>8. HeadOf(t) = e
  <2>1. t[1] = e
    BY <1>2, <1>3
  <2> QED BY <2>1, <1>4 DEF HeadOf
<1>9. \A x : x \in Range(t) <=> x \in Range(s) \/ x = e
  <2>1. ASSUME NEW x, x \in Range(t) PROVE x \in Range(s) \/ x = e
    <3>1. PICK i \in 1 .. Len(t) : t[i] = x
      BY <2>1, <1>3 DEF Range
    <3>2. CASE i = 1
      BY <3>1, <3>2, <1>2, <1>3
    <3>3. CASE i # 1
      <4>1. i - 1 \in 1 .. Len(s) /\ s[i - 1] = x
        BY <3>1, <3>3, <1>2, <1>3
      <4> QED BY <4>1, <1>3 DEF Range
    <3> QED BY <3>2, <3>3
  <2>2. ASSUME NEW x, x \in Range(s) PROVE x \in Range(t)
    <3>1. PICK i \in 1 .. Len(s) : s[i] = x
      BY <2>2, <1>3 DEF Range
    <3>2. i + 1 \in 1 .. Len(t) /\ t[i + 1] = x
      BY <3>1, <1>2, <1>3
    <3> QED BY <3>2, <1>3 DEF Range
  <2>3. e \in Range(t)
    <3>1. 1 \in 1 .. Len(t) /\ t[1] = e
      BY <1>2, <1>3
    <3> QED BY <3>1, <1>3 DEF Range
  <2> QED BY <2>1, <2>2, <2>3
<1> QED BY <1>2, <1>5, <1>6, <1>7, <1>8, <1>9 DEF t

(***************************************************************************)
(* Linking an item behind the last one of a list it is not in              *)
(* (ms_quene_push); its own link has been cleared.                         *)
(***************************************************************************)
LEMMA AppendToList ==
  ASSUME NEW s \in Seq(Items), NEW link \in [Items -> Items \cup {Null}],
         Linked(s, link), NoRepeat(s),
         NEW e \in Items, e \notin Range(s), link[e] = Null,
         s # << >> => link[s[Len(s)]] = e
  PROVE  LET t == Append(s, e) IN
         /\ t \in Seq(Items)
         /\ Linked(t, link) /\ Ended(t, link) /\ NoRepeat(t)
         /\ HeadOf(t) = (IF s = << >> THEN e ELSE s[1])
         /\ LastOf(t) = e
         /\ \A x : x \in Range(t) <=> x \in Range(s) \/ x = e
<1> DEFINE t == Append(s, e)
<1>1. /\ t \in Seq(Items) /\ t # << >> /\ Len(t) = Len(s) + 1
      /\ \A i \in 1 .. Len(s) : t[i] = s[i]
      /\ t[Len(s) + 1] = e
  BY AppendProperties
<1>2. /\ Len(s) \in Nat
      /\ s = << >> <=> Len(s) = 0
      /\ \A i \in 1 .. Len(s) : s[i] \in Items
      /\ DOMAIN s = 1 .. Len(s) /\ DOMAIN t = 1 .. Len(t)
  BY <1>1, EmptySeq, LenProperties, ElementOfSeq
<1> HIDE DEF t
<1>3. Linked(t, link)
  <2> SUFFICES ASSUME NEW i \in 1 .. Len(s) PROVE link[t[i]] = t[i + 1]
    BY <1>1, <1>2 DEF Linked
  <2>1. CASE i = Len(s)
    BY <2>1, <1>1, <1>2
  <2>2. CASE i # Len(s)
    <3>1. i < Len(s) /\ i \in 1 .. Len(s) - 1 /\ i + 1 \in 1 .. Len(s)
      <4>1. Len(s) \in Nat
        BY <1>2
      <4> QED BY <2>2, <4>1
    <3>2. t[i] = s[i] /\ t[i + 1] = s[i + 1]
      BY <3>1, <1>1
    <3> QED BY <3>1, <3>2 DEF Linked
  <2> QED BY <2>1, <2>2
<1>4. Ended(t, link)
  BY <1>1, <1>2 DEF Ended
<1>5. NoRepeat(t)
  BY <1>1, <1>2 DEF NoRepeat, Range
<1>6. HeadOf(t) = (IF s = << >> THEN e ELSE s[1]) /\ LastOf(t) = e
  BY <1>1, <1>2 DEF HeadOf, LastOf
<1>7. \A x : x \in Range(t) <=> x \in Range(s) \/ x = e
  <2>1. ASSUME NEW x, x \in Range(t) PROVE x \in Range(s) \/ x = e
    BY <2>1, <1>1, <1>2 DEF Range
  <2>2. ASSUME NEW x, x \in Range(s) PROVE x \in Range(t)
    <3>1. PICK i \in 1 .. Len(s) : s[i] = x
      BY <2>2, <1>2 DEF Range
    <3>2. i \in 1 .. Len(t) /\ t[i] = x
      BY <3>1, <1>1, <1>2
    <3> QED BY <3>2, <1>2 DEF Range
  <2>3. e \in Range(t)
    <3>1. Len(s) + 1 \in 1 .. Len(t)
      BY <1>1, <1>2
    <3> QED BY <3>1, <1>1, <1>2 DEF Range
  <2> QED BY <2>1, <2>2, <2>3
<1> QED BY <1>1, <1>3, <1>4, <1>5, <1>6, <1>7 DEF t

(***************************************************************************)
(* A list without repetition is no longer than the pool was at the start.  *)
(***************************************************************************)
LEMMA ListIsBounded ==
  ASSUME NEW s \in Seq(Items), NoRepeat(s)
  PROVE  Len(s) <= NumItems
<1>1. Len(s) \in Nat /\ s \in [1 .. Len(s) -> Items] /\ NumItems \in Nat
  BY LenProperties, MsQueueAssumption
<1>2. s \in Injection(1 .. Len(s), Items)
  BY <1>1 DEF NoRepeat, Injection, IsInjective
<1>3. /\ IsFiniteSet(Items) /\ Cardinality(Items) = NumItems
      /\ Cardinality(1 .. Len(s)) = Len(s)
  <2>1. /\ IsFiniteSet(1 .. NumItems)
        /\ Cardinality(1 .. NumItems) = IF 1 > NumItems THEN 0 ELSE NumItems - 1 + 1
    BY <1>1, FS_Interval
  <2>2. Cardinality(1 .. Len(s)) = IF 1 > Len(s) THEN 0 ELSE Len(s) - 1 + 1
    BY <1>1, FS_Interval
  <2> QED BY <1>1, <2>1, <2>2, MsQueueAssumption DEF Items
<1>4. Cardinality(1 .. Len(s)) <= Cardinality(Items)
  BY <1>2, <1>3, FS_Injection, Zenon
<1> QED BY <1>1, <1>3, <1>4
---------------------------------------------------------------------------
(* What the steps leave alone.                                             *)

\* Goto moves one thread.
LEMMA GotoStep ==
  ASSUME NEW p \in Threads, pc \in [Threads -> Labels],
         NEW from, NEW to \in Labels, Goto(p, from, to)
  PROVE  /\ pc' \in [Threads -> Labels]
         /\ pc[p] = from /\ pc'[p] = to
         /\ \A r \in Threads \ {p} : pc'[r] = pc[r]
  BY DEF Goto

\* The item of a thread is in no list and in no other thread's hands.
LEMMA OwnedItem ==
  ASSUME IInv, NEW p \in Threads, Owns(p)
  PROVE  /\ pms_item[p] \in Items
         /\ where[pms_item[p]] = p
         /\ pms_item[p] \notin Range(freeSeq)
         /\ \A q \in Queues : pms_item[p] \notin Range(queueSeq[q])
         /\ \A r \in Threads \ {p} : Owns(r) => pms_item[r] # pms_item[p]
<1>1. pms_item[p] \in Items
  BY DEF IInv, TypeOK, Owns
<1>2. where[pms_item[p]] = p
  BY <1>1 DEF IInv, OnePlace, IsAtOnePlace
<1> QED BY <1>1, <1>2, MsQueueAssumption DEF IInv, OnePlace, IsAtOnePlace

\* A list stays a list when only links of other items are written.
LEMMA LinkElsewhere ==
  ASSUME NEW s \in Seq(Items), NEW link, NEW link2,
         \A x \in Range(s) : link2[x] = link[x]
  PROVE  /\ Linked(s, link) => Linked(s, link2)
         /\ Ended(s, link) => Ended(s, link2)
<1>1. /\ Len(s) \in Nat /\ DOMAIN s = 1 .. Len(s)
      /\ s # << >> => Len(s) # 0
  BY LenProperties, EmptySeq
<1>2. \A i \in 1 .. Len(s) : link2[s[i]] = link[s[i]]
  BY <1>1 DEF Range
<1> QED BY <1>1, <1>2 DEF Linked, Ended

\* First and last element of a list that is not empty.
LEMMA EndsOfList ==
  ASSUME NEW s \in Seq(Items)
  PROVE  /\ s = << >> <=> HeadOf(s) = Null
         /\ s = << >> <=> LastOf(s) = Null
         /\ s # << >> => /\ s[1] \in Items /\ s[1] \in Range(s)
                         /\ s[Len(s)] \in Items /\ s[Len(s)] \in Range(s)
<1>1. s # << >> => 1 \in DOMAIN s /\ Len(s) \in DOMAIN s
  BY LenProperties, EmptySeq
<1>2. \A i \in DOMAIN s : s[i] \in Items
  BY LenProperties, ElementOfSeq
<1>3. Null \notin Items
  BY DEF Items, Null
<1> QED BY <1>1, <1>2, <1>3 DEF HeadOf, LastOf, Range

LEMMA QueueFrame ==
  ASSUME NEW q \in Queues, TypeOK, IsQueue(q),
         phead'[q] = phead[q], ptail'[q] = ptail[q], queueSeq'[q] = queueSeq[q],
         \A x \in Range(queueSeq[q]) : pnext'[x] = pnext[x],
         Pushing(q)' = Pushing(q), Popping(q) \subseteq Popping(q)',
         \A r \in Pushing(q) : pms_item'[r] = pms_item[r]
  PROVE  IsQueue(q)'
<1> DEFINE s == queueSeq[q]
<1>0. s \in Seq(Items)
  BY DEF TypeOK
<1>1. /\ Linked(s, pnext) => Linked(s, pnext')
      /\ Ended(s, pnext) => Ended(s, pnext')
  BY <1>0, LinkElsewhere
<1>2. s # << >> => s[Len(s)] \in Range(s)
  BY <1>0, EndsOfList
<1>3. Popping(q)' = {} => Popping(q) = {}
  OBVIOUS
<1> QED BY <1>1, <1>2, <1>3 DEF IsQueue

LEMMA PlaceFrame ==
  ASSUME OnePlace, UNCHANGED hist,
         \A r \in Threads : Owns(r)' <=> Owns(r),
         \A r \in Threads : Owns(r) => pms_item'[r] = pms_item[r]
  PROVE  OnePlace'
BY DEF OnePlace, IsAtOnePlace, hist

(***************************************************************************)
(* A step of thread p that only moves p, its item or its argument, and     *)
(* neither ends a pop nor begins or ends a push.                           *)
(***************************************************************************)
LEMMA QuietStep ==
  ASSUME IInv, NEW p \in Threads, UNCHANGED <<lists, hist>>,
         \A r \in Threads \ {p} : /\ pc'[r] = pc[r] /\ arg'[r] = arg[r]
                                  /\ pms_item'[r] = pms_item[r],
         pc[p] \notin {"push_tail", "pop_tail"}, pc'[p] # "push_tail",
         Owns(p)' <=> Owns(p),
         Owns(p) => pms_item'[p] = pms_item[p]
  PROVE  FreeListInv' /\ QueueListInv' /\ OnePlace'
<1> USE DEF lists, hist
<1>1. FreeListInv'
  BY DEF IInv, FreeListInv
<1>2. \A q \in Queues : Pushing(q)' = Pushing(q) /\ Popping(q) \subseteq Popping(q)'
  BY DEF Pushing, Popping
<1>3. \A q \in Queues : \A r \in Pushing(q) : pms_item'[r] = pms_item[r]
  BY DEF Pushing
<1>4. QueueListInv'
  BY <1>2, <1>3, QueueFrame DEF QueueListInv, IInv
<1>5. \A r \in Threads : /\ Owns(r)' <=> Owns(r)
                         /\ Owns(r) => pms_item'[r] = pms_item[r]
  BY DEF Owns
<1>6. OnePlace'
  BY <1>5, PlaceFrame DEF IInv
<1> QED BY <1>1, <1>4, <1>6

---------------------------------------------------------------------------
(* Mutexes: what locking, unlocking and neither do to LockInv.             *)

LEMMA SectionsApart == PoolSection \cap QueueSection = {}
  BY DEF PoolSection, QueueSection

LEMMA KeepLocks ==
  ASSUME LockInv, NEW p \in Threads, UNCHANGED locks,
         \A r \in Threads \ {p} : pc'[r] = pc[r] /\ arg'[r] = arg[r],
         pc'[p] \in PoolSection <=> pc[p] \in PoolSection,
         pc'[p] \in QueueSection <=> pc[p] \in QueueSection,
         pc[p] \in QueueSection => arg'[p] = arg[p]
  PROVE  LockInv'
BY DEF LockInv, HoldsLocks, locks

LEMMA PoolLocked ==
  ASSUME LockInv, NEW p \in Threads, LockPool(p),
         \A r \in Threads \ {p} : pc'[r] = pc[r] /\ arg'[r] = arg[r],
         pc[p] \notin QueueSection, pc'[p] \in PoolSection
  PROVE  LockInv'
<1> USE MsQueueAssumption DEF LockPool, LockInv, HoldsLocks
<1>1. pc'[p] \notin QueueSection
  BY SectionsApart
<1>2. HoldsLocks(p)'
  BY <1>1
<1>3. ASSUME NEW r \in Threads \ {p} PROVE HoldsLocks(r)'
  OBVIOUS
<1> QED BY <1>2, <1>3

LEMMA PoolUnlocked ==
  ASSUME LockInv, NEW p \in Threads, UnlockPool(p),
         \A r \in Threads \ {p} : pc'[r] = pc[r] /\ arg'[r] = arg[r],
         pc[p] \in PoolSection, pc'[p] \notin PoolSection \cup QueueSection
  PROVE  LockInv'
<1> USE MsQueueAssumption DEF UnlockPool, LockInv, HoldsLocks
<1>1. pc[p] \notin QueueSection
  BY SectionsApart
<1>2. HoldsLocks(p)'
  BY <1>1
<1>3. ASSUME NEW r \in Threads \ {p} PROVE HoldsLocks(r)'
  OBVIOUS
<1> QED BY <1>2, <1>3

LEMMA QueueLocked ==
  ASSUME TypeOK, LockInv, NEW p \in Threads, LockQueue(p),
         \A r \in Threads \ {p} : pc'[r] = pc[r] /\ arg'[r] = arg[r],
         arg'[p] = arg[p],
         pc[p] \notin PoolSection \cup QueueSection, pc'[p] \in QueueSection
  PROVE  LockInv'
<1> USE MsQueueAssumption DEF LockQueue, LockInv, HoldsLocks
<1>1. pc'[p] \notin PoolSection
  BY SectionsApart
<1>2. /\ arg[p] \in Queues /\ msquene_lock[arg[p]] = NoThread
      /\ \A q \in Queues : msquene_lock'[q] = IF q = arg[p] THEN p ELSE msquene_lock[q]
  BY DEF TypeOK
<1>3. HoldsLocks(p)'
  BY <1>1, <1>2
<1>4. ASSUME NEW r \in Threads \ {p} PROVE HoldsLocks(r)'
  BY <1>2
<1> QED BY <1>3, <1>4

LEMMA QueueUnlocked ==
  ASSUME TypeOK, LockInv, NEW p \in Threads, UnlockQueue(p),
         \A r \in Threads \ {p} : pc'[r] = pc[r] /\ arg'[r] = arg[r],
         arg'[p] = arg[p],
         pc[p] \in QueueSection, pc'[p] \notin PoolSection \cup QueueSection
  PROVE  LockInv'
<1> USE MsQueueAssumption DEF UnlockQueue, LockInv, HoldsLocks
<1>1. pc[p] \notin PoolSection
  BY SectionsApart
<1>2. /\ arg[p] \in Queues /\ msquene_lock[arg[p]] = p
      /\ \A q \in Queues : msquene_lock'[q] = IF q = arg[p] THEN NoThread ELSE msquene_lock[q]
  BY DEF TypeOK
<1>3. HoldsLocks(p)'
  BY <1>1, <1>2
<1>4. ASSUME NEW r \in Threads \ {p} PROVE HoldsLocks(r)'
  BY <1>2
<1> QED BY <1>3, <1>4

\* Two threads are never in the sections of the same list.
LEMMA OneInSection ==
  ASSUME LockInv, NEW p \in Threads, NEW r \in Threads, arg[p] \in Queues,
         \/ pc[p] \in PoolSection /\ pc[r] \in PoolSection
         \/ pc[p] \in QueueSection /\ pc[r] \in QueueSection /\ arg[p] = arg[r]
  PROVE  p = r
BY DEF LockInv, HoldsLocks

---------------------------------------------------------------------------
(* One lemma per action.                                                   *)

LEMMA AllocLockInv ==
  ASSUME IInv, NEW p \in Threads, AllocLock(p) PROVE IInv'
<1> USE MsQueueAssumption DEF IInv, AllocLock, lists, locks, hist
<1>2. /\ pc' \in [Threads -> Labels]
      /\ pc[p] = "idle" /\ pc'[p] = "alloc_read"
      /\ \A r \in Threads \ {p} : pc'[r] = pc[r]
  BY GotoStep DEF TypeOK, Labels, PoolSection, QueueSection
<1>3. \A r \in Threads \ {p} : arg'[r] = arg[r] /\ pms_item'[r] = pms_item[r]
  BY DEF TypeOK
<1>4. TypeOK'
  BY <1>2 DEF TypeOK, LockPool
<1>5. LockInv'
  <2>1. pc[p] \notin PoolSection \cup QueueSection /\ pc'[p] \in PoolSection
    BY <1>2 DEF PoolSection, QueueSection
  <2> QED BY <1>2, <1>3, <2>1, PoolLocked, SectionsApart
<1>6. FreeListInv' /\ QueueListInv' /\ OnePlace'
  <2>1. /\ Owns(p)' <=> Owns(p)
        /\ Owns(p) => pms_item'[p] = pms_item[p]
    BY <1>2 DEF Owns, ItemInv, KnowsItem, TypeOK, Goto
  <2> QED BY <1>2, <1>3, <2>1, QuietStep
<1>7. ItemInv'
  <2> SUFFICES ASSUME NEW r \in Threads PROVE KnowsItem(r)'
    BY DEF ItemInv
  <2>1. CASE r = p
    BY <1>2, <2>1 DEF ItemInv, KnowsItem, TypeOK, Goto
  <2>2. CASE r # p
    BY <1>2, <1>3, <2>2 DEF ItemInv, KnowsItem
  <2> QED BY <2>1, <2>2
<1> QED BY <1>4, <1>5, <1>6, <1>7

LEMMA AllocReadInv ==
  ASSUME IInv, NEW p \in Threads, AllocRead(p) PROVE IInv'
<1> USE MsQueueAssumption DEF IInv, AllocRead, lists, locks, hist
<1>1. PICK to \in {"alloc_next", "alloc_unlock"} : Goto(p, "alloc_read", to)
  OBVIOUS
<1>2. /\ pc' \in [Threads -> Labels]
      /\ pc[p] = "alloc_read" /\ pc'[p] = to
      /\ \A r \in Threads \ {p} : pc'[r] = pc[r]
  BY <1>1, GotoStep DEF TypeOK, Labels, PoolSection, QueueSection
<1>3. \A r \in Threads \ {p} : arg'[r] = arg[r] /\ pms_item'[r] = pms_item[r]
  BY DEF TypeOK
<1>4. TypeOK'
  BY <1>2 DEF TypeOK
<1>5. LockInv'
  <2>1. pc[p] \in PoolSection /\ pc'[p] \in PoolSection
    BY <1>2 DEF PoolSection, QueueSection
  <2> QED BY <1>2, <1>3, <2>1, KeepLocks, SectionsApart
<1>6. FreeListInv' /\ QueueListInv' /\ OnePlace'
  <2>1. /\ Owns(p)' <=> Owns(p)
        /\ Owns(p) => pms_item'[p] = pms_item[p]
    BY <1>2 DEF Owns, ItemInv, KnowsItem, TypeOK, Goto
  <2> QED BY <1>2, <1>3, <2>1, QuietStep
<1>7. ItemInv'
  <2> SUFFICES ASSUME NEW r \in Threads PROVE KnowsItem(r)'
    BY DEF ItemInv
  <2>1. CASE r = p
    BY <1>2, <2>1 DEF ItemInv, KnowsItem, TypeOK, Goto
  <2>2. CASE r # p
    BY <1>2, <1>3, <2>2 DEF ItemInv, KnowsItem
  <2> QED BY <2>1, <2>2
<1> QED BY <1>4, <1>5, <1>6, <1>7

LEMMA AllocNextInv ==
  ASSUME IInv, NEW p \in Threads, AllocNext(p) PROVE IInv'
<1> USE MsQueueAssumption DEF IInv, AllocNext, lists, locks, hist
<1>2. /\ pc' \in [Threads -> Labels]
      /\ pc[p] = "alloc_next" /\ pc'[p] = "alloc_unlock"
      /\ \A r \in Threads \ {p} : pc'[r] = pc[r]
  BY GotoStep DEF TypeOK, Labels, PoolSection, QueueSection
<1>3. \A r \in Threads \ {p} : arg'[r] = arg[r] /\ pms_item'[r] = pms_item[r]
  BY DEF TypeOK
<1>5. LockInv'
  <2>1. pc[p] \in PoolSection /\ pc'[p] \in PoolSection
    BY <1>2 DEF PoolSection, QueueSection
  <2> QED BY <1>2, <1>3, <2>1, KeepLocks, SectionsApart
<1> DEFINE e == pms_item[p]
<1>6. /\ freeSeq # << >> /\ e = freeSeq[1] /\ e = g_pms_quenes
      /\ e \in Items /\ e \in Range(freeSeq) /\ where[e] = Pool
  <2>1. e = g_pms_quenes /\ e # Null /\ e = HeadOf(freeSeq) /\ freeSeq \in Seq(Items)
    BY <1>2 DEF ItemInv, KnowsItem, FreeListInv, TypeOK
  <2>2. freeSeq # << >> /\ e = freeSeq[1]
    BY <2>1 DEF HeadOf
  <2>3. e \in Items /\ e \in Range(freeSeq)
    BY <2>1, <2>2, EndsOfList
  <2> QED BY <2>1, <2>2, <2>3 DEF OnePlace, IsAtOnePlace
<1>7. /\ freeSeq' \in Seq(Items)
      /\ Linked(freeSeq', pnext) /\ Ended(freeSeq', pnext) /\ NoRepeat(freeSeq')
      /\ HeadOf(freeSeq') = pnext[e]
      /\ \A x : x \in Range(freeSeq') <=> x \in Range(freeSeq) /\ x # e
  BY <1>6, TailOfList DEF FreeListInv, TypeOK
<1>8. TypeOK'
  <2>1. Len(freeSeq') <= NumItems
    BY <1>7, ListIsBounded
  <2> QED BY <1>2, <1>6, <1>7, <2>1 DEF TypeOK
<1>9. FreeListInv'
  BY <1>7 DEF FreeListInv
<1>10. QueueListInv'
  <2>1. \A q \in Queues : Pushing(q)' = Pushing(q) /\ Popping(q) \subseteq Popping(q)'
    BY <1>2 DEF Pushing, Popping
  <2> QED BY <2>1, QueueFrame DEF QueueListInv
<1>11. OnePlace'
  <2> SUFFICES ASSUME NEW x \in Items PROVE IsAtOnePlace(x)'
    BY DEF OnePlace
  <2>1. \A r \in Threads : /\ r = p => Owns(r)' /\ ~Owns(r)
                           /\ r # p => (Owns(r)' <=> Owns(r))
    BY <1>2, <1>6 DEF Owns, Null, Items
  <2>2. where'[x] = IF x = e THEN p ELSE where[x]
    BY <1>6 DEF TypeOK
  <2>3. CASE x = e
    BY <1>6, <1>7, <2>1, <2>2, <2>3 DEF OnePlace, IsAtOnePlace
  <2>4. CASE x # e
    BY <1>6, <1>7, <2>1, <2>2, <2>4 DEF OnePlace, IsAtOnePlace
  <2> QED BY <2>3, <2>4
<1>12. ItemInv'
  <2> SUFFICES ASSUME NEW r \in Threads PROVE KnowsItem(r)'
    BY DEF ItemInv
  <2>1. CASE r = p
    BY <1>2, <1>6, <2>1 DEF KnowsItem
  <2>2. CASE r # p
    <3>1. pc[r] \notin PoolSection
      BY <1>2, <2>2, OneInSection DEF PoolSection, TypeOK
    <3> QED BY <1>2, <1>3, <2>2, <3>1 DEF ItemInv, KnowsItem, PoolSection
  <2> QED BY <2>1, <2>2
<1> QED BY <1>5, <1>8, <1>9, <1>10, <1>11, <1>12

LEMMA AllocUnlockInv ==
  ASSUME IInv, NEW p \in Threads, AllocUnlock(p) PROVE IInv'
<1> USE MsQueueAssumption DEF IInv, AllocUnlock, lists, locks, hist
<1>2. /\ pc' \in [Threads -> Labels]
      /\ pc[p] = "alloc_unlock" /\ pc'[p] = "idle"
      /\ \A r \in Threads \ {p} : pc'[r] = pc[r]
  BY GotoStep DEF TypeOK, Labels, PoolSection, QueueSection
<1>3. \A r \in Threads \ {p} : arg'[r] = arg[r] /\ pms_item'[r] = pms_item[r]
  BY DEF TypeOK
<1>4. TypeOK'
  BY <1>2 DEF TypeOK, UnlockPool
<1>5. LockInv'
  <2>1. pc[p] \in PoolSection /\ pc'[p] \notin PoolSection \cup QueueSection
    BY <1>2 DEF PoolSection, QueueSection
  <2> QED BY <1>2, <1>3, <2>1, PoolUnlocked, SectionsApart
<1>6. FreeListInv' /\ QueueListInv' /\ OnePlace'
  <2>1. /\ Owns(p)' <=> Owns(p)
        /\ Owns(p) => pms_item'[p] = pms_item[p]
    BY <1>2 DEF Owns, ItemInv, KnowsItem, TypeOK, Goto
  <2> QED BY <1>2, <1>3, <2>1, QuietStep
<1>7. ItemInv'
  <2> SUFFICES ASSUME NEW r \in Threads PROVE KnowsItem(r)'
    BY DEF ItemInv
  <2>1. CASE r = p
    BY <1>2, <2>1 DEF ItemInv, KnowsItem, TypeOK, Goto
  <2>2. CASE r # p
    BY <1>2, <1>3, <2>2 DEF ItemInv, KnowsItem
  <2> QED BY <2>1, <2>2
<1> QED BY <1>4, <1>5, <1>6, <1>7

LEMMA FreeLockInv ==
  ASSUME IInv, NEW p \in Threads, FreeLock(p) PROVE IInv'
<1> USE MsQueueAssumption DEF IInv, FreeLock, lists, locks, hist
<1>2. /\ pc' \in [Threads -> Labels]
      /\ pc[p] = "idle" /\ pc'[p] = "free_link"
      /\ \A r \in Threads \ {p} : pc'[r] = pc[r]
  BY GotoStep DEF TypeOK, Labels, PoolSection, QueueSection
<1>3. \A r \in Threads \ {p} : arg'[r] = arg[r] /\ pms_item'[r] = pms_item[r]
  BY DEF TypeOK
<1>4. TypeOK'
  BY <1>2 DEF TypeOK, LockPool
<1>5. LockInv'
  <2>1. pc[p] \notin PoolSection \cup QueueSection /\ pc'[p] \in PoolSection
    BY <1>2 DEF PoolSection, QueueSection
  <2> QED BY <1>2, <1>3, <2>1, PoolLocked, SectionsApart
<1>6. FreeListInv' /\ QueueListInv' /\ OnePlace'
  <2>1. /\ Owns(p)' <=> Owns(p)
        /\ Owns(p) => pms_item'[p] = pms_item[p]
    BY <1>2 DEF Owns, ItemInv, KnowsItem, TypeOK, Goto
  <2> QED BY <1>2, <1>3, <2>1, QuietStep
<1>7. ItemInv'
  <2> SUFFICES ASSUME NEW r \in Threads PROVE KnowsItem(r)'
    BY DEF ItemInv
  <2>1. CASE r = p
    BY <1>2, <2>1 DEF ItemInv, KnowsItem, TypeOK, Goto
  <2>2. CASE r # p
    BY <1>2, <1>3, <2>2 DEF ItemInv, KnowsItem
  <2> QED BY <2>1, <2>2
<1> QED BY <1>4, <1>5, <1>6, <1>7

LEMMA FreeLinkInv ==
  ASSUME IInv, NEW p \in Threads, FreeLink(p) PROVE IInv'
<1> USE MsQueueAssumption DEF IInv, FreeLink, lists, locks, hist
<1>2. /\ pc' \in [Threads -> Labels]
      /\ pc[p] = "free_link" /\ pc'[p] = "free_head"
      /\ \A r \in Threads \ {p} : pc'[r] = pc[r]
  BY GotoStep DEF TypeOK, Labels, PoolSection, QueueSection
<1>3. \A r \in Threads \ {p} : arg'[r] = arg[r] /\ pms_item'[r] = pms_item[r]
  BY DEF TypeOK
<1>5. LockInv'
  <2>1. pc[p] \in PoolSection /\ pc'[p] \in PoolSection
    BY <1>2 DEF PoolSection, QueueSection
  <2> QED BY <1>2, <1>3, <2>1, KeepLocks, SectionsApart
<1> DEFINE e == pms_item[p]
<1>6. /\ Owns(p) /\ e \in Items
      /\ e \notin Range(freeSeq) /\ \A q \in Queues : e \notin Range(queueSeq[q])
      /\ \A r \in Threads \ {p} : Owns(r) => pms_item[r] # e
  <2>1. Owns(p)
    BY <1>2 DEF Owns, ItemInv, KnowsItem
  <2> QED BY <2>1, OwnedItem
<1>7. /\ pnext' \in [Items -> Items \cup {Null}]
      /\ pnext'[e] = g_pms_quenes
      /\ \A x \in Items \ {e} : pnext'[x] = pnext[x]
  BY <1>6 DEF TypeOK, Null
<1>8. TypeOK'
  BY <1>2, <1>7 DEF TypeOK
<1>9. FreeListInv'
  <2>1. \A x \in Range(freeSeq) : pnext'[x] = pnext[x]
    BY <1>6, <1>7, LenProperties, ElementOfSeq DEF TypeOK, Range
  <2> QED BY <2>1, LinkElsewhere DEF FreeListInv, TypeOK
<1>10. QueueListInv'
  <2>1. \A q \in Queues : Pushing(q)' = Pushing(q) /\ Popping(q) \subseteq Popping(q)'
    BY <1>2, <1>3 DEF Pushing, Popping
  <2>2. \A q \in Queues : \A x \in Range(queueSeq[q]) : pnext'[x] = pnext[x]
    BY <1>6, <1>7, LenProperties, ElementOfSeq DEF TypeOK, Range
  <2> QED BY <2>1, <2>2, QueueFrame DEF QueueListInv
<1>11. OnePlace'
  <2>1. \A r \in Threads : Owns(r)' <=> Owns(r)
    BY <1>2, <1>6 DEF Owns
  <2> QED BY <2>1, PlaceFrame
<1>12. ItemInv'
  <2> SUFFICES ASSUME NEW r \in Threads PROVE KnowsItem(r)'
    BY DEF ItemInv
  <2>1. CASE r = p
    BY <1>2, <1>6, <1>7, <2>1 DEF KnowsItem, Owns
  <2>2. CASE r # p
    <3>1. pc[r] \in {"free_head", "push_lock", "push_link", "push_tail"}
            => pms_item[r] \in Items \ {e}
      BY <1>6, <2>2 DEF ItemInv, KnowsItem, Owns, TypeOK
    <3> QED BY <1>2, <1>3, <1>7, <2>2, <3>1 DEF ItemInv, KnowsItem
  <2> QED BY <2>1, <2>2
<1> QED BY <1>5, <1>8, <1>9, <1>10, <1>11, <1>12

LEMMA FreeHeadInv ==
  ASSUME IInv, NEW p \in Threads, FreeHead(p) PROVE IInv'
<1> USE MsQueueAssumption DEF IInv, FreeHead, lists, locks, hist
<1>2. /\ pc' \in [Threads -> Labels]
      /\ pc[p] = "free_head" /\ pc'[p] = "free_unlock"
      /\ \A r \in Threads \ {p} : pc'[r] = pc[r]
  BY GotoStep DEF TypeOK, Labels, PoolSection, QueueSection
<1>3. \A r \in Threads \ {p} : arg'[r] = arg[r] /\ pms_item'[r] = pms_item[r]
  BY DEF TypeOK
<1>5. LockInv'
  <2>1. pc[p] \in PoolSection /\ pc'[p] \in PoolSection
    BY <1>2 DEF PoolSection, QueueSection
  <2> QED BY <1>2, <1>3, <2>1, KeepLocks, SectionsApart
<1> DEFINE e == pms_item[p]
<1>6. /\ Owns(p) /\ e \in Items /\ where[e] = p /\ pnext[e] = g_pms_quenes
      /\ e \notin Range(freeSeq) /\ \A q \in Queues : e \notin Range(queueSeq[q])
      /\ \A r \in Threads \ {p} : Owns(r) => pms_item[r] # e
  <2>1. Owns(p) /\ pnext[e] = g_pms_quenes
    BY <1>2 DEF Owns, ItemInv, KnowsItem
  <2> QED BY <2>1, OwnedItem
<1>7. /\ freeSeq' \in Seq(Items)
      /\ Linked(freeSeq', pnext) /\ Ended(freeSeq', pnext) /\ NoRepeat(freeSeq')
      /\ HeadOf(freeSeq') = e
      /\ \A x : x \in Range(freeSeq') <=> x \in Range(freeSeq) \/ x = e
  <2>1. /\ freeSeq \in Seq(Items) /\ pnext \in [Items -> Items \cup {Null}]
        /\ Linked(freeSeq, pnext) /\ Ended(freeSeq, pnext) /\ NoRepeat(freeSeq)
        /\ pnext[e] = HeadOf(freeSeq)
    BY <1>6 DEF FreeListInv, TypeOK
  <2>2. freeSeq' = <<e>> \o freeSeq
    OBVIOUS
  <2> QED BY <1>6, <2>1, <2>2, ConsOfList
<1>8. TypeOK'
  <2>1. Len(freeSeq') <= NumItems
    BY <1>7, ListIsBounded
  <2> QED BY <1>2, <1>6, <1>7, <2>1 DEF TypeOK
<1>9. FreeListInv'
  BY <1>7 DEF FreeListInv
<1>10. QueueListInv'
  <2>1. \A q \in Queues : Pushing(q)' = Pushing(q) /\ Popping(q) \subseteq Popping(q)'
    BY <1>2 DEF Pushing, Popping
  <2> QED BY <2>1, QueueFrame DEF QueueListInv
<1>11. OnePlace'
  <2> SUFFICES ASSUME NEW x \in Items PROVE IsAtOnePlace(x)'
    BY DEF OnePlace
  <2>1. \A r \in Threads : /\ r = p => ~Owns(r)'
                           /\ r # p => (Owns(r)' <=> Owns(r))
    BY <1>2, <1>6 DEF Owns
  <2>2. where'[x] = IF x = e THEN Pool ELSE where[x]
    BY <1>6 DEF TypeOK
  <2>3. CASE x = e
    BY <1>6, <1>7, <2>1, <2>2, <2>3 DEF OnePlace, IsAtOnePlace
  <2>4. CASE x # e
    BY <1>6, <1>7, <2>1, <2>2, <2>4 DEF OnePlace, IsAtOnePlace
  <2> QED BY <2>3, <2>4
<1>12. ItemInv'
  <2> SUFFICES ASSUME NEW r \in Threads PROVE KnowsItem(r)'
    BY DEF ItemInv
  <2>1. CASE r = p
    BY <1>2, <1>6, <2>1 DEF KnowsItem, Owns
  <2>2. CASE r # p
    <3>1. pc[r] \notin PoolSection
      BY <1>2, <2>2, OneInSection DEF PoolSection, TypeOK
    <3> QED BY <1>2, <1>3, <2>2, <3>1 DEF ItemInv, KnowsItem, PoolSection
  <2> QED BY <2>1, <2>2
<1> QED BY <1>5, <1>8, <1>9, <1>10, <1>11, <1>12

LEMMA FreeUnlockInv ==
  ASSUME IInv, NEW p \in Threads, FreeUnlock(p) PROVE IInv'
<1> USE MsQueueAssumption DEF IInv, FreeUnlock, lists, locks, hist
<1>2. /\ pc' \in [Threads -> Labels]
      /\ pc[p] = "free_unlock" /\ pc'[p] = "idle"
      /\ \A r \in Threads \ {p} : pc'[r] = pc[r]
  BY GotoStep DEF TypeOK, Labels, PoolSection, QueueSection
<1>3. \A r \in Threads \ {p} : arg'[r] = arg[r] /\ pms_item'[r] = pms_item[r]
  BY DEF TypeOK
<1>4. TypeOK'
  BY <1>2 DEF TypeOK, UnlockPool
<1>5. LockInv'
  <2>1. pc[p] \in PoolSection /\ pc'[p] \notin PoolSection \cup QueueSection
    BY <1>2 DEF PoolSection, QueueSection
  <2> QED BY <1>2, <1>3, <2>1, PoolUnlocked, SectionsApart
<1>6. FreeListInv' /\ QueueListInv' /\ OnePlace'
  <2>1. /\ Owns(p)' <=> Owns(p)
        /\ Owns(p) => pms_item'[p] = pms_item[p]
    BY <1>2 DEF Owns, ItemInv, KnowsItem, TypeOK, Goto
  <2> QED BY <1>2, <1>3, <2>1, QuietStep
<1>7. ItemInv'
  <2> SUFFICES ASSUME NEW r \in Threads PROVE KnowsItem(r)'
    BY DEF ItemInv
  <2>1. CASE r = p
    BY <1>2, <2>1 DEF ItemInv, KnowsItem, TypeOK, Goto
  <2>2. CASE r # p
    BY <1>2, <1>3, <2>2 DEF ItemInv, KnowsItem
  <2> QED BY <2>1, <2>2
<1> QED BY <1>4, <1>5, <1>6, <1>7

LEMMA PushClearInv ==
  ASSUME IInv, NEW p \in Threads, PushClear(p) PROVE IInv'
<1> USE MsQueueAssumption DEF IInv, PushClear, lists, locks, hist
<1>2. /\ pc' \in [Threads -> Labels]
      /\ pc[p] = "idle" /\ pc'[p] = "push_lock"
      /\ \A r \in Threads \ {p} : pc'[r] = pc[r]
  BY GotoStep DEF TypeOK, Labels, PoolSection, QueueSection
<1>3. \A r \in Threads \ {p} : arg'[r] = arg[r] /\ pms_item'[r] = pms_item[r]
  BY DEF TypeOK
<1>5. LockInv'
  <2>1. pc[p] \notin PoolSection \cup QueueSection /\ pc'[p] \notin PoolSection \cup QueueSection
    BY <1>2 DEF PoolSection, QueueSection
  <2> QED BY <1>2, <1>3, <2>1, KeepLocks, SectionsApart
<1> DEFINE e == pms_item[p]
<1>6. /\ Owns(p) /\ e \in Items
      /\ e \notin Range(freeSeq) /\ \A q \in Queues : e \notin Range(queueSeq[q])
      /\ \A r \in Threads \ {p} : Owns(r) => pms_item[r] # e
  <2>1. Owns(p)
    BY <1>2 DEF Owns
  <2> QED BY <2>1, OwnedItem
<1>7. /\ pnext' \in [Items -> Items \cup {Null}]
      /\ pnext'[e] = Null
      /\ \A x \in Items \ {e} : pnext'[x] = pnext[x]
  BY <1>6 DEF TypeOK, Null
<1>8. TypeOK'
  <2>1. arg' \in [Threads -> Queues]
    BY DEF TypeOK
  <2> QED BY <1>2, <1>7, <2>1 DEF TypeOK
<1>9. FreeListInv'
  <2>1. \A x \in Range(freeSeq) : pnext'[x] = pnext[x]
    BY <1>6, <1>7, LenProperties, ElementOfSeq DEF TypeOK, Range
  <2> QED BY <2>1, LinkElsewhere DEF FreeListInv, TypeOK
<1>10. QueueListInv'
  <2>1. \A q \in Queues : Pushing(q)' = Pushing(q) /\ Popping(q) \subseteq Popping(q)'
    BY <1>2, <1>3 DEF Pushing, Popping
  <2>2. \A q \in Queues : \A x \in Range(queueSeq[q]) : pnext'[x] = pnext[x]
    BY <1>6, <1>7, LenProperties, ElementOfSeq DEF TypeOK, Range
  <2> QED BY <2>1, <2>2, QueueFrame DEF QueueListInv
<1>11. OnePlace'
  <2>1. \A r \in Threads : Owns(r)' <=> Owns(r)
    BY <1>2, <1>6 DEF Owns
  <2> QED BY <2>1, PlaceFrame
<1>12. ItemInv'
  <2> SUFFICES ASSUME NEW r \in Threads PROVE KnowsItem(r)'
    BY DEF ItemInv
  <2>1. CASE r = p
    BY <1>2, <1>6, <1>7, <2>1 DEF KnowsItem, Owns
  <2>2. CASE r # p
    <3>1. pc[r] \in {"free_head", "push_lock", "push_link", "push_tail"}
            => pms_item[r] \in Items \ {e}
      BY <1>6, <2>2 DEF ItemInv, KnowsItem, Owns, TypeOK
    <3> QED BY <1>2, <1>3, <1>7, <2>2, <3>1 DEF ItemInv, KnowsItem
  <2> QED BY <2>1, <2>2
<1> QED BY <1>5, <1>8, <1>9, <1>10, <1>11, <1>12

LEMMA PushLockInv ==
  ASSUME IInv, NEW p \in Threads, PushLock(p) PROVE IInv'
<1> USE MsQueueAssumption DEF IInv, PushLock, lists, locks, hist
<1>2. /\ pc' \in [Threads -> Labels]
      /\ pc[p] = "push_lock" /\ pc'[p] = "push_link"
      /\ \A r \in Threads \ {p} : pc'[r] = pc[r]
  BY GotoStep DEF TypeOK, Labels, PoolSection, QueueSection
<1>3. \A r \in Threads \ {p} : arg'[r] = arg[r] /\ pms_item'[r] = pms_item[r]
  BY DEF TypeOK
<1>4. TypeOK'
  BY <1>2 DEF TypeOK, LockQueue
<1>5. LockInv'
  <2>1. pc[p] \notin PoolSection \cup QueueSection /\ pc'[p] \in QueueSection
    BY <1>2 DEF PoolSection, QueueSection
  <2> QED BY <1>2, <1>3, <2>1, QueueLocked, SectionsApart
<1>6. FreeListInv' /\ QueueListInv' /\ OnePlace'
  <2>1. /\ Owns(p)' <=> Owns(p)
        /\ Owns(p) => pms_item'[p] = pms_item[p]
    BY <1>2 DEF Owns, ItemInv, KnowsItem, TypeOK, Goto
  <2> QED BY <1>2, <1>3, <2>1, QuietStep
<1>7. ItemInv'
  <2> SUFFICES ASSUME NEW r \in Threads PROVE KnowsItem(r)'
    BY DEF ItemInv
  <2>1. CASE r = p
    BY <1>2, <2>1 DEF ItemInv, KnowsItem, TypeOK, Goto
  <2>2. CASE r # p
    BY <1>2, <1>3, <2>2 DEF ItemInv, KnowsItem
  <2> QED BY <2>1, <2>2
<1> QED BY <1>4, <1>5, <1>6, <1>7

LEMMA PushLinkInv ==
  ASSUME IInv, NEW p \in Threads, PushLink(p) PROVE IInv'
<1> USE MsQueueAssumption DEF IInv, PushLink, lists, locks, hist
<1>2. /\ pc' \in [Threads -> Labels]
      /\ pc[p] = "push_link" /\ pc'[p] = "push_tail"
      /\ \A r \in Threads \ {p} : pc'[r] = pc[r]
  BY GotoStep DEF TypeOK, Labels, PoolSection, QueueSection
<1>3. \A r \in Threads \ {p} : arg'[r] = arg[r] /\ pms_item'[r] = pms_item[r]
  BY DEF TypeOK
<1>5. LockInv'
  <2>1. pc[p] \in QueueSection /\ pc'[p] \in QueueSection
    BY <1>2 DEF PoolSection, QueueSection
  <2> QED BY <1>2, <1>3, <2>1, KeepLocks, SectionsApart
<1> DEFINE q == arg[p]
           e == pms_item[p]
           s == queueSeq[q]
<1>6. /\ q \in Queues /\ s \in Seq(Items) /\ pnext[e] = Null
      /\ Owns(p) /\ e \in Items
      /\ e \notin Range(freeSeq) /\ \A q2 \in Queues : e \notin Range(queueSeq[q2])
      /\ \A r \in Threads \ {p} : Owns(r) => pms_item[r] # e
  <2>1. Owns(p) /\ pnext[e] = Null
    BY <1>2 DEF Owns, ItemInv, KnowsItem
  <2>2. q \in Queues /\ s \in Seq(Items)
    BY DEF TypeOK
  <2> QED BY <2>1, <2>2, OwnedItem
<1>7. \A r \in Threads : pc[r] \in QueueSection /\ arg[r] = q => r = p
  <2>1. pc[p] \in QueueSection
    BY <1>2 DEF QueueSection
  <2> QED BY <1>6, <2>1, OneInSection
<1>8. Pushing(q) = {} /\ Popping(q) = {} /\ Pushing(q)' = {p} /\ Popping(q)' = {}
  BY <1>2, <1>3, <1>6, <1>7 DEF Pushing, Popping, QueueSection
<1>9. \A q2 \in Queues \ {q} : Pushing(q2)' = Pushing(q2) /\ Popping(q2)' = Popping(q2)
  BY <1>2, <1>3 DEF Pushing, Popping
<1>10. /\ Linked(s, pnext) /\ NoRepeat(s) /\ Ended(s, pnext)
       /\ ptail[q] = LastOf(s) /\ phead[q] = HeadOf(s)
  BY <1>6, <1>8 DEF QueueListInv, IsQueue
<1>11. CASE ptail[q] = Null
  <2>1. s = << >>
    BY <1>6, <1>10, <1>11, EndsOfList
  <2>2. /\ UNCHANGED <<g_pms_quenes, ptail, pnext, queueSeq, freeSeq, where>>
        /\ phead' \in [Queues -> Items \cup {Null}]
        /\ \A q2 \in Queues : phead'[q2] = IF q2 = q THEN e ELSE phead[q2]
    BY <1>6, <1>11 DEF TypeOK
  <2>3. TypeOK'
    BY <1>2, <2>2 DEF TypeOK
  <2>4. FreeListInv'
    BY <2>2 DEF FreeListInv
  <2>5. QueueListInv'
    <3>1. IsQueue(q)'
      BY <1>8, <1>10, <2>1, <2>2, <1>6 DEF IsQueue, LastOf
    <3>2. ASSUME NEW q2 \in Queues \ {q} PROVE IsQueue(q2)'
      BY <1>9, <2>2, QueueFrame DEF QueueListInv
    <3> QED BY <3>1, <3>2 DEF QueueListInv
  <2>6. OnePlace'
    <3>1. \A r \in Threads : Owns(r)' <=> Owns(r)
      BY <1>2, <1>6 DEF Owns
    <3> QED BY <3>1, PlaceFrame
  <2>7. ItemInv'
    <3> SUFFICES ASSUME NEW r \in Threads PROVE KnowsItem(r)'
      BY DEF ItemInv
    <3>1. CASE r = p
      BY <1>2, <1>6, <2>2, <3>1 DEF KnowsItem, Owns
    <3>2. CASE r # p
      <4>1. pc[r] = "pop_next" => phead'[arg[r]] = phead[arg[r]]
        BY <1>7, <2>2, <3>2 DEF QueueSection, TypeOK
      <4> QED BY <1>2, <1>3, <2>2, <3>2, <4>1 DEF ItemInv, KnowsItem
    <3> QED BY <3>1, <3>2
  <2> QED BY <1>5, <2>3, <2>4, <2>5, <2>6, <2>7
<1>12. CASE ptail[q] # Null
  <2> DEFINE last == s[Len(s)]
  <2>1. /\ s # << >> /\ ptail[q] = last
        /\ last \in Items /\ last \in Range(s) /\ where[last] = q /\ last # e
    <3>1. s # << >> /\ ptail[q] = last
      BY <1>10, <1>12 DEF LastOf
    <3>2. last \in Items /\ last \in Range(s)
      BY <1>6, <3>1, EndsOfList
    <3> QED BY <1>6, <3>1, <3>2 DEF OnePlace, IsAtOnePlace
  <2>2. /\ last \notin Range(freeSeq)
        /\ \A q2 \in Queues \ {q} : last \notin Range(queueSeq[q2])
        /\ \A r \in Threads : Owns(r) => pms_item[r] # last
    BY <1>6, <2>1 DEF OnePlace, IsAtOnePlace
  <2>3. /\ UNCHANGED <<g_pms_quenes, ptail, phead, queueSeq, freeSeq, where>>
        /\ pnext' \in [Items -> Items \cup {Null}]
        /\ pnext'[last] = e /\ \A x \in Items \ {last} : pnext'[x] = pnext[x]
    BY <1>6, <1>12, <2>1 DEF TypeOK
  <2>4. TypeOK'
    BY <1>2, <2>3 DEF TypeOK
  <2>5. FreeListInv'
    <3>1. \A x \in Range(freeSeq) : pnext'[x] = pnext[x]
      BY <2>2, <2>3, LenProperties, ElementOfSeq DEF TypeOK, Range
    <3>2. /\ Linked(freeSeq, pnext) => Linked(freeSeq, pnext')
          /\ Ended(freeSeq, pnext) => Ended(freeSeq, pnext')
      BY <3>1, LinkElsewhere DEF TypeOK
    <3> QED BY <2>3, <3>2 DEF FreeListInv
  <2>6. QueueListInv'
    <3>1. IsQueue(q)'
      <4>1. Len(s) \in Nat \ {0} /\ DOMAIN s = 1 .. Len(s)
        BY <1>6, <2>1, LenProperties, EmptySeq
      <4>2. \A i \in 1 .. Len(s) - 1 : s[i] \in Items \ {last}
        <5>1. ASSUME NEW i \in 1 .. Len(s) - 1 PROVE s[i] \in Items /\ s[i] # last
          <6>1. i \in 1 .. Len(s) /\ i # Len(s) /\ Len(s) \in 1 .. Len(s)
            BY <4>1
          <6> QED BY <1>6, <1>10, <6>1, ElementOfSeq DEF NoRepeat
        <5> QED BY <5>1
      <4>3. Linked(s, pnext')
        BY <1>10, <2>3, <4>2 DEF Linked
      <4>4. phead[q] = s[1]
        BY <1>10, <2>1 DEF HeadOf
      <4> QED BY <1>8, <1>10, <2>1, <2>3, <4>3, <4>4 DEF IsQueue
    <3>2. ASSUME NEW q2 \in Queues \ {q} PROVE IsQueue(q2)'
      <4>1. \A x \in Range(queueSeq[q2]) : pnext'[x] = pnext[x]
        BY <2>2, <2>3, LenProperties, ElementOfSeq DEF TypeOK, Range
      <4> QED BY <1>9, <2>3, <4>1, QueueFrame DEF QueueListInv
    <3> QED BY <3>1, <3>2 DEF QueueListInv
  <2>7. OnePlace'
    <3>1. \A r \in Threads : Owns(r)' <=> Owns(r)
      BY <1>2, <1>6 DEF Owns
    <3> QED BY <3>1, PlaceFrame
  <2>8. ItemInv'
    <3> SUFFICES ASSUME NEW r \in Threads PROVE KnowsItem(r)'
      BY DEF ItemInv
    <3>1. CASE r = p
      BY <1>2, <1>6, <2>1, <2>3, <3>1 DEF KnowsItem, Owns
    <3>2. CASE r # p
      <4>1. pc[r] \in {"free_head", "push_lock", "push_link", "push_tail"}
              => pms_item[r] \in Items \ {last}
        BY <2>2 DEF ItemInv, KnowsItem, Owns, TypeOK
      <4> QED BY <1>2, <1>3, <2>3, <3>2, <4>1 DEF ItemInv, KnowsItem
    <3> QED BY <3>1, <3>2
  <2> QED BY <1>5, <2>4, <2>5, <2>6, <2>7, <2>8
<1> QED BY <1>11, <1>12

LEMMA PushTailInv ==
  ASSUME IInv, NEW p \in Threads, PushTail(p) PROVE IInv'
<1> USE MsQueueAssumption DEF IInv, PushTail, lists, locks, hist
<1>2. /\ pc' \in [Threads -> Labels]
      /\ pc[p] = "push_tail" /\ pc'[p] = "push_unlock"
      /\ \A r \in Threads \ {p} : pc'[r] = pc[r]
  BY GotoStep DEF TypeOK, Labels, PoolSection, QueueSection
<1>3. \A r \in Threads \ {p} : arg'[r] = arg[r] /\ pms_item'[r] = pms_item[r]
  BY DEF TypeOK
<1>5. LockInv'
  <2>1. pc[p] \in QueueSection /\ pc'[p] \in QueueSection
    BY <1>2 DEF PoolSection, QueueSection
  <2> QED BY <1>2, <1>3, <2>1, KeepLocks, SectionsApart
<1> DEFINE q == arg[p]
           e == pms_item[p]
           s == queueSeq[q]
<1>6. /\ q \in Queues /\ s \in Seq(Items) /\ pnext[e] = Null
      /\ Owns(p) /\ e \in Items /\ where[e] = p
      /\ e \notin Range(freeSeq) /\ \A q2 \in Queues : e \notin Range(queueSeq[q2])
      /\ \A r \in Threads \ {p} : Owns(r) => pms_item[r] # e
  <2>1. Owns(p) /\ pnext[e] = Null
    BY <1>2 DEF Owns, ItemInv, KnowsItem
  <2>2. q \in Queues /\ s \in Seq(Items)
    BY DEF TypeOK
  <2> QED BY <2>1, <2>2, OwnedItem
<1>7. \A r \in Threads : pc[r] \in QueueSection /\ arg[r] = q => r = p
  <2>1. pc[p] \in QueueSection
    BY <1>2 DEF QueueSection
  <2> QED BY <1>6, <2>1, OneInSection
<1>8. p \in Pushing(q) /\ Pushing(q)' = {} /\ Popping(q)' = {}
  BY <1>2, <1>3, <1>6, <1>7 DEF Pushing, Popping, QueueSection
<1>9. \A q2 \in Queues \ {q} : Pushing(q2)' = Pushing(q2) /\ Popping(q2)' = Popping(q2)
  BY <1>2, <1>3 DEF Pushing, Popping
<1>10. /\ Linked(s, pnext) /\ NoRepeat(s)
       /\ phead[q] = (IF s = << >> THEN e ELSE s[1])
       /\ s # << >> => pnext[s[Len(s)]] = e
  BY <1>6, <1>8 DEF QueueListInv, IsQueue
<1>11. /\ queueSeq'[q] \in Seq(Items)
       /\ Linked(queueSeq'[q], pnext) /\ Ended(queueSeq'[q], pnext) /\ NoRepeat(queueSeq'[q])
       /\ HeadOf(queueSeq'[q]) = phead[q] /\ LastOf(queueSeq'[q]) = e
       /\ \A x : x \in Range(queueSeq'[q]) <=> x \in Range(s) \/ x = e
  <2>1. queueSeq'[q] = Append(s, e) /\ pnext \in [Items -> Items \cup {Null}]
    BY <1>6 DEF TypeOK
  <2>3. e \notin Range(s)
    BY <1>6
  <2> HIDE DEF s, e, q, PushTail
  <2>2. LET t == Append(s, e) IN
        /\ t \in Seq(Items)
        /\ Linked(t, pnext) /\ Ended(t, pnext) /\ NoRepeat(t)
        /\ HeadOf(t) = (IF s = << >> THEN e ELSE s[1])
        /\ LastOf(t) = e
        /\ \A x : x \in Range(t) <=> x \in Range(s) \/ x = e
    BY <1>6, <1>10, <2>1, <2>3, AppendToList
  <2> QED BY <1>10, <2>1, <2>2
<1>12. TypeOK'
  <2>1. queueSeq' \in [Queues -> Seq(Items)]
    BY <1>6, <1>11 DEF TypeOK
  <2>2. ptail' \in [Queues -> Items \cup {Null}] /\ where' \in [Items -> {Pool} \cup Queues \cup Threads]
    BY <1>6 DEF TypeOK
  <2> QED BY <1>2, <2>1, <2>2 DEF TypeOK
<1>13. FreeListInv'
  BY DEF FreeListInv
<1>14. QueueListInv'
  <2>1. IsQueue(q)'
    <3>1. ptail'[q] = e
      BY <1>6 DEF TypeOK
    <3> QED BY <1>8, <1>11, <3>1 DEF IsQueue
  <2>2. ASSUME NEW q2 \in Queues \ {q} PROVE IsQueue(q2)'
    <3>1. ptail'[q2] = ptail[q2] /\ queueSeq'[q2] = queueSeq[q2]
      BY DEF TypeOK
    <3> QED BY <1>9, <3>1, QueueFrame DEF QueueListInv
  <2> QED BY <2>1, <2>2 DEF QueueListInv
<1>15. OnePlace'
  <2> SUFFICES ASSUME NEW x \in Items PROVE IsAtOnePlace(x)'
    BY DEF OnePlace
  <2>1. \A r \in Threads : /\ r = p => ~Owns(r)'
                           /\ r # p => (Owns(r)' <=> Owns(r))
    BY <1>2, <1>6 DEF Owns
  <2>2. /\ where'[x] = IF x = e THEN q ELSE where[x]
        /\ \A q2 \in Queues \ {q} : queueSeq'[q2] = queueSeq[q2]
    BY <1>6 DEF TypeOK
  <2>3. CASE x = e
    BY SMTT(20), <1>6, <1>11, <2>1, <2>2, <2>3 DEF OnePlace, IsAtOnePlace
  <2>4. CASE x # e
    BY <1>6, <1>11, <2>1, <2>2, <2>4 DEF OnePlace, IsAtOnePlace
  <2> QED BY <2>3, <2>4
<1>16. ItemInv'
  <2> SUFFICES ASSUME NEW r \in Threads PROVE KnowsItem(r)'
    BY DEF ItemInv
  <2>1. CASE r = p
    BY <1>2, <1>6, <2>1 DEF KnowsItem, Owns
  <2>2. CASE r # p
    BY <1>2, <1>3, <2>2 DEF ItemInv, KnowsItem
  <2> QED BY <2>1, <2>2
<1> QED BY <1>5, <1>12, <1>13, <1>14, <1>15, <1>16

LEMMA PushUnlockInv ==
  ASSUME IInv, NEW p \in Threads, PushUnlock(p) PROVE IInv'
<1> USE MsQueueAssumption DEF IInv, PushUnlock, lists, locks, hist
<1>2. /\ pc' \in [Threads -> Labels]
      /\ pc[p] = "push_unlock" /\ pc'[p] = "idle"
      /\ \A r \in Threads \ {p} : pc'[r] = pc[r]
  BY GotoStep DEF TypeOK, Labels, PoolSection, QueueSection
<1>3. \A r \in Threads \ {p} : arg'[r] = arg[r] /\ pms_item'[r] = pms_item[r]
  BY DEF TypeOK
<1>4. TypeOK'
  BY <1>2 DEF TypeOK, UnlockQueue
<1>5. LockInv'
  <2>1. pc[p] \in QueueSection /\ pc'[p] \notin PoolSection \cup QueueSection
    BY <1>2 DEF PoolSection, QueueSection
  <2> QED BY <1>2, <1>3, <2>1, QueueUnlocked, SectionsApart
<1>6. FreeListInv' /\ QueueListInv' /\ OnePlace'
  <2>1. /\ Owns(p)' <=> Owns(p)
        /\ Owns(p) => pms_item'[p] = pms_item[p]
    BY <1>2 DEF Owns, ItemInv, KnowsItem, TypeOK, Goto
  <2> QED BY <1>2, <1>3, <2>1, QuietStep
<1>7. ItemInv'
  <2> SUFFICES ASSUME NEW r \in Threads PROVE KnowsItem(r)'
    BY DEF ItemInv
  <2>1. CASE r = p
    BY <1>2, <2>1 DEF ItemInv, KnowsItem, TypeOK, Goto
  <2>2. CASE r # p
    BY <1>2, <1>3, <2>2 DEF ItemInv, KnowsItem
  <2> QED BY <2>1, <2>2
<1> QED BY <1>4, <1>5, <1>6, <1>7

LEMMA PopCallInv ==
  ASSUME IInv, NEW p \in Threads, PopCall(p) PROVE IInv'
<1> USE MsQueueAssumption DEF IInv, PopCall, lists, locks, hist
<1>2. /\ pc' \in [Threads -> Labels]
      /\ pc[p] = "idle" /\ pc'[p] = "pop_lock"
      /\ \A r \in Threads \ {p} : pc'[r] = pc[r]
  BY GotoStep DEF TypeOK, Labels, PoolSection, QueueSection
<1>3. \A r \in Threads \ {p} : arg'[r] = arg[r] /\ pms_item'[r] = pms_item[r]
  BY DEF TypeOK
<1>4. TypeOK'
  <2>1. arg' \in [Threads -> Queues]
    BY DEF TypeOK
  <2> QED BY <1>2, <2>1 DEF TypeOK
<1>5. LockInv'
  <2>1. pc[p] \notin PoolSection \cup QueueSection /\ pc'[p] \notin PoolSection \cup QueueSection
    BY <1>2 DEF PoolSection, QueueSection
  <2> QED BY <1>2, <1>3, <2>1, KeepLocks, SectionsApart
<1>6. FreeListInv' /\ QueueListInv' /\ OnePlace'
  <2>1. /\ Owns(p)' <=> Owns(p)
        /\ Owns(p) => pms_item'[p] = pms_item[p]
    BY <1>2 DEF Owns, ItemInv, KnowsItem, TypeOK, Goto
  <2> QED BY <1>2, <1>3, <2>1, QuietStep
<1>7. ItemInv'
  <2> SUFFICES ASSUME NEW r \in Threads PROVE KnowsItem(r)'
    BY DEF ItemInv
  <2>1. CASE r = p
    BY <1>2, <2>1 DEF ItemInv, KnowsItem, TypeOK, Goto
  <2>2. CASE r # p
    BY <1>2, <1>3, <2>2 DEF ItemInv, KnowsItem
  <2> QED BY <2>1, <2>2
<1> QED BY <1>4, <1>5, <1>6, <1>7

LEMMA PopLockInv ==
  ASSUME IInv, NEW p \in Threads, PopLock(p) PROVE IInv'
<1> USE MsQueueAssumption DEF IInv, PopLock, lists, locks, hist
<1>2. /\ pc' \in [Threads -> Labels]
      /\ pc[p] = "pop_lock" /\ pc'[p] = "pop_read"
      /\ \A r \in Threads \ {p} : pc'[r] = pc[r]
  BY GotoStep DEF TypeOK, Labels, PoolSection, QueueSection
<1>3. \A r \in Threads \ {p} : arg'[r] = arg[r] /\ pms_item'[r] = pms_item[r]
  BY DEF TypeOK
<1>4. TypeOK'
  BY <1>2 DEF TypeOK, LockQueue
<1>5. LockInv'
  <2>1. pc[p] \notin PoolSection \cup QueueSection /\ pc'[p] \in QueueSection
    BY <1>2 DEF PoolSection, QueueSection
  <2> QED BY <1>2, <1>3, <2>1, QueueLocked, SectionsApart
<1>6. FreeListInv' /\ QueueListInv' /\ OnePlace'
  <2>1. /\ Owns(p)' <=> Owns(p)
        /\ Owns(p) => pms_item'[p] = pms_item[p]
    BY <1>2 DEF Owns, ItemInv, KnowsItem, TypeOK, Goto
  <2> QED BY <1>2, <1>3, <2>1, QuietStep
<1>7. ItemInv'
  <2> SUFFICES ASSUME NEW r \in Threads PROVE KnowsItem(r)'
    BY DEF ItemInv
  <2>1. CASE r = p
    BY <1>2, <2>1 DEF ItemInv, KnowsItem, TypeOK, Goto
  <2>2. CASE r # p
    BY <1>2, <1>3, <2>2 DEF ItemInv, KnowsItem
  <2> QED BY <2>1, <2>2
<1> QED BY <1>4, <1>5, <1>6, <1>7

LEMMA PopReadInv ==
  ASSUME IInv, NEW p \in Threads, PopRead(p) PROVE IInv'
<1> USE MsQueueAssumption DEF IInv, PopRead, lists, locks, hist
<1>1. PICK to \in {"pop_next", "pop_tail"} : Goto(p, "pop_read", to)
  OBVIOUS
<1>2. /\ pc' \in [Threads -> Labels]
      /\ pc[p] = "pop_read" /\ pc'[p] = to
      /\ \A r \in Threads \ {p} : pc'[r] = pc[r]
  BY <1>1, GotoStep DEF TypeOK, Labels, PoolSection, QueueSection
<1>3. \A r \in Threads \ {p} : arg'[r] = arg[r] /\ pms_item'[r] = pms_item[r]
  BY DEF TypeOK
<1>4. TypeOK'
  BY <1>2 DEF TypeOK
<1>5. LockInv'
  <2>1. pc[p] \in QueueSection /\ pc'[p] \in QueueSection
    BY <1>2 DEF PoolSection, QueueSection
  <2> QED BY <1>2, <1>3, <2>1, KeepLocks, SectionsApart
<1>6. FreeListInv' /\ QueueListInv' /\ OnePlace'
  <2>1. /\ Owns(p)' <=> Owns(p)
        /\ Owns(p) => pms_item'[p] = pms_item[p]
    BY <1>2 DEF Owns, ItemInv, KnowsItem, TypeOK, Goto
  <2> QED BY <1>2, <1>3, <2>1, QuietStep
<1>7. ItemInv'
  <2> SUFFICES ASSUME NEW r \in Threads PROVE KnowsItem(r)'
    BY DEF ItemInv
  <2>1. CASE r = p
    BY <1>2, <2>1 DEF ItemInv, KnowsItem, TypeOK, Goto
  <2>2. CASE r # p
    BY <1>2, <1>3, <2>2 DEF ItemInv, KnowsItem
  <2> QED BY <2>1, <2>2
<1> QED BY <1>4, <1>5, <1>6, <1>7

LEMMA PopNextInv ==
  ASSUME IInv, NEW p \in Threads, PopNext(p) PROVE IInv'
<1> USE MsQueueAssumption DEF IInv, PopNext, lists, locks, hist
<1>2. /\ pc' \in [Threads -> Labels]
      /\ pc[p] = "pop_next" /\ pc'[p] = "pop_tail"
      /\ \A r \in Threads \ {p} : pc'[r] = pc[r]
  BY GotoStep DEF TypeOK, Labels, PoolSection, QueueSection
<1>3. \A r \in Threads \ {p} : arg'[r] = arg[r] /\ pms_item'[r] = pms_item[r]
  BY DEF TypeOK
<1>5. LockInv'
  <2>1. pc[p] \in QueueSection /\ pc'[p] \in QueueSection
    BY <1>2 DEF PoolSection, QueueSection
  <2> QED BY <1>2, <1>3, <2>1, KeepLocks, SectionsApart
<1> DEFINE q == arg[p]
           e == pms_item[p]
           s == queueSeq[q]
<1>6. /\ q \in Queues /\ s \in Seq(Items) /\ e # Null /\ e = phead[q]
  BY <1>2 DEF TypeOK, ItemInv, KnowsItem
<1>7. \A r \in Threads : pc[r] \in QueueSection /\ arg[r] = q => r = p
  <2>1. pc[p] \in QueueSection
    BY <1>2 DEF QueueSection
  <2> QED BY <1>6, <2>1, OneInSection
<1>8. Pushing(q) = {} /\ Popping(q) = {} /\ Pushing(q)' = {} /\ Popping(q)' = {p}
  BY <1>2, <1>3, <1>6, <1>7 DEF Pushing, Popping, QueueSection
<1>9. \A q2 \in Queues \ {q} : Pushing(q2)' = Pushing(q2) /\ Popping(q2)' = Popping(q2)
  BY <1>2, <1>3 DEF Pushing, Popping
<1>10. /\ Linked(s, pnext) /\ NoRepeat(s) /\ Ended(s, pnext)
       /\ ptail[q] = LastOf(s) /\ phead[q] = HeadOf(s)
  BY <1>6, <1>8 DEF QueueListInv, IsQueue
<1>11. /\ s # << >> /\ e = s[1] /\ e \in Items /\ e \in Range(s) /\ where[e] = q
  <2>1. s # << >> /\ e = s[1]
    BY <1>6, <1>10 DEF HeadOf
  <2>2. e \in Items /\ e \in Range(s)
    BY <1>6, <2>1, EndsOfList
  <2> QED BY <1>6, <2>1, <2>2 DEF OnePlace, IsAtOnePlace
<1>12. /\ queueSeq'[q] \in Seq(Items)
       /\ Linked(queueSeq'[q], pnext) /\ Ended(queueSeq'[q], pnext) /\ NoRepeat(queueSeq'[q])
       /\ HeadOf(queueSeq'[q]) = pnext[e]
       /\ queueSeq'[q] # << >> => LastOf(queueSeq'[q]) = LastOf(s)
       /\ \A x : x \in Range(queueSeq'[q]) <=> x \in Range(s) /\ x # e
  <2>1. queueSeq'[q] = Tail(s) /\ pnext \in [Items -> Items \cup {Null}]
    BY <1>6 DEF TypeOK
  <2> QED BY <1>6, <1>10, <1>11, <2>1, TailOfList
<1>13. TypeOK'
  <2>1. queueSeq' \in [Queues -> Seq(Items)]
    BY <1>6, <1>12 DEF TypeOK
  <2>2. phead' \in [Queues -> Items \cup {Null}] /\ where' \in [Items -> {Pool} \cup Queues \cup Threads]
    BY <1>6, <1>11 DEF TypeOK
  <2> QED BY <1>2, <2>1, <2>2 DEF TypeOK
<1>14. FreeListInv'
  BY DEF FreeListInv
<1>15. /\ phead'[q] = pnext[e]
       /\ \A q2 \in Queues \ {q} : phead'[q2] = phead[q2] /\ queueSeq'[q2] = queueSeq[q2]
  BY <1>6 DEF TypeOK
<1>16. QueueListInv'
  <2>1. IsQueue(q)'
    BY <1>8, <1>10, <1>12, <1>15 DEF IsQueue
  <2>2. ASSUME NEW q2 \in Queues \ {q} PROVE IsQueue(q2)'
    BY <1>9, <1>15, QueueFrame DEF QueueListInv
  <2> QED BY <2>1, <2>2 DEF QueueListInv
<1>17. OnePlace'
  <2> SUFFICES ASSUME NEW x \in Items PROVE IsAtOnePlace(x)'
    BY DEF OnePlace
  <2>1. \A r \in Threads : /\ r = p => Owns(r)' /\ ~Owns(r)
                           /\ r # p => (Owns(r)' <=> Owns(r))
    BY <1>2, <1>6 DEF Owns
  <2>2. where'[x] = IF x = e THEN p ELSE where[x]
    BY <1>11 DEF TypeOK
  <2>3. CASE x = e
    BY SMTT(20), <1>6, <1>11, <1>12, <1>15, <2>1, <2>2, <2>3 DEF OnePlace, IsAtOnePlace
  <2>4. CASE x # e
    BY <1>6, <1>12, <1>15, <2>1, <2>2, <2>4 DEF OnePlace, IsAtOnePlace
  <2> QED BY <2>3, <2>4
<1>18. ItemInv'
  <2> SUFFICES ASSUME NEW r \in Threads PROVE KnowsItem(r)'
    BY DEF ItemInv
  <2>1. CASE r = p
    BY <1>2, <2>1 DEF KnowsItem
  <2>2. CASE r # p
    <3>1. pc[r] = "pop_next" => phead'[arg[r]] = phead[arg[r]]
      BY <1>7, <1>15, <2>2 DEF QueueSection, TypeOK
    <3> QED BY <1>2, <1>3, <2>2, <3>1 DEF ItemInv, KnowsItem
  <2> QED BY <2>1, <2>2
<1> QED BY <1>5, <1>13, <1>14, <1>16, <1>17, <1>18

LEMMA PopTailInv ==
  ASSUME IInv, NEW p \in Threads, PopTail(p) PROVE IInv'
<1> USE MsQueueAssumption DEF IInv, PopTail, lists, locks, hist
<1>2. /\ pc' \in [Threads -> Labels]
      /\ pc[p] = "pop_tail" /\ pc'[p] = "pop_unlock"
      /\ \A r \in Threads \ {p} : pc'[r] = pc[r]
  BY GotoStep DEF TypeOK, Labels, PoolSection, QueueSection
<1>3. \A r \in Threads \ {p} : arg'[r] = arg[r] /\ pms_item'[r] = pms_item[r]
  BY DEF TypeOK
<1>5. LockInv'
  <2>1. pc[p] \in QueueSection /\ pc'[p] \in QueueSection
    BY <1>2 DEF PoolSection, QueueSection
  <2> QED BY <1>2, <1>3, <2>1, KeepLocks, SectionsApart
<1> DEFINE q == arg[p]
           s == queueSeq[q]
<1>6. q \in Queues /\ s \in Seq(Items)
  BY DEF TypeOK
<1>7. \A r \in Threads : pc[r] \in QueueSection /\ arg[r] = q => r = p
  <2>1. pc[p] \in QueueSection
    BY <1>2 DEF QueueSection
  <2> QED BY <1>6, <2>1, OneInSection
<1>8. Pushing(q) = {} /\ Pushing(q)' = {} /\ Popping(q)' = {}
  BY <1>2, <1>3, <1>6, <1>7 DEF Pushing, Popping, QueueSection
<1>9. \A q2 \in Queues \ {q} : Pushing(q2)' = Pushing(q2) /\ Popping(q2)' = Popping(q2)
  BY <1>2, <1>3 DEF Pushing, Popping
<1>10. /\ Linked(s, pnext) /\ NoRepeat(s) /\ Ended(s, pnext) /\ phead[q] = HeadOf(s)
       /\ s # << >> => ptail[q] = LastOf(s)
  BY <1>6, <1>8 DEF QueueListInv, IsQueue
<1>11. /\ ptail' \in [Queues -> Items \cup {Null}]
       /\ ptail'[q] = LastOf(s)
       /\ \A q2 \in Queues \ {q} : ptail'[q2] = ptail[q2]
  <2>1. s = << >> <=> phead[q] = Null
    BY <1>6, <1>10, EndsOfList
  <2> QED BY ZenonT(30), <1>6, <1>10, <2>1 DEF TypeOK, LastOf
<1>12. TypeOK'
  BY <1>2, <1>11 DEF TypeOK
<1>13. FreeListInv'
  BY DEF FreeListInv
<1>14. QueueListInv'
  <2>1. IsQueue(q)'
    BY <1>8, <1>10, <1>11 DEF IsQueue
  <2>2. ASSUME NEW q2 \in Queues \ {q} PROVE IsQueue(q2)'
    BY <1>9, <1>11, QueueFrame DEF QueueListInv
  <2> QED BY <2>1, <2>2 DEF QueueListInv
<1>15. OnePlace'
  <2>1. \A r \in Threads : Owns(r)' <=> Owns(r)
    BY <1>2 DEF Owns
  <2> QED BY <2>1, PlaceFrame
<1>16. ItemInv'
  <2> SUFFICES ASSUME NEW r \in Threads PROVE KnowsItem(r)'
    BY DEF ItemInv
  <2>1. CASE r = p
    BY <1>2, <2>1 DEF KnowsItem
  <2>2. CASE r # p
    BY <1>2, <1>3, <2>2 DEF ItemInv, KnowsItem
  <2> QED BY <2>1, <2>2
<1> QED BY <1>5, <1>12, <1>13, <1>14, <1>15, <1>16

LEMMA PopUnlockInv ==
  ASSUME IInv, NEW p \in Threads, PopUnlock(p) PROVE IInv'
<1> USE MsQueueAssumption DEF IInv, PopUnlock, lists, locks, hist
<1>2. /\ pc' \in [Threads -> Labels]
      /\ pc[p] = "pop_unlock" /\ pc'[p] = "idle"
      /\ \A r \in Threads \ {p} : pc'[r] = pc[r]
  BY GotoStep DEF TypeOK, Labels, PoolSection, QueueSection
<1>3. \A r \in Threads \ {p} : arg'[r] = arg[r] /\ pms_item'[r] = pms_item[r]
  BY DEF TypeOK
<1>4. TypeOK'
  BY <1>2 DEF TypeOK, UnlockQueue
<1>5. LockInv'
  <2>1. pc[p] \in QueueSection /\ pc'[p] \notin PoolSection \cup QueueSection
    BY <1>2 DEF PoolSection, QueueSection
  <2> QED BY <1>2, <1>3, <2>1, QueueUnlocked, SectionsApart
<1>6. FreeListInv' /\ QueueListInv' /\ OnePlace'
  <2>1. /\ Owns(p)' <=> Owns(p)
        /\ Owns(p) => pms_item'[p] = pms_item[p]
    BY <1>2 DEF Owns, ItemInv, KnowsItem, TypeOK, Goto
  <2> QED BY <1>2, <1>3, <2>1, QuietStep
<1>7. ItemInv'
  <2> SUFFICES ASSUME NEW r \in Threads PROVE KnowsItem(r)'
    BY DEF ItemInv
  <2>1. CASE r = p
    BY <1>2, <2>1 DEF ItemInv, KnowsItem, TypeOK, Goto
  <2>2. CASE r # p
    BY <1>2, <1>3, <2>2 DEF ItemInv, KnowsItem
  <2> QED BY <2>1, <2>2
<1> QED BY <1>4, <1>5, <1>6, <1>7

\* The identity on the items is the sequence that visits each once.
LEMMA IsASeqOfItems ==
  /\ [i \in Items |-> i] \in Seq(Items)
  /\ Len([i \in Items |-> i]) = NumItems
  /\ DOMAIN [i \in Items |-> i] = Items
  /\ \A j \in Items : [i \in Items |-> i][j] = j
  /\ Items = 1 .. NumItems
BY MsQueueAssumption, SeqDef DEF Items

---------------------------------------------------------------------------
(* The inductive invariant.                                                *)

LEMMA InitInv == Init => IInv
<1> SUFFICES ASSUME Init PROVE IInv
  OBVIOUS
<1> USE MsQueueAssumption DEF Init
<1>1. /\ freeSeq \in Seq(Items) /\ Len(freeSeq) = NumItems /\ DOMAIN freeSeq = Items
      /\ \A i \in Items : freeSeq[i] = i
      /\ Items = 1 .. NumItems
  BY IsASeqOfItems
<1>2. \A q \in Queues : queueSeq[q] = << >> /\ << >> \in Seq(Items) /\ Len(<< >>) = 0
  BY EmptySeq
<1>3. TypeOK
  <2>1. pnext \in [Items -> Items \cup {Null}]
    BY DEF Items, Null
  <2>2. queueSeq \in [Queues -> Seq(Items)]
    BY <1>2
  <2> QED BY <1>1, <2>1, <2>2 DEF TypeOK, Labels, Items, Null
<1>4. LockInv
  BY DEF LockInv, HoldsLocks, PoolSection, QueueSection
<1>5. FreeListInv
  <2>1. freeSeq # << >>
    BY <1>1, EmptySeq
  <2>2. HeadOf(freeSeq) = 1
    <3>1. 1 \in Items
      BY DEF Items
    <3>2. freeSeq[1] = 1
      BY <1>1, <3>1
    <3> QED BY <2>1, <3>2 DEF HeadOf
  <2>3. Linked(freeSeq, pnext) /\ Ended(freeSeq, pnext) /\ NoRepeat(freeSeq)
    BY <1>1 DEF Linked, Ended, NoRepeat
  <2> QED BY <2>2, <2>3 DEF FreeListInv
<1>6. QueueListInv
  <2> SUFFICES ASSUME NEW q \in Queues PROVE IsQueue(q)
    BY DEF QueueListInv
  <2>1. Linked(<< >>, pnext) /\ Ended(<< >>, pnext) /\ NoRepeat(<< >>)
    BY <1>2 DEF Linked, Ended, NoRepeat
  <2>2. Pushing(q) = {} /\ Popping(q) = {}
    BY DEF Pushing, Popping
  <2> QED BY <1>2, <2>1, <2>2 DEF IsQueue, HeadOf, LastOf
<1>7. OnePlace
  <2> SUFFICES ASSUME NEW x \in Items PROVE IsAtOnePlace(x)
    BY DEF OnePlace
  <2>1. x \in Range(freeSeq)
    BY <1>1 DEF Range
  <2>2. \A q \in Queues : x \notin Range(queueSeq[q])
    BY <1>2 DEF Range
  <2>3. \A p \in Threads : ~Owns(p)
    BY DEF Owns
  <2> QED BY <2>1, <2>2, <2>3 DEF IsAtOnePlace
<1>8. ItemInv
  BY DEF ItemInv, KnowsItem
<1> QED BY <1>3, <1>4, <1>5, <1>6, <1>7, <1>8 DEF IInv

LEMMA StutterInv == IInv /\ UNCHANGED vars => IInv'
BY DEF IInv, vars, lists, locks, hist, TypeOK, LockInv, HoldsLocks, FreeListInv,
       QueueListInv, IsQueue, Pushing, Popping, OnePlace, IsAtOnePlace, Owns,
       ItemInv, KnowsItem

LEMMA NextInv == IInv /\ [Next]_vars => IInv'
<1> SUFFICES ASSUME IInv, [Next]_vars PROVE IInv'
  OBVIOUS
<1>1. ASSUME NEW p \in Threads, Call(p) PROVE IInv'
  BY <1>1, AllocLockInv, FreeLockInv, PushClearInv, PopCallInv DEF Call
<1>2. ASSUME NEW p \in Threads, Step(p) PROVE IInv'
  BY <1>2, AllocReadInv, AllocNextInv, AllocUnlockInv, FreeLinkInv,
     FreeHeadInv, FreeUnlockInv, PushLockInv, PushLinkInv, PushTailInv,
     PushUnlockInv, PopLockInv, PopReadInv, PopNextInv, PopTailInv,
     PopUnlockInv
  DEF Step
<1> QED BY <1>1, <1>2, StutterInv DEF Next

(***************************************************************************)
(* In every run, with any number of items, queues and threads, the lists   *)
(* are well formed, the mutexes exclude, and every item is at one place.   *)
(***************************************************************************)
THEOREM Invariance == Spec => []IInv
BY InitInv, NextInv, PTL DEF Spec

\* No list grows beyond the items ms_thread_process_init made.
THEOREM TypeCorrect == Spec => []TypeOK
<1>1. IInv => TypeOK
  BY DEF IInv
<1> QED BY <1>1, Invariance, PTL

\* The sections of one list exclude each other.
THEOREM MutualExclusion == Spec => []LockInv
<1>1. IInv => LockInv
  BY DEF IInv
<1> QED BY <1>1, Invariance, PTL

\* The free list is acyclic, ends in NULL and is what alloc and free made it.
THEOREM FreeListCorrect == Spec => []FreeListInv
<1>1. IInv => FreeListInv
  BY DEF IInv
<1> QED BY <1>1, Invariance, PTL

\* phead, ptail and the links of a queue always describe its FIFO.
THEOREM QueueListCorrect == Spec => []QueueListInv
<1>1. IInv => QueueListInv
  BY DEF IInv
<1> QED BY <1>1, Invariance, PTL

\* No item is lost, shared by two lists, or owned twice.
THEOREM ItemsConserved == Spec => []OnePlace
<1>1. IInv => OnePlace
  BY DEF IInv
<1> QED BY <1>1, Invariance, PTL

\* What a thread has read of a list is still true when it writes.
THEOREM NothingStale == Spec => []ItemInv
<1>1. IInv => ItemInv
  BY DEF IInv
<1> QED BY <1>1, Invariance, PTL

---------------------------------------------------------------------------
(* The refinement of MsFifo.                                               *)

LEMMA RefineInit == Init => Fifo!AInit
<1> SUFFICES ASSUME Init PROVE Fifo!AInit
  OBVIOUS
<1>1. Hand = [p \in Threads |-> Null]
  BY DEF Init, Hand, Owns
<1> QED BY <1>1 DEF Init, Fifo!AInit, Items, Fifo!Items, Null, Fifo!Null

(***************************************************************************)
(* A step that moves no item between lists and hands is not seen in        *)
(* MsFifo.                                                                 *)
(***************************************************************************)
LEMMA SameHands ==
  ASSUME UNCHANGED hist,
         \A r \in Threads : Owns(r)' <=> Owns(r),
         \A r \in Threads : Owns(r) => pms_item'[r] = pms_item[r]
  PROVE  UNCHANGED Fifo!avars
BY DEF hist, Hand, Fifo!avars

LEMMA QuietRefines ==
  ASSUME IInv, NEW p \in Threads,
         \/ AllocLock(p) \/ AllocRead(p) \/ AllocUnlock(p)
         \/ FreeLock(p) \/ FreeLink(p) \/ FreeUnlock(p)
         \/ PushClear(p) \/ PushLock(p) \/ PushLink(p) \/ PushUnlock(p)
         \/ PopCall(p) \/ PopLock(p) \/ PopRead(p) \/ PopTail(p) \/ PopUnlock(p)
  PROVE  UNCHANGED Fifo!avars
<1> USE DEF IInv
<1>1. CASE AllocLock(p)
  <2>1. \A r \in Threads : /\ Owns(r)' <=> Owns(r)
                           /\ Owns(r) => pms_item'[r] = pms_item[r]
    BY <1>1 DEF AllocLock, Goto, Owns, TypeOK, ItemInv, KnowsItem
  <2> QED BY <1>1, <2>1, SameHands DEF AllocLock, hist
<1>2. CASE AllocRead(p)
  <2>1. \A r \in Threads : /\ Owns(r)' <=> Owns(r)
                           /\ Owns(r) => pms_item'[r] = pms_item[r]
    BY <1>2 DEF AllocRead, Goto, Owns, TypeOK, ItemInv, KnowsItem
  <2> QED BY <1>2, <2>1, SameHands DEF AllocRead, hist
<1>3. CASE AllocUnlock(p)
  <2>1. \A r \in Threads : /\ Owns(r)' <=> Owns(r)
                           /\ Owns(r) => pms_item'[r] = pms_item[r]
    BY <1>3 DEF AllocUnlock, Goto, Owns, TypeOK, ItemInv, KnowsItem
  <2> QED BY <1>3, <2>1, SameHands DEF AllocUnlock, hist
<1>4. CASE FreeLock(p)
  <2>1. \A r \in Threads : /\ Owns(r)' <=> Owns(r)
                           /\ Owns(r) => pms_item'[r] = pms_item[r]
    BY <1>4 DEF FreeLock, Goto, Owns, TypeOK, ItemInv, KnowsItem
  <2> QED BY <1>4, <2>1, SameHands DEF FreeLock, hist
<1>5. CASE FreeLink(p)
  <2>1. \A r \in Threads : /\ Owns(r)' <=> Owns(r)
                           /\ Owns(r) => pms_item'[r] = pms_item[r]
    BY <1>5 DEF FreeLink, Goto, Owns, TypeOK, ItemInv, KnowsItem
  <2> QED BY <1>5, <2>1, SameHands DEF FreeLink, hist
<1>6. CASE FreeUnlock(p)
  <2>1. \A r \in Threads : /\ Owns(r)' <=> Owns(r)
                           /\ Owns(r) => pms_item'[r] = pms_item[r]
    BY <1>6 DEF FreeUnlock, Goto, Owns, TypeOK, ItemInv, KnowsItem
  <2> QED BY <1>6, <2>1, SameHands DEF FreeUnlock, hist
<1>7. CASE PushClear(p)
  <2>1. \A r \in Threads : /\ Owns(r)' <=> Owns(r)
                           /\ Owns(r) => pms_item'[r] = pms_item[r]
    BY <1>7 DEF PushClear, Goto, Owns, TypeOK, ItemInv, KnowsItem
  <2> QED BY <1>7, <2>1, SameHands DEF PushClear, hist
<1>8. CASE PushLock(p)
  <2>1. \A r \in Threads : /\ Owns(r)' <=> Owns(r)
                           /\ Owns(r) => pms_item'[r] = pms_item[r]
    BY <1>8 DEF PushLock, Goto, Owns, TypeOK, ItemInv, KnowsItem
  <2> QED BY <1>8, <2>1, SameHands DEF PushLock, hist
<1>9. CASE PushLink(p)
  <2>1. \A r \in Threads : /\ Owns(r)' <=> Owns(r)
                           /\ Owns(r) => pms_item'[r] = pms_item[r]
    BY <1>9 DEF PushLink, Goto, Owns, TypeOK, ItemInv, KnowsItem
  <2> QED BY <1>9, <2>1, SameHands DEF PushLink, hist
<1>10. CASE PushUnlock(p)
  <2>1. \A r \in Threads : /\ Owns(r)' <=> Owns(r)
                           /\ Owns(r) => pms_item'[r] = pms_item[r]
    BY <1>10 DEF PushUnlock, Goto, Owns, TypeOK, ItemInv, KnowsItem
  <2> QED BY <1>10, <2>1, SameHands DEF PushUnlock, hist
<1>11. CASE PopCall(p)
  <2>1. \A r \in Threads : /\ Owns(r)' <=> Owns(r)
                           /\ Owns(r) => pms_item'[r] = pms_item[r]
    BY <1>11 DEF PopCall, Goto, Owns, TypeOK, ItemInv, KnowsItem
  <2> QED BY <1>11, <2>1, SameHands DEF PopCall, hist
<1>12. CASE PopLock(p)
  <2>1. \A r \in Threads : /\ Owns(r)' <=> Owns(r)
                           /\ Owns(r) => pms_item'[r] = pms_item[r]
    BY <1>12 DEF PopLock, Goto, Owns, TypeOK, ItemInv, KnowsItem
  <2> QED BY <1>12, <2>1, SameHands DEF PopLock, hist
<1>13. CASE PopRead(p)
  <2>1. \A r \in Threads : /\ Owns(r)' <=> Owns(r)
                           /\ Owns(r) => pms_item'[r] = pms_item[r]
    BY <1>13 DEF PopRead, Goto, Owns, TypeOK, ItemInv, KnowsItem
  <2> QED BY <1>13, <2>1, SameHands DEF PopRead, hist
<1>14. CASE PopTail(p)
  <2>1. \A r \in Threads : /\ Owns(r)' <=> Owns(r)
                           /\ Owns(r) => pms_item'[r] = pms_item[r]
    BY <1>14 DEF PopTail, Goto, Owns, TypeOK, ItemInv, KnowsItem
  <2> QED BY <1>14, <2>1, SameHands DEF PopTail, hist
<1>15. CASE PopUnlock(p)
  <2>1. \A r \in Threads : /\ Owns(r)' <=> Owns(r)
                           /\ Owns(r) => pms_item'[r] = pms_item[r]
    BY <1>15 DEF PopUnlock, Goto, Owns, TypeOK, ItemInv, KnowsItem
  <2> QED BY <1>15, <2>1, SameHands DEF PopUnlock, hist
<1> QED
  BY <1>1, <1>2, <1>3, <1>4, <1>5, <1>6, <1>7, <1>8, <1>9, <1>10, <1>11,
     <1>12, <1>13, <1>14, <1>15

LEMMA AllocNextRefines ==
  ASSUME IInv, NEW p \in Threads, AllocNext(p) PROVE Fifo!Alloc(p)
<1> USE DEF IInv
<1>1. pc[p] = "alloc_next" /\ pc'[p] = "alloc_unlock" /\ \A r \in Threads \ {p} : pc'[r] = pc[r]
  BY GotoStep DEF AllocNext, TypeOK, Labels, PoolSection, QueueSection
<1>2. ~Owns(p) /\ Owns(p)' /\ pms_item[p] # Null
      /\ \A r \in Threads \ {p} : Owns(r)' <=> Owns(r)
  BY <1>1 DEF AllocNext, Owns, ItemInv, KnowsItem
<1>3. freeSeq # << >> /\ pms_item[p] = Head(freeSeq)
  BY <1>1, <1>2 DEF ItemInv, KnowsItem, FreeListInv, HeadOf, TypeOK
<1>4. Hand[p] = Null /\ Hand' = [Hand EXCEPT ![p] = pms_item[p]]
  BY <1>2 DEF Hand, AllocNext
<1> QED BY <1>2, <1>3, <1>4 DEF AllocNext, Fifo!Alloc, Fifo!Null, Null

LEMMA FreeHeadRefines ==
  ASSUME IInv, NEW p \in Threads, FreeHead(p) PROVE Fifo!Free(p)
<1> USE DEF IInv
<1>1. pc[p] = "free_head" /\ pc'[p] = "free_unlock" /\ \A r \in Threads \ {p} : pc'[r] = pc[r]
  BY GotoStep DEF FreeHead, TypeOK, Labels, PoolSection, QueueSection
<1>2. Owns(p) /\ ~Owns(p)' /\ pms_item[p] # Null
      /\ \A r \in Threads \ {p} : Owns(r)' <=> Owns(r)
  BY <1>1 DEF FreeHead, Owns, ItemInv, KnowsItem
<1>3. Hand[p] = pms_item[p]
  BY <1>2 DEF Hand
<1>4. Hand[p] = pms_item[p] /\ Hand' = [Hand EXCEPT ![p] = Null]
  BY <1>2 DEF Hand, FreeHead
<1> QED BY <1>2, <1>3, <1>4 DEF FreeHead, Fifo!Free, Fifo!Null, Null

LEMMA PushTailRefines ==
  ASSUME IInv, NEW p \in Threads, PushTail(p) PROVE \E q \in Queues : Fifo!Push(p, q)
<1> USE DEF IInv
<1>1. pc[p] = "push_tail" /\ pc'[p] = "push_unlock" /\ \A r \in Threads \ {p} : pc'[r] = pc[r]
  BY GotoStep DEF PushTail, TypeOK, Labels, PoolSection, QueueSection
<1>2. Owns(p) /\ ~Owns(p)' /\ pms_item[p] # Null
      /\ \A r \in Threads \ {p} : Owns(r)' <=> Owns(r)
  BY <1>1 DEF PushTail, Owns, ItemInv, KnowsItem
<1>3. arg[p] \in Queues
  BY DEF TypeOK
<1>4. Hand[p] = pms_item[p] /\ Hand' = [Hand EXCEPT ![p] = Null]
  BY <1>2 DEF Hand, PushTail
<1> QED BY <1>2, <1>3, <1>4 DEF PushTail, Fifo!Push, Fifo!Null, Null

LEMMA PopNextRefines ==
  ASSUME IInv, NEW p \in Threads, PopNext(p) PROVE \E q \in Queues : Fifo!Pop(p, q)
<1> USE DEF IInv
<1>1. pc[p] = "pop_next" /\ pc'[p] = "pop_tail" /\ \A r \in Threads \ {p} : pc'[r] = pc[r]
  BY GotoStep DEF PopNext, TypeOK, Labels, PoolSection, QueueSection
<1>2. ~Owns(p) /\ Owns(p)' /\ pms_item[p] # Null
      /\ \A r \in Threads \ {p} : Owns(r)' <=> Owns(r)
  BY <1>1 DEF PopNext, Owns, ItemInv, KnowsItem
<1>3. arg[p] \in Queues /\ queueSeq[arg[p]] # << >> /\ pms_item[p] = Head(queueSeq[arg[p]])
  <2>1. arg[p] \in Queues /\ queueSeq[arg[p]] \in Seq(Items) /\ pms_item[p] = phead[arg[p]]
    BY <1>1 DEF TypeOK, ItemInv, KnowsItem
  <2>2. Pushing(arg[p]) = {}
    <3>1. \A r \in Threads : pc[r] = "push_tail" /\ arg[r] = arg[p] => r = p
      BY <1>1, <2>1, OneInSection DEF QueueSection
    <3> QED BY <1>1, <3>1 DEF Pushing
  <2>3. phead[arg[p]] = HeadOf(queueSeq[arg[p]])
    BY <2>1, <2>2 DEF QueueListInv, IsQueue
  <2> QED BY <1>2, <2>1, <2>3 DEF HeadOf
<1>4. Hand[p] = Null /\ Hand' = [Hand EXCEPT ![p] = pms_item[p]]
  BY <1>2 DEF Hand, PopNext
<1> QED BY <1>2, <1>3, <1>4 DEF PopNext, Fifo!Pop, Fifo!Null, Null

LEMMA RefineNext == IInv /\ [Next]_vars => [Fifo!ANext]_(Fifo!avars)
<1> SUFFICES ASSUME IInv, [Next]_vars PROVE [Fifo!ANext]_(Fifo!avars)
  OBVIOUS
<1>1. CASE UNCHANGED vars
  BY <1>1 DEF vars, hist, Hand, Owns, Fifo!avars
<1>2. ASSUME NEW p \in Threads, Call(p) \/ Step(p) PROVE [Fifo!ANext]_(Fifo!avars)
  <2>1. CASE AllocNext(p)
    BY <2>1, AllocNextRefines DEF Fifo!ANext
  <2>2. CASE FreeHead(p)
    BY <2>2, FreeHeadRefines DEF Fifo!ANext
  <2>3. CASE PushTail(p)
    BY <2>3, PushTailRefines DEF Fifo!ANext
  <2>4. CASE PopNext(p)
    BY <2>4, PopNextRefines DEF Fifo!ANext
  <2> QED BY <1>2, <2>1, <2>2, <2>3, <2>4, QuietRefines DEF Call, Step
<1> QED BY <1>1, <1>2 DEF Next

(***************************************************************************)
(* The statement-level pool and queues implement the abstract ones: every  *)
(* pop returns the oldest item of its queue, every alloc a free item.      *)
(***************************************************************************)
THEOREM Refinement == Spec => ImplementsFifo
<1>1. IInv /\ [Next]_vars => [Fifo!ANext]_(Fifo!avars)
  BY RefineNext
<1> QED BY <1>1, RefineInit, Invariance, PTL DEF Spec, ImplementsFifo, Fifo!ASpec
=============================================================================
