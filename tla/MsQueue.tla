------------------------------ MODULE MsQueue ------------------------------
(***************************************************************************)
(* The item pool and the thread queues of cocool/co_message.c, statement   *)
(* by statement: ms_item_alloc, ms_item_free, ms_quene_push, ms_quene_pop. *)
(*                                                                         *)
(* The pool (g_pms_quenes, guarded by g_msquene_lock) and every queue      *)
(* (phead, ptail, guarded by its own msquene_lock) are singly linked lists *)
(* threaded through the SAME field, pnext, of the items.  Every thread may *)
(* call every operation on an item it owns; each access to shared memory   *)
(* is a step of its own, so the steps of different threads interleave      *)
(* between any two of them.                                                *)
(***************************************************************************)
EXTENDS Naturals, Sequences, Functions

CONSTANTS NumItems,   \* MS_QUENS_NUM
          Queues,     \* the MS_QUENS objects, one per worker thread
          Threads,    \* the threads that call the four operations
          NoThread,   \* the owner of an unlocked mutex
          Pool        \* names the pool in the history variable where

ASSUME MsQueueAssumption ==
         /\ NumItems \in Nat \ {0}
         /\ NoThread \notin Threads
         /\ Queues \cap Threads = {}
         /\ Pool \notin Queues \cup Threads

Null  == 0
Items == 1 .. NumItems

VARIABLES
  g_pms_quenes,     \* head of the free list
  g_msquene_lock,   \* owner of the mutex of the free list
  phead, ptail,     \* [Queues -> Items or Null]
  msquene_lock,     \* [Queues -> owner of the queue's mutex]
  pnext,            \* [Items -> Items or Null], the link field of the items
  pc,               \* [Threads -> label of the next statement]
  pms_item,         \* [Threads -> the item the thread works on, or Null]
  arg,              \* [Threads -> the queue its call is about]
  (* History variables: the code does not have them, no guard reads them.  *)
  freeSeq,          \* the free list as a sequence
  queueSeq,         \* [Queues -> the queue as a sequence]
  where             \* [Items -> Pool, the queue or the thread that has it]

lists == <<g_pms_quenes, phead, ptail, pnext>>
locks == <<g_msquene_lock, msquene_lock>>
hist  == <<freeSeq, queueSeq, where>>
vars  == <<lists, locks, pc, pms_item, arg, hist>>

(***************************************************************************)
(* ms_thread_process_init links item i to item i+1, ends the list at the   *)
(* last one, and leaves every queue empty (the memset of g_pms_thread).    *)
(***************************************************************************)
Init == /\ g_pms_quenes   = 1
        /\ g_msquene_lock = NoThread
        /\ phead = [q \in Queues |-> Null]
        /\ ptail = [q \in Queues |-> Null]
        /\ msquene_lock = [q \in Queues |-> NoThread]
        /\ pnext = [i \in Items |-> IF i < NumItems THEN i + 1 ELSE Null]
        /\ pc = [p \in Threads |-> "idle"]
        /\ pms_item = [p \in Threads |-> Null]
        /\ arg \in [Threads -> Queues]
        /\ freeSeq  = [i \in Items |-> i]
        /\ queueSeq = [q \in Queues |-> << >>]
        /\ where = [i \in Items |-> Pool]

Goto(p, from, to) == /\ pc[p] = from
                     /\ pc' = [pc EXCEPT ![p] = to]

\* Faulty: the mutex does not keep anybody out.
LockPoolAnyway(p) == /\ g_msquene_lock' = p
                     /\ UNCHANGED msquene_lock

LockPool(p)   == /\ g_msquene_lock = NoThread
                 /\ g_msquene_lock' = p
                 /\ UNCHANGED msquene_lock
UnlockPool(p) == /\ g_msquene_lock' = NoThread
                 /\ UNCHANGED msquene_lock
LockQueue(p)   == /\ msquene_lock[arg[p]] = NoThread
                  /\ msquene_lock' = [msquene_lock EXCEPT ![arg[p]] = p]
                  /\ UNCHANGED g_msquene_lock
UnlockQueue(p) == /\ msquene_lock' = [msquene_lock EXCEPT ![arg[p]] = NoThread]
                  /\ UNCHANGED g_msquene_lock

---------------------------------------------------------------------------
(* ms_item_alloc                                                           *)

AllocLock(p) == /\ pms_item[p] = Null
                /\ Goto(p, "idle", "alloc_read")
                /\ LockPool(p)
                /\ UNCHANGED <<lists, pms_item, arg, hist>>

\* Faulty: an early return leaves the mutex locked.
AllocReadReturns(p) == /\ IF g_pms_quenes # Null
                            THEN /\ Goto(p, "alloc_read", "alloc_next")
                                 /\ pms_item' = [pms_item EXCEPT ![p] = g_pms_quenes]
                            ELSE /\ Goto(p, "alloc_read", "idle")
                                 /\ UNCHANGED pms_item
                       /\ UNCHANGED <<lists, locks, arg, hist>>

AllocRead(p) == /\ IF g_pms_quenes # Null
                     THEN /\ Goto(p, "alloc_read", "alloc_next")
                          /\ pms_item' = [pms_item EXCEPT ![p] = g_pms_quenes]
                     ELSE /\ Goto(p, "alloc_read", "alloc_unlock")
                          /\ UNCHANGED pms_item
                /\ UNCHANGED <<lists, locks, arg, hist>>

AllocNext(p) == /\ Goto(p, "alloc_next", "alloc_unlock")
                /\ g_pms_quenes' = pnext[pms_item[p]]
                /\ freeSeq' = Tail(freeSeq)
                /\ where' = [where EXCEPT ![pms_item[p]] = p]
                /\ UNCHANGED <<phead, ptail, pnext, locks, pms_item, arg, queueSeq>>

AllocUnlock(p) == /\ Goto(p, "alloc_unlock", "idle")
                  /\ UnlockPool(p)
                  /\ UNCHANGED <<lists, pms_item, arg, hist>>

---------------------------------------------------------------------------
(* ms_item_free; the caller gives the item up.                             *)

FreeLock(p) == /\ pms_item[p] # Null
               /\ Goto(p, "idle", "free_link")
               /\ LockPool(p)
               /\ UNCHANGED <<lists, pms_item, arg, hist>>

FreeLink(p) == /\ Goto(p, "free_link", "free_head")
               /\ pnext' = [pnext EXCEPT ![pms_item[p]] = g_pms_quenes]
               /\ UNCHANGED <<g_pms_quenes, phead, ptail, locks, pms_item, arg, hist>>

FreeHead(p) == /\ Goto(p, "free_head", "free_unlock")
               /\ g_pms_quenes' = pms_item[p]
               /\ freeSeq' = <<pms_item[p]>> \o freeSeq
               /\ where' = [where EXCEPT ![pms_item[p]] = Pool]
               /\ UNCHANGED <<phead, ptail, pnext, locks, pms_item, arg, queueSeq>>

FreeUnlock(p) == /\ Goto(p, "free_unlock", "idle")
                 /\ UnlockPool(p)
                 /\ pms_item' = [pms_item EXCEPT ![p] = Null]
                 /\ UNCHANGED <<lists, arg, hist>>

---------------------------------------------------------------------------
(* ms_quene_push; the link of the item is cleared before the lock is taken *)

PushClear(p) == /\ pms_item[p] # Null
                /\ Goto(p, "idle", "push_lock")
                /\ \E q \in Queues : arg' = [arg EXCEPT ![p] = q]
                /\ pnext' = [pnext EXCEPT ![pms_item[p]] = Null]
                /\ UNCHANGED <<g_pms_quenes, phead, ptail, locks, pms_item, hist>>

PushLock(p) == /\ Goto(p, "push_lock", "push_link")
               /\ LockQueue(p)
               /\ UNCHANGED <<lists, pms_item, arg, hist>>

PushLink(p) == /\ Goto(p, "push_link", "push_tail")
               /\ LET q == arg[p] IN
                    IF ptail[q] = Null
                      THEN /\ phead' = [phead EXCEPT ![q] = pms_item[p]]
                           /\ UNCHANGED pnext
                      ELSE /\ pnext' = [pnext EXCEPT ![ptail[q]] = pms_item[p]]
                           /\ UNCHANGED phead
               /\ UNCHANGED <<g_pms_quenes, ptail, locks, pms_item, arg, hist>>

PushTail(p) == /\ Goto(p, "push_tail", "push_unlock")
               /\ ptail' = [ptail EXCEPT ![arg[p]] = pms_item[p]]
               /\ queueSeq' = [queueSeq EXCEPT ![arg[p]] = Append(@, pms_item[p])]
               /\ where' = [where EXCEPT ![pms_item[p]] = arg[p]]
               /\ UNCHANGED <<g_pms_quenes, phead, pnext, locks, pms_item, arg, freeSeq>>

PushUnlock(p) == /\ Goto(p, "push_unlock", "idle")
                 /\ UnlockQueue(p)
                 /\ pms_item' = [pms_item EXCEPT ![p] = Null]
                 /\ UNCHANGED <<lists, arg, hist>>

---------------------------------------------------------------------------
(* ms_quene_pop                                                            *)

PopCall(p) == /\ pms_item[p] = Null
              /\ Goto(p, "idle", "pop_lock")
              /\ \E q \in Queues : arg' = [arg EXCEPT ![p] = q]
              /\ UNCHANGED <<lists, locks, pms_item, hist>>

PopLock(p) == /\ Goto(p, "pop_lock", "pop_read")
              /\ LockQueue(p)
              /\ UNCHANGED <<lists, pms_item, arg, hist>>

\* Faulty: the newest item is taken.
PopReadNewest(p) == /\ IF phead[arg[p]] # Null
                         THEN Goto(p, "pop_read", "pop_next")
                         ELSE Goto(p, "pop_read", "pop_tail")
                    /\ pms_item' = [pms_item EXCEPT ![p] = ptail[arg[p]]]
                    /\ UNCHANGED <<lists, locks, arg, hist>>

PopRead(p) == /\ IF phead[arg[p]] # Null
                   THEN Goto(p, "pop_read", "pop_next")
                   ELSE Goto(p, "pop_read", "pop_tail")
              /\ pms_item' = [pms_item EXCEPT ![p] = phead[arg[p]]]
              /\ UNCHANGED <<lists, locks, arg, hist>>

PopNext(p) == /\ Goto(p, "pop_next", "pop_tail")
              /\ phead' = [phead EXCEPT ![arg[p]] = pnext[pms_item[p]]]
              /\ queueSeq' = [queueSeq EXCEPT ![arg[p]] = Tail(@)]
              /\ where' = [where EXCEPT ![pms_item[p]] = p]
              /\ UNCHANGED <<g_pms_quenes, ptail, pnext, locks, pms_item, arg, freeSeq>>

PopTail(p) == /\ Goto(p, "pop_tail", "pop_unlock")
              /\ IF phead[arg[p]] = Null
                   THEN ptail' = [ptail EXCEPT ![arg[p]] = Null]
                   ELSE UNCHANGED ptail
              /\ UNCHANGED <<g_pms_quenes, phead, pnext, locks, pms_item, arg, hist>>

PopUnlock(p) == /\ Goto(p, "pop_unlock", "idle")
                /\ UnlockQueue(p)
                /\ UNCHANGED <<lists, pms_item, arg, hist>>

---------------------------------------------------------------------------
\* The statements that follow the call; only a mutex can hold one back.
Step(p) == \/ AllocRead(p) \/ AllocNext(p) \/ AllocUnlock(p)
           \/ FreeLink(p) \/ FreeHead(p) \/ FreeUnlock(p)
           \/ PushLock(p) \/ PushLink(p) \/ PushTail(p) \/ PushUnlock(p)
           \/ PopLock(p) \/ PopRead(p) \/ PopNext(p) \/ PopTail(p) \/ PopUnlock(p)

Call(p) == AllocLock(p) \/ FreeLock(p) \/ PushClear(p) \/ PopCall(p)

Next == \E p \in Threads : Call(p) \/ Step(p)

Spec == Init /\ [][Next]_vars

\* A running thread takes its next statement; a thread may never call again.
FairSpec == Spec /\ \A p \in Threads : WF_vars(Step(p))

---------------------------------------------------------------------------
(* Properties                                                              *)

PoolSection  == {"alloc_read", "alloc_next", "alloc_unlock",
                 "free_link", "free_head", "free_unlock"}
QueueSection == {"push_link", "push_tail", "push_unlock",
                 "pop_read", "pop_next", "pop_tail", "pop_unlock"}
Labels == PoolSection \cup QueueSection \cup {"idle", "push_lock", "pop_lock"}

(***************************************************************************)
(* The item in pms_item belongs to the thread: nothing else refers to it.  *)
(* Between reading the head of a list and moving the head the item is      *)
(* still in the list; after linking it in, it is in the list already.      *)
(***************************************************************************)
Owns(p) == /\ pms_item[p] # Null
           /\ pc[p] \notin {"alloc_next", "pop_next", "free_unlock", "push_unlock"}

(***************************************************************************)
(* Types; the lists never hold more items than ms_thread_process_init      *)
(* made, which a second ms_item_free of the same item would break.         *)
(***************************************************************************)
TypeOK == /\ g_pms_quenes \in Items \cup {Null}
          /\ g_msquene_lock \in Threads \cup {NoThread}
          /\ phead \in [Queues -> Items \cup {Null}]
          /\ ptail \in [Queues -> Items \cup {Null}]
          /\ msquene_lock \in [Queues -> Threads \cup {NoThread}]
          /\ pnext \in [Items -> Items \cup {Null}]
          /\ pc \in [Threads -> Labels]
          /\ pms_item \in [Threads -> Items \cup {Null}]
          /\ arg \in [Threads -> Queues]
          /\ freeSeq \in Seq(Items) /\ Len(freeSeq) <= NumItems
          /\ queueSeq \in [Queues -> Seq(Items)]
          /\ where \in [Items -> {Pool} \cup Queues \cup Threads]

(***************************************************************************)
(* The mutex of a list is held by exactly the thread inside the section.   *)
(***************************************************************************)
HoldsLocks(p) ==
  /\ g_msquene_lock = p <=> pc[p] \in PoolSection
  /\ \A q \in Queues :
       msquene_lock[q] = p <=> pc[p] \in QueueSection /\ arg[p] = q

LockInv == \A p \in Threads : HoldsLocks(p)

\* First, last and consecutive elements of a list given as a sequence.
HeadOf(s) == IF s = << >> THEN Null ELSE s[1]
LastOf(s) == IF s = << >> THEN Null ELSE s[Len(s)]
Linked(s, link) == \A i \in 1 .. Len(s) - 1 : link[s[i]] = s[i + 1]
Ended(s, link)  == s # << >> => link[s[Len(s)]] = Null
NoRepeat(s) == \A i, j \in 1 .. Len(s) : s[i] = s[j] => i = j

(***************************************************************************)
(* The free list is the sequence freeSeq at every step, even inside the    *)
(* sections: alloc and free change it in the one statement that moves the  *)
(* head.                                                                   *)
(***************************************************************************)
FreeListInv == /\ g_pms_quenes = HeadOf(freeSeq)
               /\ Linked(freeSeq, pnext) /\ Ended(freeSeq, pnext) /\ NoRepeat(freeSeq)

(***************************************************************************)
(* A queue is the sequence queueSeq[q] whenever its mutex is free; inside  *)
(* a push the new item is linked in before ptail follows, inside a pop     *)
(* ptail may still point to the item just taken (co_message.c:62-68,       *)
(* 80-90).                                                                 *)
(***************************************************************************)
Pushing(q) == {p \in Threads : pc[p] = "push_tail" /\ arg[p] = q}
Popping(q) == {p \in Threads : pc[p] = "pop_tail" /\ arg[p] = q}

IsQueue(q) ==
  LET s == queueSeq[q] IN
  /\ Linked(s, pnext) /\ NoRepeat(s)
  /\ Popping(q) = {} \/ s # << >> => ptail[q] = LastOf(s)
  /\ Pushing(q) = {} => phead[q] = HeadOf(s) /\ Ended(s, pnext)
  /\ \A p \in Pushing(q) :
       IF s = << >>
         THEN phead[q] = pms_item[p]
         ELSE phead[q] = s[1] /\ pnext[s[Len(s)]] = pms_item[p]

QueueListInv == \A q \in Queues : IsQueue(q)

(***************************************************************************)
(* Every item is at exactly one place, and that place knows it: no item is *)
(* lost, none is in two lists, none is in a list while a thread owns it,   *)
(* and no two threads own the same one.  The link field pnext is shared by *)
(* both kinds of list, so all of the above rests on this.                  *)
(***************************************************************************)
IsAtOnePlace(x) ==
  /\ where[x] = Pool <=> x \in Range(freeSeq)
  /\ \A q \in Queues : where[x] = q <=> x \in Range(queueSeq[q])
  /\ \A p \in Threads : where[x] = p <=> Owns(p) /\ pms_item[p] = x

OnePlace == \A x \in Items : IsAtOnePlace(x)

(***************************************************************************)
(* What a thread knows of its item between two statements: the head it     *)
(* read is still the head, the link it wrote is still there.  The link     *)
(* cleared before the lock (co_message.c:60) survives the wait for it.     *)
(***************************************************************************)
KnowsItem(p) ==
  /\ pc[p] \in {"alloc_read", "pop_lock", "pop_read"} => pms_item[p] = Null
  /\ pc[p] \in {"alloc_next", "pop_next", "free_link", "free_head", "free_unlock",
                "push_lock", "push_link", "push_tail", "push_unlock"}
       => pms_item[p] # Null
  /\ pc[p] = "alloc_next" => pms_item[p] = g_pms_quenes
  /\ pc[p] = "pop_next" => pms_item[p] = phead[arg[p]]
  /\ pc[p] = "free_head" => pnext[pms_item[p]] = g_pms_quenes
  /\ pc[p] \in {"push_lock", "push_link", "push_tail"} => pnext[pms_item[p]] = Null

ItemInv == \A p \in Threads : KnowsItem(p)

IInv == TypeOK /\ LockInv /\ FreeListInv /\ QueueListInv /\ OnePlace /\ ItemInv

Hand == [p \in Threads |-> IF Owns(p) THEN pms_item[p] ELSE Null]

Fifo == INSTANCE MsFifo WITH pool <- freeSeq, queue <- queueSeq, hand <- Hand

(***************************************************************************)
(* The linked lists implement the abstract pool and the abstract FIFOs:    *)
(* what ms_quene_pop returns is the oldest item pushed on that queue, what *)
(* ms_item_alloc returns is a free item, whatever the other threads do     *)
(* between two statements (co_message.c:29-94).                            *)
(***************************************************************************)
ImplementsFifo == Fifo!ASpec

(***************************************************************************)
(* No list stays locked: a section has no early return, so a thread that   *)
(* keeps running leaves it and unlocks (co_message.c:34-39, 48-51, 61-69,  *)
(* 79-91).                                                                 *)
(***************************************************************************)
SectionsEnd == /\ g_msquene_lock # NoThread ~> g_msquene_lock = NoThread
               /\ \A q \in Queues :
                    msquene_lock[q] # NoThread ~> msquene_lock[q] = NoThread
=============================================================================
