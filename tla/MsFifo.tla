------------------------------- MODULE MsFifo -------------------------------
(***************************************************************************)
(* What the item pool and the thread queues of cocool/co_message.c promise *)
(* to their users: a pool of MS_QUENS_ITEMs used as a stack, one FIFO per  *)
(* queue, and items that are handed from one to the other as a whole, in   *)
(* one step.  MsQueue.tla is the linked-list code that implements it.      *)
(***************************************************************************)
EXTENDS Naturals, Sequences

CONSTANTS NumItems,   \* MS_QUENS_NUM
          Queues,     \* the MS_QUENS objects, one per worker thread
          Threads     \* the threads that call the four operations

Null  == 0
Items == 1 .. NumItems

VARIABLES pool,    \* the free items, the next one to be allocated first
          queue,   \* [Queues -> Seq(Items)], the oldest item first
          hand     \* [Threads -> Items or Null], the item a thread owns

avars == <<pool, queue, hand>>

AInit == /\ pool  = [i \in Items |-> i]
         /\ queue = [q \in Queues |-> << >>]
         /\ hand  = [p \in Threads |-> Null]

(***************************************************************************)
(* ms_item_alloc takes the first item of the pool; a caller that finds the *)
(* pool empty gets NULL, a stuttering step here.                           *)
(***************************************************************************)
Alloc(p) == /\ hand[p] = Null
            /\ pool # << >>
            /\ hand' = [hand EXCEPT ![p] = Head(pool)]
            /\ pool' = Tail(pool)
            /\ UNCHANGED queue

\* ms_item_free puts the caller's item in front of the pool.
Free(p) == /\ hand[p] # Null
           /\ pool' = <<hand[p]>> \o pool
           /\ hand' = [hand EXCEPT ![p] = Null]
           /\ UNCHANGED queue

\* ms_quene_push appends the caller's item to the queue.
Push(p, q) == /\ hand[p] # Null
              /\ queue' = [queue EXCEPT ![q] = Append(queue[q], hand[p])]
              /\ hand'  = [hand EXCEPT ![p] = Null]
              /\ UNCHANGED pool

\* ms_quene_pop takes the oldest item of the queue.
Pop(p, q) == /\ hand[p] = Null
             /\ queue[q] # << >>
             /\ hand'  = [hand EXCEPT ![p] = Head(queue[q])]
             /\ queue' = [queue EXCEPT ![q] = Tail(queue[q])]
             /\ UNCHANGED pool

ANext == \E p \in Threads :
            \/ Alloc(p)
            \/ Free(p)
            \/ \E q \in Queues : Push(p, q) \/ Pop(p, q)

ASpec == AInit /\ [][ANext]_avars
=============================================================================
