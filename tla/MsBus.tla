------------------------------- MODULE MsBus -------------------------------
(***************************************************************************)
(* The message server of cocool/co_message.c from accept to close.  The    *)
(* main thread accepts connections and hands each one, in an item of the   *)
(* pool, to the queue of a worker, then writes a byte into the worker's    *)
(* pipe (ev_accept_cb).  The event loop of the worker reads the byte, pops *)
(* the item and dispatches it by its status (message_notify).              *)
(*                                                                         *)
(* The pool and the queues are those of MsFifo, which MsQueue implements.  *)
(* The file does not compile as it stands; the README lists how each such  *)
(* line is read.  Two lines that do compile are parameters: the code is    *)
(* Repaired = {}.                                                          *)
(*   "thread_id"   line 148 counts ithread_id past the last thread;        *)
(*                 repaired, it starts again at the first.                 *)
(*   "notify_arg"  line 372 registers the address of a parameter that is   *)
(*                 gone when message_notify reads it; all workers register *)
(*                 the same stack slot.  Repaired, it is the thread.       *)
(***************************************************************************)
EXTENDS Integers, Sequences, FiniteSets

CONSTANTS NumItems,     \* MS_QUENS_NUM
          NumWorkers,   \* MS_PROCESS_NUM
          Fds,          \* descriptors that accept may return
          MaxAccepts,   \* bound: calls of ev_accept_cb
          Repaired      \* which of the two lines are repaired

ASSUME MsBusAssumption ==
  /\ NumItems \in Nat \ {0} /\ NumWorkers \in Nat \ {0} /\ MaxAccepts \in Nat
  /\ IsFiniteSet(Fds) /\ Fds \subseteq Nat \ {0}
  /\ Repaired \subseteq {"thread_id", "notify_arg"}

Null     == 0
Items    == 1 .. NumItems
Workers  == 0 .. NumWorkers - 1
Acceptor == NumWorkers
NoFd     == -1

\* Values of istatus; 0 is the value ms_item_init leaves.
MS_NEW_CONNECT == 1
MS_PROCESS     == 2
MS_READ_MORE   == 3
MS_TIMEOUT     == 4

VARIABLES
  pool, queue, hand,   \* of MsFifo; hand is the pms_item of each thread
  apc, iacceptfd,      \* where ev_accept_cb is, and its descriptor
  ithread_id,          \* the thread that gets the next connection
  accepts,             \* calls of ev_accept_cb so far
  pipe,                \* [Workers -> bytes in the notify pipe]
  wpc, pms_thread,     \* [Workers -> ...], where the worker is; its thread
  isockfd, istatus,    \* [Items -> ...]
  client               \* [Fds -> "none": not open, "up" or "gone"]

fifo  == <<pool, queue, hand>>
accvs == <<apc, iacceptfd, ithread_id, accepts>>
vars  == <<fifo, accvs, pipe, wpc, pms_thread, isockfd, istatus, client>>

Fifo == INSTANCE MsFifo WITH Queues <- Workers, Threads <- Workers \cup {Acceptor}

\* The items come from malloc: their fields are whatever the memory held.
Init ==
  /\ Fifo!AInit
  /\ apc = "wait" /\ iacceptfd = NoFd /\ ithread_id = 0 /\ accepts = 0
  /\ pipe = [w \in Workers |-> 0]
  /\ wpc = [w \in Workers |-> "loop"] /\ pms_thread = [w \in Workers |-> w]
  /\ isockfd = [i \in Items |-> NoFd]
  /\ istatus \in [Items -> 0 .. MS_TIMEOUT]
  /\ client = [d \in Fds |-> "none"]

---------------------------------------------------------------------------
(* ev_accept_cb, on the main thread                                        *)

\* accept; a failure is reported, and the callback goes on with -1.
Accept ==
  /\ apc = "wait" /\ accepts < MaxAccepts
  /\ \/ \E d \in Fds : /\ client[d] = "none"
                       /\ client' = [client EXCEPT ![d] = "up"]
                       /\ iacceptfd' = d
     \/ iacceptfd' = NoFd /\ UNCHANGED client
  /\ accepts' = accepts + 1
  /\ apc' = "alloc"
  /\ UNCHANGED <<fifo, ithread_id, pipe, wpc, pms_thread, isockfd, istatus>>

\* istatus is not set: it is what the item's last user left.
Alloc ==
  /\ apc = "alloc"
  /\ Fifo!Alloc(Acceptor)
  /\ isockfd' = [isockfd EXCEPT ![hand'[Acceptor]] = iacceptfd]
  /\ apc' = "push"
  /\ UNCHANGED <<iacceptfd, ithread_id, accepts, pipe, wpc, pms_thread, istatus, client>>

Push ==
  /\ apc = "push" /\ ithread_id \in Workers
  /\ Fifo!Push(Acceptor, ithread_id)
  /\ apc' = "write"
  /\ UNCHANGED <<iacceptfd, ithread_id, accepts, pipe, wpc, pms_thread, isockfd, istatus, client>>

\* Faulty: only the first item of an empty queue wakes the worker.
WriteIfFirst ==
  /\ apc = "write"
  /\ pipe' = [pipe EXCEPT ![ithread_id] = IF Len(queue[ithread_id]) > 1 THEN @ ELSE @ + 1]
  /\ ithread_id' = IF "thread_id" \in Repaired THEN (ithread_id + 1) % NumWorkers
                   ELSE ithread_id + 1
  /\ iacceptfd' = NoFd
  /\ apc' = "wait"
  /\ UNCHANGED <<fifo, accepts, wpc, pms_thread, isockfd, istatus, client>>

Write ==
  /\ apc = "write"
  /\ pipe' = [pipe EXCEPT ![ithread_id] = @ + 1]
  /\ ithread_id' = IF "thread_id" \in Repaired THEN (ithread_id + 1) % NumWorkers
                   ELSE ithread_id + 1
  /\ iacceptfd' = NoFd
  /\ apc' = "wait"
  /\ UNCHANGED <<fifo, accepts, wpc, pms_thread, isockfd, istatus, client>>

\* The process ends: the pool is empty and line 144 writes through NULL, or
\* the thread of line 147 is beyond the array.
Crash ==
  /\ \/ apc = "alloc" /\ pool = << >>
     \/ apc = "push" /\ ithread_id \notin Workers
  /\ apc' = "crashed" /\ wpc' = [w \in Workers |-> "crashed"]
  /\ UNCHANGED <<fifo, iacceptfd, ithread_id, accepts, pipe, pms_thread, isockfd, istatus, client>>

---------------------------------------------------------------------------
(* message_notify and message_dispatch, on the thread of worker w          *)

\* Faulty: reads all bytes that are there, for one item.
NotifyDrains(w) ==
  /\ wpc[w] = "loop" /\ pipe[w] > 0
  /\ pipe' = [pipe EXCEPT ![w] = 0]
  /\ \E t \in IF "notify_arg" \in Repaired THEN {w} ELSE Workers :
        pms_thread' = [pms_thread EXCEPT ![w] = t]
  /\ wpc' = [wpc EXCEPT ![w] = "pop"]
  /\ UNCHANGED <<fifo, accvs, isockfd, istatus, client>>

\* message_notify reads one byte; what its argument points to is undefined.
Notify(w) ==
  /\ wpc[w] = "loop" /\ pipe[w] > 0
  /\ pipe' = [pipe EXCEPT ![w] = @ - 1]
  /\ \E t \in IF "notify_arg" \in Repaired THEN {w} ELSE Workers :
        pms_thread' = [pms_thread EXCEPT ![w] = t]
  /\ wpc' = [wpc EXCEPT ![w] = "pop"]
  /\ UNCHANGED <<fifo, accvs, isockfd, istatus, client>>

\* Faulty: the item stays in the queue.
PopLeaves(w) ==
  /\ wpc[w] = "pop"
  /\ IF queue[pms_thread[w]] = << >>
     THEN wpc' = [wpc EXCEPT ![w] = "loop"] /\ UNCHANGED hand
     ELSE /\ hand' = [hand EXCEPT ![w] = Head(queue[pms_thread[w]])]
          /\ wpc' = [wpc EXCEPT ![w] = "dispatch"]
  /\ UNCHANGED <<pool, queue, accvs, pipe, pms_thread, isockfd, istatus, client>>

\* ms_quene_pop; without an item, "pms_item is nil" and back to the event loop
Pop(w) ==
  /\ wpc[w] = "pop"
  /\ IF queue[pms_thread[w]] = << >>
     THEN wpc' = [wpc EXCEPT ![w] = "loop"] /\ UNCHANGED fifo
     ELSE Fifo!Pop(w, pms_thread[w]) /\ wpc' = [wpc EXCEPT ![w] = "dispatch"]
  /\ UNCHANGED <<accvs, pipe, pms_thread, isockfd, istatus, client>>

\* SAFE_CLOSE of the item's socket.
SafeClose(i) ==
  /\ isockfd' = [isockfd EXCEPT ![i] = NoFd]
  /\ client' = [d \in Fds |-> IF d = isockfd[i] THEN "none" ELSE client[d]]

(***************************************************************************)
(* ms_new_connect: the memset of ev_accept_cb has cleared ev_base, so that *)
(* event_assign sets no base and event_add fails: the socket is closed and *)
(* the item freed.                                                         *)
(***************************************************************************)
NewConnect(w) ==
  /\ wpc[w] = "dispatch" /\ istatus[hand[w]] = MS_NEW_CONNECT
  /\ SafeClose(hand[w])
  /\ Fifo!Free(w)
  /\ wpc' = [wpc EXCEPT ![w] = "loop"]
  /\ UNCHANGED <<accvs, pipe, pms_thread, istatus>>

\* ms_timeout_process, with ms_item_init, and the free.
Timeout(w) ==
  /\ wpc[w] = "dispatch" /\ istatus[hand[w]] = MS_TIMEOUT
  /\ SafeClose(hand[w])
  /\ istatus' = [istatus EXCEPT ![hand[w]] = 0]
  /\ Fifo!Free(w)
  /\ wpc' = [wpc EXCEPT ![w] = "loop"]
  /\ UNCHANGED <<accvs, pipe, pms_thread>>

\* ms_process, ms_read_more: a read that waits for the client.
Process(w) ==
  /\ wpc[w] = "dispatch" /\ istatus[hand[w]] \in {MS_PROCESS, MS_READ_MORE}
  /\ wpc' = [wpc EXCEPT ![w] = "read"]
  /\ UNCHANGED <<fifo, accvs, pipe, pms_thread, isockfd, istatus, client>>

\* default: nobody has the item from here on.
Ignore(w) ==
  /\ wpc[w] = "dispatch" /\ istatus[hand[w]] = 0
  /\ hand' = [hand EXCEPT ![w] = Null]
  /\ wpc' = [wpc EXCEPT ![w] = "loop"]
  /\ UNCHANGED <<pool, queue, accvs, pipe, pms_thread, isockfd, istatus, client>>

\* The result of ms_process is never set, nor that of ms_read_more after data:
\* the item is freed if it happens to be -1.
FreedOrNot(w, sure) ==
  \/ Fifo!Free(w)
  \/ ~sure /\ hand' = [hand EXCEPT ![w] = Null] /\ UNCHANGED <<pool, queue>>

(***************************************************************************)
(* read returns 0 or -1: the client is gone, the descriptor is -1, or      *)
(* ibufflen - iwriteIdx, which ms_process asks for and nobody has set, is  *)
(* 0.                                                                      *)
(***************************************************************************)
ReadNothing(w) ==
  LET i == hand[w] IN
  /\ wpc[w] = "read"
  /\ istatus[i] = MS_PROCESS \/ isockfd[i] \notin {d \in Fds : client[d] = "up"}
  /\ SafeClose(i)
  /\ FreedOrNot(w, istatus[i] = MS_READ_MORE)
  /\ wpc' = [wpc EXCEPT ![w] = "loop"]
  /\ UNCHANGED <<accvs, pipe, pms_thread, istatus>>

\* The client may have sent something before it closed.
ReadData(w) ==
  /\ wpc[w] = "read" /\ isockfd[hand[w]] # NoFd
  /\ FreedOrNot(w, FALSE)
  /\ wpc' = [wpc EXCEPT ![w] = "loop"]
  /\ UNCHANGED <<accvs, pipe, pms_thread, isockfd, istatus, client>>

ClientCloses(d) ==
  /\ client[d] = "up" /\ apc # "crashed"
  /\ client' = [client EXCEPT ![d] = "gone"]
  /\ UNCHANGED <<fifo, accvs, pipe, wpc, pms_thread, isockfd, istatus>>

---------------------------------------------------------------------------
AcceptorStep == Alloc \/ Push \/ Write
WorkerStep(w) == \/ Notify(w) \/ Pop(w) \/ NewConnect(w)
                 \/ Timeout(w) \/ Process(w) \/ Ignore(w)
ReadStep(w) == ReadNothing(w) \/ ReadData(w)

Next == \/ Accept \/ AcceptorStep \/ Crash
        \/ \E w \in Workers : WorkerStep(w) \/ ReadStep(w)
        \/ \E d \in Fds : ClientCloses(d)

Spec == Init /\ [][Next]_vars

(***************************************************************************)
(* Both kinds of threads are scheduled and their event loops go on; nobody *)
(* makes clients send, so a worker may wait in read for ever.              *)
(***************************************************************************)
FairSpec == Spec /\ WF_vars(AcceptorStep) /\ \A w \in Workers : WF_vars(WorkerStep(w))

---------------------------------------------------------------------------
(* Properties                                                              *)

TypeOK ==
  /\ pool \in Seq(Items) /\ queue \in [Workers -> Seq(Items)]
  /\ hand \in [Workers \cup {Acceptor} -> Items \cup {Null}]
  /\ apc \in {"wait", "alloc", "push", "write", "crashed"}
  /\ iacceptfd \in Fds \cup {NoFd} /\ ithread_id \in Nat /\ accepts \in 0 .. MaxAccepts
  /\ pipe \in [Workers -> Nat] /\ pms_thread \in [Workers -> Workers]
  /\ wpc \in [Workers -> {"loop", "pop", "dispatch", "read", "crashed"}]
  /\ isockfd \in [Items -> Fds \cup {NoFd}] /\ istatus \in [Items -> 0 .. MS_TIMEOUT]
  /\ client \in [Fds -> {"none", "up", "gone"}]
  /\ \A w \in Workers : wpc[w] \in {"dispatch", "read"} => hand[w] # Null

\* A worker that was woken finds an item in its queue (co_message.c:344-347),
\* and a worker with items has been woken often enough: bytes and items are
\* written and taken in two steps each, by two threads.
Woken(w)  == pipe[w] + (IF wpc[w] = "pop" THEN 1 ELSE 0)
Coming(w) == IF apc = "write" /\ ithread_id = w THEN 1 ELSE 0
NotifyMatches ==
  apc # "crashed" => \A w \in Workers : Len(queue[w]) = Woken(w) + Coming(w)

\* A worker that was woken finds an item in the queue it pops from: the error
\* "pms_item is nil" (line 346) does not occur.  NotifyMatches implies it where
\* workers pop from their own queues; it fails where the argument dangles.
NeverNil == \A w \in Workers : wpc[w] = "pop" => queue[pms_thread[w]] # << >>

\* A descriptor is in one item only and open as long as it is there, also
\* after the item went back into the pool without a close and after accept
\* returned the number of a closed one again: no close hits a later connection.
FdsApart ==
  /\ \A i, j \in Items : i # j /\ isockfd[i] # NoFd => isockfd[i] # isockfd[j]
  /\ \A i \in Items : isockfd[i] # NoFd => client[isockfd[i]] # "none"

\* Each item is at one place: the pool, a queue, or the hands of a thread.
In(s) == {s[n] : n \in DOMAIN s}
Places(i) == {<<"queue", w>> : w \in {w \in Workers : i \in In(queue[w])}}
             \cup {<<"hand", p>> : p \in {p \in DOMAIN hand : hand[p] = i}}
             \cup {<<"pool", 0>> : x \in {i} \cap In(pool)}
OneHome == /\ \A i \in Items : Cardinality(Places(i)) <= 1
           /\ Cardinality(In(pool)) = Len(pool)

\* Even where the argument of message_notify dangles (co_message.c:372), and
\* when the worker starts long after the byte was written, the queues hold an
\* item for every worker that is woken or has still to be.  Units(f) has as
\* many members as the numbers f[w] have together.
Units(f) == UNION {{w} \X (1 .. f[w]) : w \in DOMAIN f}
Queued == [w \in Workers |-> Len(queue[w])]
Owed   == [w \in Workers |-> Woken(w) + Coming(w)]
NoByteInVain == apc # "crashed" => Cardinality(Units(Queued)) >= Cardinality(Units(Owed))

\* However the calls of the acceptor and the workers interleave: items and
\* descriptors are neither shared nor lost track of.
Inv == TypeOK /\ FdsApart /\ OneHome

\* Everything in a queue is taken out of it, unless its worker waits in a
\* read for a client, or the process ends.
Taken == \A w \in Workers, i \in Items :
           i \in In(queue[w]) ~> i \notin In(queue[w]) \/ wpc[w] \in {"read", "crashed"}
=============================================================================
