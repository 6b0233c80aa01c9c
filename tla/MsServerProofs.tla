--------------------------- MODULE MsServerProofs ---------------------------
(***************************************************************************)
(* Theorems about MsBus, and about MsServer, which extends it, for every    *)
(* number of items, workers, descriptors and accepts.                       *)
(*                                                                         *)
(* Of MsBus, TypeOK and FdsApart hold for the code as it is, whichever of   *)
(* the two lines are repaired; NotifyMatches needs both repairs.  Of         *)
(* MsServer, the invariants of CThread and MsBus hold of the two together,  *)
(* whenever the threads start, and a base has one loop: they need the       *)
(* parameter of the threads to be passed as one ("argc"), and neither line  *)
(* of MsBus to be repaired.                                                 *)
(***************************************************************************)
EXTENDS MsServer, FiniteSetTheorems, TLAPS

LEMMA Constants ==
  /\ NumItems \in Nat /\ NumWorkers \in Nat /\ NumWorkers > 0 /\ MaxAccepts \in Nat
  /\ 0 \in Workers /\ Acceptor \notin Workers /\ Workers \subseteq Nat
  /\ Null \notin Items /\ NoFd \notin Fds
  /\ Fifo!Items = Items /\ Fifo!Null = Null
BY MsBusAssumption DEF Workers, Acceptor, Null, Items, NoFd, Fifo!Items, Fifo!Null

LEMMA TypeInit == Init => TypeOK
<1> SUFFICES ASSUME Init PROVE TypeOK OBVIOUS
<1>1. pool \in Seq(Items)
  <2>1. Items = 1 .. NumItems /\ NumItems \in Nat BY Constants DEF Items
  <2>2. [k \in Items |-> k] \in [1 .. NumItems -> Items] BY <2>1
  <2> QED BY <2>1, <2>2, Constants DEF Init, Fifo!AInit
<1>2. queue \in [Workers -> Seq(Items)] BY DEF Init, Fifo!AInit
<1>3. hand \in [Workers \cup {Acceptor} -> Items \cup {Null}]
  BY Constants DEF Init, Fifo!AInit
<1> QED BY <1>1, <1>2, <1>3, Constants DEF Init, TypeOK, Fifo!AInit, MS_TIMEOUT, NoFd

\* What an item that is freed does to the pool and to the hands.
LEMMA FreeType ==
  ASSUME NEW w \in Workers, TypeOK, Fifo!Free(w)
  PROVE  /\ pool' \in Seq(Items) /\ queue' = queue
         /\ hand[w] \in Items
         /\ hand' = [hand EXCEPT ![w] = Null]
<1>1. hand[w] \in Items BY Constants DEF TypeOK, Fifo!Free
<1>2. <<hand[w]>> \o pool \in Seq(Items) BY <1>1 DEF TypeOK
<1> QED BY <1>1, <1>2, Constants DEF Fifo!Free

LEMMA TypeStep == TypeOK /\ [Next]_vars => TypeOK'
<1> SUFFICES ASSUME TypeOK, [Next]_vars PROVE TypeOK' OBVIOUS
<1> USE Constants DEF TypeOK, fifo, accvs
<1>1. CASE Accept
  <2>1. accepts' \in 0 .. MaxAccepts BY <1>1 DEF Accept
  <2>2. iacceptfd' \in Fds \cup {NoFd} /\ client' \in [Fds -> {"none", "up", "gone"}]
    BY <1>1 DEF Accept
  <2> QED BY <1>1, <2>1, <2>2 DEF Accept
<1>2. CASE Alloc
  <2>1. hand'[Acceptor] = Head(pool) /\ hand' = [hand EXCEPT ![Acceptor] = Head(pool)]
    BY <1>2 DEF Alloc, Fifo!Alloc
  <2>2. pool' \in Seq(Items) /\ Head(pool) \in Items
    BY <1>2 DEF Alloc, Fifo!Alloc
  <2> QED BY <1>2, <2>1, <2>2 DEF Alloc, Fifo!Alloc
<1>3. CASE Push
  <2>1. hand[Acceptor] \in Items BY <1>3 DEF Push, Fifo!Push
  <2>2. queue' \in [Workers -> Seq(Items)] BY <1>3, <2>1 DEF Push, Fifo!Push
  <2> QED BY <1>3, <2>1, <2>2 DEF Push, Fifo!Push
<1>4. CASE Write
  <2>1. pipe' \in [Workers -> Nat]
    <3>1. \A w \in Workers : pipe[w] + 1 \in Nat /\ pipe[w] \in Nat OBVIOUS
    <3>2. pipe' = [w \in Workers |-> IF w = ithread_id THEN pipe[w] + 1 ELSE pipe[w]]
      BY <1>4 DEF Write
    <3> QED BY <3>1, <3>2
  <2>2. (ithread_id + 1) % NumWorkers \in Nat /\ ithread_id + 1 \in Nat OBVIOUS
  <2>3. ithread_id' \in Nat BY <1>4, <2>2 DEF Write
  <2> QED BY <1>4, <2>1, <2>3 DEF Write
<1>5. CASE Crash BY <1>5 DEF Crash
<1>6. ASSUME NEW w \in Workers, WorkerStep(w) PROVE TypeOK'
  <2>1. CASE Notify(w) BY SMTT(20), <2>1 DEF Notify
  <2>2. CASE Pop(w) /\ queue[pms_thread[w]] # << >>
    <3>1. queue[pms_thread[w]] \in Seq(Items) /\ queue[pms_thread[w]] # << >>
      BY <2>2 DEF Pop, Fifo!Pop
    <3>2. Head(queue[pms_thread[w]]) \in Items /\ Tail(queue[pms_thread[w]]) \in Seq(Items)
      BY <3>1
    <3>3. /\ wpc' = [wpc EXCEPT ![w] = "dispatch"]
          /\ hand' = [hand EXCEPT ![w] = Head(queue[pms_thread[w]])]
          /\ queue' = [queue EXCEPT ![pms_thread[w]] = Tail(@)]
          /\ UNCHANGED <<pool, accvs, pipe, pms_thread, isockfd, istatus, client>>
      BY <2>2 DEF Pop, Fifo!Pop
    <3> QED BY <3>2, <3>3
  <2>3. CASE Pop(w) /\ queue[pms_thread[w]] = << >> BY <2>3 DEF Pop
  <2>4. CASE NewConnect(w) BY <2>4, FreeType DEF NewConnect, SafeClose
  <2>5. CASE Timeout(w)
    <3>1. istatus' \in [Items -> 0 .. MS_TIMEOUT] BY <2>5 DEF Timeout, MS_TIMEOUT
    <3> QED BY ZenonT(30), <2>5, <3>1, FreeType DEF Timeout, SafeClose
  <2>6. CASE Process(w) BY <2>6 DEF Process
  <2>7. CASE Ignore(w) BY <2>7 DEF Ignore
  <2> QED BY <1>6, <2>1, <2>2, <2>3, <2>4, <2>5, <2>6, <2>7 DEF WorkerStep
<1>7. ASSUME NEW w \in Workers, ReadStep(w) PROVE TypeOK'
  <2>1. CASE ReadNothing(w) BY <2>1, FreeType DEF ReadNothing, SafeClose, FreedOrNot
  <2>2. CASE ReadData(w) BY <2>2, FreeType DEF ReadData, FreedOrNot
  <2> QED BY <1>7, <2>1, <2>2 DEF ReadStep
<1>8. ASSUME NEW d \in Fds, ClientCloses(d) PROVE TypeOK' BY <1>8 DEF ClientCloses
<1>9. CASE UNCHANGED vars BY <1>9 DEF vars
<1> QED BY <1>1, <1>2, <1>3, <1>4, <1>5, <1>6, <1>7, <1>8, <1>9 DEF Next, AcceptorStep

(***************************************************************************)
(* The type invariant (co_message.c:97-453): a worker that dispatches has  *)
(* an item, whatever the notify argument points to.                        *)
(***************************************************************************)
THEOREM Types == Spec => []TypeOK
BY TypeInit, TypeStep, PTL DEF Spec

---------------------------------------------------------------------------
(***************************************************************************)
(* Descriptors.  FdsApart is inductive together with what accept has       *)
(* returned and ev_accept_cb has not stored in an item yet.                *)
(***************************************************************************)
FdInv == /\ FdsApart
         /\ apc = "alloc" /\ iacceptfd # NoFd =>
              client[iacceptfd] # "none" /\ \A k \in Items : isockfd[k] # iacceptfd

\* SAFE_CLOSE closes a descriptor no other item has.
LEMMA CloseApart ==
  ASSUME TypeOK, FdInv, NEW k \in Items, SafeClose(k), UNCHANGED <<apc, iacceptfd>>
  PROVE  FdInv'
<1> USE Constants DEF TypeOK, FdInv, FdsApart, SafeClose
<1>1. \A j \in Items : isockfd'[j] = IF j = k THEN NoFd ELSE isockfd[j] OBVIOUS
<1>2. \A d \in Fds : client'[d] = IF d = isockfd[k] THEN "none" ELSE client[d] OBVIOUS
<1>3. FdsApart' BY <1>1, <1>2
<1>4. ASSUME apc = "alloc", iacceptfd # NoFd
      PROVE  client'[iacceptfd] # "none" /\ \A j \in Items : isockfd'[j] # iacceptfd
  BY <1>1, <1>2, <1>4
<1> QED BY <1>3, <1>4

LEMMA FdStep == TypeOK /\ FdInv /\ [Next]_vars => FdInv'
<1> SUFFICES ASSUME TypeOK, FdInv, [Next]_vars PROVE FdInv' OBVIOUS
<1> USE Constants DEF TypeOK, fifo, accvs
<1>1. CASE Accept
  <2>1. FdsApart' BY <1>1 DEF Accept, FdInv, FdsApart
  <2>2. ASSUME iacceptfd' # NoFd
        PROVE  client'[iacceptfd'] # "none" /\ \A k \in Items : isockfd'[k] # iacceptfd'
    BY <1>1, <2>2 DEF Accept, FdInv, FdsApart
  <2> QED BY <2>1, <2>2 DEF FdInv
<1>2. CASE Alloc
  <2>1. \A k \in Items : isockfd'[k] \in {isockfd[k], iacceptfd}
                          /\ (isockfd'[k] # isockfd[k] => k = hand'[Acceptor])
    BY <1>2 DEF Alloc
  <2>2. FdsApart' BY <1>2, <2>1 DEF Alloc, FdInv, FdsApart
  <2> QED BY <1>2, <2>2 DEF Alloc, FdInv
<1>3. CASE Push BY <1>3 DEF Push, FdInv, FdsApart
<1>4. CASE Write BY <1>4 DEF Write, FdInv, FdsApart
<1>5. CASE Crash BY <1>5 DEF Crash, FdInv, FdsApart
<1>6. ASSUME NEW w \in Workers, WorkerStep(w) PROVE FdInv'
  <2>1. CASE Notify(w) BY <2>1 DEF Notify, FdInv, FdsApart
  <2>2. CASE Pop(w) /\ queue[pms_thread[w]] # << >> BY <2>2 DEF Pop, FdInv, FdsApart
  <2>3. CASE Pop(w) /\ queue[pms_thread[w]] = << >> BY <2>3 DEF Pop, FdInv, FdsApart
  <2>4. CASE NewConnect(w) BY <2>4, FreeType, CloseApart DEF NewConnect
  <2>5. CASE Timeout(w) BY <2>5, FreeType, CloseApart DEF Timeout
  <2>6. CASE Process(w) BY <2>6 DEF Process, FdInv, FdsApart
  <2>7. CASE Ignore(w) BY <2>7 DEF Ignore, FdInv, FdsApart
  <2> QED BY <1>6, <2>1, <2>2, <2>3, <2>4, <2>5, <2>6, <2>7 DEF WorkerStep
<1>7. ASSUME NEW w \in Workers, ReadStep(w) PROVE FdInv'
  <2>1. CASE ReadNothing(w)
    <3>1. hand[w] \in Items BY <2>1 DEF ReadNothing
    <3> QED BY <2>1, <3>1, CloseApart DEF ReadNothing
  <2>2. CASE ReadData(w) BY <2>2 DEF ReadData, FdInv, FdsApart
  <2> QED BY <1>7, <2>1, <2>2 DEF ReadStep
<1>8. ASSUME NEW d \in Fds, ClientCloses(d) PROVE FdInv'
  <2>1. \A e \in Fds : client'[e] = "none" => client[e] = "none" BY <1>8 DEF ClientCloses
  <2> QED BY <1>8, <2>1 DEF ClientCloses, FdInv, FdsApart
<1>9. CASE UNCHANGED vars BY <1>9 DEF vars, FdInv, FdsApart
<1> QED BY <1>1, <1>2, <1>3, <1>4, <1>5, <1>6, <1>7, <1>8, <1>9 DEF Next, AcceptorStep

(***************************************************************************)
(* No descriptor is closed twice and no close hits a later connection with *)
(* the same number (SAFE_CLOSE, co_message.c:133-144, 169, 191, 243).      *)
(***************************************************************************)
THEOREM DescriptorsApart == Spec => []FdsApart
<1>1. Init => FdInv BY Constants DEF Init, FdInv, FdsApart
<1>2. FdInv => FdsApart BY DEF FdInv
<1> QED BY <1>1, <1>2, TypeInit, TypeStep, FdStep, PTL DEF Spec

---------------------------------------------------------------------------
(***************************************************************************)
(* Wake-ups.  With both lines repaired, a worker pops from its own queue,  *)
(* and the bytes and the items of each worker match at every step.         *)
(***************************************************************************)
WakeInv == /\ ithread_id \in Workers
           /\ \A w \in Workers : wpc[w] = "pop" => pms_thread[w] = w
           /\ apc = "crashed" => \A w \in Workers : wpc[w] = "crashed"
           /\ NotifyMatches

\* A step that leaves the queues, the pipes and the acceptor alone.
LEMMA WakeFrame ==
  ASSUME TypeOK, WakeInv, NEW w \in Workers, UNCHANGED <<queue, pipe, apc, ithread_id, pms_thread>>,
         wpc[w] \notin {"pop", "crashed"}, NEW to \in {"loop", "read", "dispatch"},
         wpc' = [wpc EXCEPT ![w] = to]
  PROVE  WakeInv'
<1> USE DEF TypeOK, WakeInv
<1>1. \A v \in Workers : Woken(v)' = Woken(v) /\ Coming(v)' = Coming(v)
  BY DEF Woken, Coming
<1>2. NotifyMatches' BY <1>1 DEF NotifyMatches
<1>3. apc # "crashed" BY DEF NotifyMatches
<1> QED BY <1>2, <1>3

\* What is counted for a worker is a number; the next worker is a worker.
LEMMA Counted ==
  ASSUME TypeOK, NEW w \in Workers
  PROVE  Woken(w) \in Nat /\ Coming(w) \in {0, 1} /\ Len(queue[w]) \in Nat
<1>1. pipe[w] \in Nat /\ queue[w] \in Seq(Items) BY DEF TypeOK
<1>2. Len(queue[w]) \in Nat BY <1>1
<1> QED BY <1>1, <1>2 DEF Woken, Coming

LEMMA NextWorker ==
  ASSUME NEW n \in Nat
  PROVE  (n + 1) % NumWorkers \in Workers
<1>1. NumWorkers \in Nat /\ NumWorkers > 0 BY Constants
<1>2. (n + 1) % NumWorkers \in Int /\ 0 <= (n + 1) % NumWorkers /\ (n + 1) % NumWorkers < NumWorkers
  BY <1>1
<1> QED BY <1>1, <1>2 DEF Workers

LEMMA WakeStep ==
  ASSUME Repaired = {"thread_id", "notify_arg"}, TypeOK, WakeInv, [Next]_vars
  PROVE  WakeInv'
<1> USE Constants DEF TypeOK, fifo, accvs, WakeInv
<1>0. \A w \in Workers : Len(queue[w]) \in Nat /\ pipe[w] \in Nat OBVIOUS
<1>1. CASE Accept BY <1>1 DEF Accept, NotifyMatches, Woken, Coming
<1>2. CASE Alloc BY <1>2 DEF Alloc, Fifo!Alloc, NotifyMatches, Woken, Coming
<1>3. CASE Push
  <2>1. hand[Acceptor] \in Items BY <1>3 DEF Push, Fifo!Push
  <2>2. \A w \in Workers : Len(queue'[w]) = IF w = ithread_id THEN Len(queue[w]) + 1
                                             ELSE Len(queue[w])
    BY <1>3, <2>1 DEF Push, Fifo!Push
  <2>3. \A w \in Workers : Woken(w)' = Woken(w) /\ Coming(w) = 0
                            /\ Coming(w)' = IF w = ithread_id THEN 1 ELSE 0
    BY <1>3 DEF Push, Woken, Coming
  <2>4. ASSUME NEW w \in Workers PROVE (Len(queue[w]) = Woken(w) + Coming(w))'
    <3>1. Len(queue[w]) = Woken(w) + Coming(w) BY <1>3 DEF Push, NotifyMatches
    <3>2. Woken(w) \in Nat /\ Len(queue[w]) \in Nat BY Counted
    <3> HIDE DEF TypeOK, WakeInv
    <3> QED BY <3>1, <3>2, <2>2, <2>3
  <2>5. NotifyMatches' BY <2>4 DEF NotifyMatches
  <2> QED BY <1>3, <2>5 DEF Push
<1>4. CASE Write
  <2>1. ithread_id' \in Workers
    <3>1. ithread_id' = (ithread_id + 1) % NumWorkers BY <1>4 DEF Write
    <3> QED BY <3>1, NextWorker
  <2>2. \A w \in Workers : Woken(w)' = IF w = ithread_id THEN Woken(w) + 1 ELSE Woken(w)
    BY <1>0, <1>4 DEF Write, Woken
  <2>3. \A w \in Workers : Coming(w) = (IF w = ithread_id THEN 1 ELSE 0) /\ Coming(w)' = 0
    BY <1>4 DEF Write, Coming
  <2>4. NotifyMatches' BY <1>0, <1>4, <2>2, <2>3 DEF Write, NotifyMatches, Woken
  <2> QED BY <1>4, <2>1, <2>4 DEF Write
<1>5. CASE Crash BY <1>5 DEF Crash, NotifyMatches
<1>6. ASSUME NEW w \in Workers, WorkerStep(w) PROVE WakeInv'
  <2>1. CASE Notify(w)
    <3>1. pms_thread' = [pms_thread EXCEPT ![w] = w] /\ wpc' = [wpc EXCEPT ![w] = "pop"]
      BY <2>1 DEF Notify
    <3>2. \A v \in Workers : Woken(v)' = Woken(v) /\ Coming(v)' = Coming(v)
      BY <1>0, <2>1 DEF Notify, Woken, Coming
    <3>3. apc # "crashed" BY <2>1 DEF Notify
    <3>4. NotifyMatches' BY <2>1, <3>2 DEF Notify, NotifyMatches
    <3> QED BY <2>1, <3>1, <3>3, <3>4 DEF Notify
  <2>2. CASE Pop(w) /\ queue[pms_thread[w]] # << >>
    <3>1. pms_thread[w] = w /\ queue[w] \in Seq(Items) /\ queue[w] # << >>
      BY <2>2 DEF Pop, Fifo!Pop
    <3>2. Len(Tail(queue[w])) = Len(queue[w]) - 1 BY <3>1
    <3>3. \A v \in Workers : Len(queue'[v]) = IF v = w THEN Len(queue[v]) - 1 ELSE Len(queue[v])
      BY <2>2, <3>1, <3>2 DEF Pop, Fifo!Pop
    <3>4. ASSUME NEW v \in Workers
          PROVE  /\ Woken(v)' = IF v = w THEN Woken(v) - 1 ELSE Woken(v)
                 /\ Coming(v)' = Coming(v)
      <4>1. wpc[w] = "pop" /\ wpc' = [wpc EXCEPT ![w] = "dispatch"] /\ pipe' = pipe
        BY <2>2 DEF Pop
      <4>2. pipe[v] \in Nat OBVIOUS
      <4>3. wpc'[v] = IF v = w THEN "dispatch" ELSE wpc[v] BY <4>1
      <4>4. apc' = apc /\ ithread_id' = ithread_id BY <2>2 DEF Pop
      <4> HIDE DEF TypeOK, WakeInv
      <4> QED BY <4>1, <4>2, <4>3, <4>4 DEF Woken, Coming
    <3>5. apc # "crashed" BY <2>2 DEF Pop
    <3>6. ASSUME NEW v \in Workers PROVE (Len(queue[v]) = Woken(v) + Coming(v))'
      <4>1. Len(queue[v]) = Woken(v) + Coming(v) BY <3>5 DEF NotifyMatches
      <4>2. Woken(v) \in Nat /\ Coming(v) \in {0, 1} /\ Len(queue[v]) \in Nat BY Counted
      <4> HIDE DEF TypeOK, WakeInv
      <4> QED BY <3>3, <3>4, <4>1, <4>2
    <3>7. NotifyMatches' BY <3>6 DEF NotifyMatches
    <3> QED BY <2>2, <3>5, <3>7 DEF Pop
  <2>3. CASE Pop(w) /\ queue[pms_thread[w]] = << >>
    <3>1. apc # "crashed" /\ pms_thread[w] = w /\ Len(queue[w]) = 0 BY <2>3 DEF Pop
    <3>2. Len(queue[w]) = Woken(w) + Coming(w) BY <3>1 DEF NotifyMatches
    <3>3. pipe[w] \in Nat /\ Coming(w) \in {0, 1} BY Counted
    <3>4. Woken(w) = pipe[w] + 1 BY <2>3 DEF Pop, Woken
    <3> HIDE DEF TypeOK, WakeInv
    <3> QED BY <3>1, <3>2, <3>3, <3>4
  <2>4. CASE NewConnect(w) BY <2>4, FreeType, WakeFrame DEF NewConnect
  <2>5. CASE Timeout(w) BY <2>5, FreeType, WakeFrame DEF Timeout
  <2>6. CASE Process(w) BY <2>6, WakeFrame DEF Process
  <2>7. CASE Ignore(w) BY <2>7, WakeFrame DEF Ignore
  <2> QED BY <1>6, <2>1, <2>2, <2>3, <2>4, <2>5, <2>6, <2>7 DEF WorkerStep
<1>7. ASSUME NEW w \in Workers, ReadStep(w) PROVE WakeInv'
  <2>1. CASE ReadNothing(w) BY <2>1, FreeType, WakeFrame DEF ReadNothing, FreedOrNot
  <2>2. CASE ReadData(w) BY <2>2, FreeType, WakeFrame DEF ReadData, FreedOrNot
  <2> QED BY <1>7, <2>1, <2>2 DEF ReadStep
<1>8. ASSUME NEW d \in Fds, ClientCloses(d) PROVE WakeInv'
  BY <1>8 DEF ClientCloses, NotifyMatches, Woken, Coming
<1>9. CASE UNCHANGED vars BY <1>9 DEF vars, NotifyMatches, Woken, Coming
<1> QED BY <1>1, <1>2, <1>3, <1>4, <1>5, <1>6, <1>7, <1>8, <1>9 DEF Next, AcceptorStep

LEMMA WakeInit == Init => WakeInv
<1> SUFFICES ASSUME Init PROVE WakeInv OBVIOUS
<1>1. \A w \in Workers : queue[w] = << >> BY DEF Init, Fifo!AInit
<1> QED BY <1>1, Constants DEF Init, WakeInv, NotifyMatches, Woken, Coming

(***************************************************************************)
(* No wake-up is lost and none is spurious (co_message.c:147-148, 339-348) *)
(* between the acceptor and any number of workers, once the two lines are  *)
(* repaired.                                                               *)
(***************************************************************************)
THEOREM WakeUpsMatch ==
  ASSUME Repaired = {"thread_id", "notify_arg"}
  PROVE  Spec => []NotifyMatches
<1>1. TypeOK /\ WakeInv /\ [Next]_vars => WakeInv' BY WakeStep
<1>2. WakeInv => NotifyMatches BY DEF WakeInv
<1> QED BY <1>1, <1>2, WakeInit, TypeInit, TypeStep, PTL DEF Spec
---------------------------------------------------------------------------
(***************************************************************************)
(* Items.  Every item is in one place, and there once: OneHome counts the  *)
(* places, Apart says the same without counting and is inductive.          *)
(***************************************************************************)
Once(s) == \A m, n \in DOMAIN s : s[m] = s[n] => m = n

Hands == Workers \cup {Acceptor}

Apart ==
  /\ Once(pool) /\ \A w \in Workers : Once(queue[w])
  /\ \A w \in Workers : In(queue[w]) \cap In(pool) = {}
  /\ \A v, w \in Workers : v # w => In(queue[v]) \cap In(queue[w]) = {}
  /\ \A p \in Hands : hand[p] # Null =>
        /\ hand[p] \notin In(pool)
        /\ \A w \in Workers : hand[p] \notin In(queue[w])
        /\ \A q \in Hands : hand[q] = hand[p] => q = p

\* What the three ways to change a sequence do to its members.
LEMMA InTail ==
  ASSUME NEW S, NEW s \in Seq(S), s # << >>, Once(s)
  PROVE  /\ Once(Tail(s)) /\ In(Tail(s)) = In(s) \ {Head(s)}
         /\ Head(s) \in In(s)
<1> DEFINE n == Len(s)
<1>1. n \in Nat /\ n > 0 /\ DOMAIN s = 1 .. n /\ Head(s) = s[1] OBVIOUS
<1>2. DOMAIN Tail(s) = 1 .. n - 1 /\ \A m \in 1 .. n - 1 : Tail(s)[m] = s[m + 1] OBVIOUS
<1> HIDE DEF n
<1>3. \A m \in 2 .. n : m - 1 \in 1 .. n - 1 /\ Tail(s)[m - 1] = s[m] BY <1>1, <1>2
<1>4. \A m \in 1 .. n - 1 : m + 1 \in 1 .. n /\ m + 1 # 1 BY <1>1
<1>5. Once(Tail(s))
  <2> SUFFICES ASSUME NEW a \in 1 .. n - 1, NEW b \in 1 .. n - 1, s[a + 1] = s[b + 1]
               PROVE  a = b
    BY <1>2 DEF Once
  <2>1. a + 1 = b + 1 BY <1>1, <1>4 DEF Once
  <2> QED BY <2>1
<1>6. ASSUME NEW x \in In(Tail(s)) PROVE x \in In(s) \ {Head(s)}
  <2>1. PICK m \in 1 .. n - 1 : x = s[m + 1] BY <1>2 DEF In
  <2> QED BY <2>1, <1>1, <1>4 DEF In, Once
<1>7. ASSUME NEW x \in In(s), x # Head(s) PROVE x \in In(Tail(s))
  <2>1. PICK m \in 1 .. n : x = s[m] BY <1>1 DEF In
  <2>2. m \in 2 .. n BY <1>1, <1>7, <2>1
  <2> QED BY <2>1, <2>2, <1>2, <1>3 DEF In
<1>8. Head(s) \in In(s) BY <1>1 DEF In
<1> QED BY <1>5, <1>6, <1>7, <1>8

LEMMA InAppend ==
  ASSUME NEW S, NEW s \in Seq(S), NEW x \in S, Once(s), x \notin In(s)
  PROVE  Once(Append(s, x)) /\ In(Append(s, x)) = In(s) \cup {x}
<1> DEFINE n == Len(s)
<1>1. n \in Nat /\ DOMAIN s = 1 .. n OBVIOUS
<1>2. /\ DOMAIN Append(s, x) = 1 .. n + 1 /\ Append(s, x)[n + 1] = x
      /\ \A m \in 1 .. n : Append(s, x)[m] = s[m]
  OBVIOUS
<1> HIDE DEF n
<1>3. \A m \in 1 .. n + 1 : m \in 1 .. n \/ m = n + 1 BY <1>1
<1>4. \A m \in 1 .. n : m \in 1 .. n + 1 BY <1>1
<1>5. n + 1 \in 1 .. n + 1 BY <1>1
<1>6. Once(Append(s, x)) BY <1>1, <1>2, <1>3 DEF Once, In
<1>7. In(Append(s, x)) = In(s) \cup {x}
  BY <1>1, <1>2, <1>3, <1>4, <1>5 DEF In
<1> QED BY <1>6, <1>7

LEMMA InCons ==
  ASSUME NEW S, NEW s \in Seq(S), NEW x \in S, Once(s), x \notin In(s)
  PROVE  Once(<<x>> \o s) /\ In(<<x>> \o s) = In(s) \cup {x}
<1> DEFINE n == Len(s)  c == <<x>> \o s
<1>1. n \in Nat /\ DOMAIN s = 1 .. n OBVIOUS
<1>2. /\ DOMAIN c = 1 .. n + 1 /\ c[1] = x
      /\ \A m \in 2 .. n + 1 : c[m] = s[m - 1]
  OBVIOUS
<1> HIDE DEF n, c
<1>3. \A m \in 1 .. n + 1 : m = 1 \/ (m \in 2 .. n + 1 /\ m - 1 \in 1 .. n) BY <1>1
<1>4. \A m \in 1 .. n : m + 1 \in 2 .. n + 1 /\ m + 1 \in 1 .. n + 1 /\ c[m + 1] = s[m]
  <2> SUFFICES ASSUME NEW m \in 1 .. n
               PROVE  m + 1 \in 2 .. n + 1 /\ m + 1 \in 1 .. n + 1 /\ c[m + 1] = s[m]
    OBVIOUS
  <2>1. m + 1 \in 2 .. n + 1 /\ m + 1 \in 1 .. n + 1 /\ (m + 1) - 1 = m BY <1>1
  <2> QED BY <2>1, <1>2
<1>5. 1 \in 1 .. n + 1 BY <1>1
<1>6. Once(c)
  <2> SUFFICES ASSUME NEW a \in 1 .. n + 1, NEW b \in 1 .. n + 1, c[a] = c[b] PROVE a = b
    BY <1>2 DEF Once
  <2>1. CASE a = 1 \/ b = 1 BY <2>1, <1>1, <1>2, <1>3 DEF In
  <2>2. CASE a # 1 /\ b # 1
    <3>1. a - 1 = b - 1 BY <2>2, <1>1, <1>2, <1>3 DEF Once
    <3> QED BY <3>1
  <2> QED BY <2>1, <2>2
<1>7. In(c) = In(s) \cup {x}
  <2>1. \A y \in In(c) : y \in In(s) \cup {x} BY SMTT(20), <1>1, <1>2, <1>3 DEF In
  <2>2. \A y \in In(s) : y \in In(c) BY <1>1, <1>2, <1>4 DEF In
  <2>3. x \in In(c) BY <1>2, <1>5 DEF In
  <2> QED BY <2>1, <2>2, <2>3
<1> QED BY <1>6, <1>7 DEF c

\* ms_item_alloc, ms_item_free, ms_quene_push and ms_quene_pop hand an item
\* from one place to another.
LEMMA AllocApart ==
  ASSUME TypeOK, Apart, NEW p \in Hands, Fifo!Alloc(p)
  PROVE  Apart'
<1> USE Constants
<1>1. pool \in Seq(Items) /\ pool # << >> /\ hand[p] = Null BY DEF TypeOK, Fifo!Alloc
<1>2. /\ Once(Tail(pool)) /\ In(Tail(pool)) = In(pool) \ {Head(pool)}
      /\ Head(pool) \in In(pool)
  BY <1>1, InTail DEF Apart
<1>3. pool' = Tail(pool) /\ queue' = queue BY DEF Fifo!Alloc
<1>4. \A q \in Hands : hand'[q] = IF q = p THEN Head(pool) ELSE hand[q]
  BY DEF TypeOK, Fifo!Alloc, Hands
<1>5. Once(pool') /\ \A w \in Workers : Once(queue'[w]) BY <1>2, <1>3 DEF Apart
<1>6. In(pool)' = In(pool) \ {Head(pool)} BY <1>2, <1>3 DEF In
<1>7. \A w \in Workers : In(queue[w])' = In(queue[w]) BY <1>3 DEF In
<1>8. ASSUME NEW q \in Hands, hand'[q] # Null
      PROVE  /\ hand'[q] \notin In(pool)'
             /\ \A w \in Workers : hand'[q] \notin In(queue[w])
             /\ \A r \in Hands : hand'[r] = hand'[q] => r = q
  BY <1>2, <1>4, <1>6, <1>8 DEF Apart
<1>9. \A w \in Workers : In(queue[w])' \cap In(pool)' = {} BY <1>6, <1>7 DEF Apart
<1>10. \A u, w \in Workers : u # w => In(queue[u])' \cap In(queue[w])' = {} BY <1>7 DEF Apart
<1>11. \A w \in Workers : In(queue[w])' = In(queue'[w]) /\ In(queue[w]) = In(queue'[w])
  BY <1>3, <1>7 DEF In
<1>12. In(pool)' = In(pool') BY DEF In
<1> HIDE DEF In
<1> QED BY <1>3, <1>5, <1>8, <1>9, <1>10, <1>11, <1>12 DEF Apart

LEMMA FreeApart ==
  ASSUME TypeOK, Apart, NEW p \in Hands, Fifo!Free(p)
  PROVE  Apart'
<1> USE Constants
<1>1. pool \in Seq(Items) /\ hand[p] \in Items /\ hand[p] # Null BY DEF TypeOK, Fifo!Free, Hands
<1>2. hand[p] \notin In(pool) BY <1>1 DEF Apart
<1>3. /\ Once(<<hand[p]>> \o pool)
      /\ In(<<hand[p]>> \o pool) = In(pool) \cup {hand[p]}
  BY <1>1, <1>2, InCons DEF Apart
<1>4. pool' = <<hand[p]>> \o pool /\ queue' = queue BY DEF Fifo!Free
<1>5. \A q \in Hands : hand'[q] = IF q = p THEN Null ELSE hand[q]
  BY DEF TypeOK, Fifo!Free, Hands
<1>6. Once(pool') /\ \A w \in Workers : Once(queue'[w]) BY <1>3, <1>4 DEF Apart
<1>7. In(pool)' = In(pool) \cup {hand[p]} BY <1>3, <1>4 DEF In
<1>8. \A w \in Workers : In(queue[w])' = In(queue[w]) BY <1>4 DEF In
<1>9. ASSUME NEW q \in Hands, hand'[q] # Null
      PROVE  /\ hand'[q] \notin In(pool)'
             /\ \A w \in Workers : hand'[q] \notin In(queue[w])
             /\ \A r \in Hands : hand'[r] = hand'[q] => r = q
  BY <1>1, <1>5, <1>7, <1>9 DEF Apart
<1>10. \A w \in Workers : In(queue[w]) \cap In(pool)' = {} BY <1>1, <1>7 DEF Apart
<1> QED BY <1>4, <1>6, <1>8, <1>9, <1>10 DEF Apart, In

LEMMA PushApart ==
  ASSUME TypeOK, Apart, NEW p \in Hands, NEW v \in Workers, Fifo!Push(p, v)
  PROVE  Apart'
<1> USE Constants
<1>1. queue[v] \in Seq(Items) /\ hand[p] \in Items /\ hand[p] # Null
  BY DEF TypeOK, Fifo!Push, Hands
<1>2. hand[p] \notin In(queue[v]) BY <1>1 DEF Apart
<1>3. /\ Once(Append(queue[v], hand[p]))
      /\ In(Append(queue[v], hand[p])) = In(queue[v]) \cup {hand[p]}
  BY <1>1, <1>2, InAppend DEF Apart
<1>4. pool' = pool /\ \A w \in Workers : queue'[w] = IF w = v THEN Append(queue[v], hand[p])
                                                     ELSE queue[w]
  BY DEF Fifo!Push, TypeOK
<1>5. \A q \in Hands : hand'[q] = IF q = p THEN Null ELSE hand[q]
  BY DEF TypeOK, Fifo!Push, Hands
<1>6. Once(pool') /\ \A w \in Workers : Once(queue'[w]) BY <1>3, <1>4 DEF Apart
<1>7. In(pool)' = In(pool) BY <1>4 DEF In
<1>8. \A w \in Workers : In(queue'[w]) = IF w = v THEN In(queue[v]) \cup {hand[p]}
                                         ELSE In(queue[w])
  BY <1>3, <1>4
<1>9. ASSUME NEW q \in Hands, hand'[q] # Null
      PROVE  /\ hand'[q] \notin In(pool)
             /\ \A w \in Workers : hand'[q] \notin In(queue'[w])
             /\ \A r \in Hands : hand'[r] = hand'[q] => r = q
  BY <1>1, <1>5, <1>8, <1>9 DEF Apart
<1>10. \A w \in Workers : In(queue'[w]) \cap In(pool) = {} BY <1>1, <1>8 DEF Apart
<1>11. \A u, w \in Workers : u # w => In(queue'[u]) \cap In(queue'[w]) = {}
  BY <1>1, <1>8 DEF Apart
<1> QED BY <1>6, <1>7, <1>9, <1>10, <1>11, <1>4 DEF Apart, In

LEMMA PopApart ==
  ASSUME TypeOK, Apart, NEW p \in Hands, NEW v \in Workers, Fifo!Pop(p, v)
  PROVE  Apart'
<1> USE Constants
<1>1. queue[v] \in Seq(Items) /\ queue[v] # << >> /\ hand[p] = Null BY DEF TypeOK, Fifo!Pop
<1>2. /\ Once(Tail(queue[v])) /\ In(Tail(queue[v])) = In(queue[v]) \ {Head(queue[v])}
      /\ Head(queue[v]) \in In(queue[v])
  BY <1>1, InTail DEF Apart
<1>3. pool' = pool /\ \A w \in Workers : queue'[w] = IF w = v THEN Tail(queue[v]) ELSE queue[w]
  BY DEF Fifo!Pop, TypeOK
<1>4. \A q \in Hands : hand'[q] = IF q = p THEN Head(queue[v]) ELSE hand[q]
  BY DEF TypeOK, Fifo!Pop, Hands
<1>5. Once(pool') /\ \A w \in Workers : Once(queue'[w]) BY <1>2, <1>3 DEF Apart
<1>6. In(pool)' = In(pool) BY <1>3 DEF In
<1>7. \A w \in Workers : In(queue'[w]) = IF w = v THEN In(queue[v]) \ {Head(queue[v])}
                                         ELSE In(queue[w])
  BY <1>2, <1>3
<1>8. ASSUME NEW q \in Hands, hand'[q] # Null
      PROVE  /\ hand'[q] \notin In(pool)
             /\ \A w \in Workers : hand'[q] \notin In(queue'[w])
             /\ \A r \in Hands : hand'[r] = hand'[q] => r = q
  <2>1. CASE q = p
    <3>1. hand'[q] = Head(queue[v]) BY <1>4, <2>1
    <3>2. hand'[q] \notin In(pool) BY <1>2, <3>1 DEF Apart
    <3>3. \A w \in Workers : hand'[q] \notin In(queue'[w]) BY <1>2, <1>7, <3>1 DEF Apart
    <3>4. \A r \in Hands : r # p => hand[r] # hand'[q] BY <1>2, <1>8, <3>1 DEF Apart
    <3> QED BY <1>4, <2>1, <3>2, <3>3, <3>4
  <2>2. CASE q # p BY <1>2, <1>4, <1>7, <1>8, <2>2 DEF Apart
  <2> QED BY <2>1, <2>2
<1>9. \A w \in Workers : In(queue'[w]) \cap In(pool) = {} BY <1>7 DEF Apart
<1>10. \A u, w \in Workers : u # w => In(queue'[u]) \cap In(queue'[w]) = {} BY <1>7 DEF Apart
<1> QED BY <1>3, <1>5, <1>6, <1>8, <1>9, <1>10 DEF Apart, In

\* An item nobody has any more is in no place.
LEMMA DropApart ==
  ASSUME TypeOK, Apart, NEW p \in Hands, hand' = [hand EXCEPT ![p] = Null],
         UNCHANGED <<pool, queue>>
  PROVE  Apart'
<1>1. \A q \in Hands : hand'[q] = IF q = p THEN Null ELSE hand[q] BY DEF TypeOK, Hands
<1> QED BY <1>1 DEF Apart, In, Once

LEMMA ApartStep == TypeOK /\ Apart /\ [Next]_vars => Apart'
<1> SUFFICES ASSUME TypeOK, Apart, [Next]_vars PROVE Apart' OBVIOUS
<1>1. ASSUME UNCHANGED fifo PROVE Apart' BY <1>1 DEF fifo, Apart, In, Once
<1>2. Acceptor \in Hands /\ \A w \in Workers : w \in Hands BY DEF Hands
<1>3. CASE Accept \/ Write \/ Crash BY <1>1, <1>3 DEF Accept, Write, Crash
<1>4. CASE Alloc BY <1>2, <1>4, AllocApart DEF Alloc
<1>5. CASE Push BY <1>2, <1>5, PushApart DEF Push
<1>6. ASSUME NEW w \in Workers, WorkerStep(w) PROVE Apart'
  <2>1. CASE Notify(w) \/ Process(w) BY <1>1, <2>1 DEF Notify, Process
  <2>2. CASE Pop(w)
    <3>1. pms_thread[w] \in Workers BY DEF TypeOK
    <3> QED BY <1>1, <1>2, <2>2, <3>1, PopApart DEF Pop
  <2>3. CASE NewConnect(w) \/ Timeout(w) BY <1>2, <2>3, FreeApart DEF NewConnect, Timeout
  <2>4. CASE Ignore(w) BY <1>2, <2>4, DropApart DEF Ignore
  <2> QED BY <1>6, <2>1, <2>2, <2>3, <2>4 DEF WorkerStep
<1>7. ASSUME NEW w \in Workers, ReadStep(w) PROVE Apart'
  BY <1>2, <1>7, FreeApart, DropApart DEF ReadStep, ReadNothing, ReadData, FreedOrNot
<1>8. ASSUME NEW d \in Fds, ClientCloses(d) PROVE Apart' BY <1>1, <1>8 DEF ClientCloses
<1>9. CASE UNCHANGED vars BY <1>1, <1>9 DEF vars
<1> QED BY <1>3, <1>4, <1>5, <1>6, <1>7, <1>8, <1>9 DEF Next, AcceptorStep

LEMMA ApartInit == Init => Apart
<1> SUFFICES ASSUME Init PROVE Apart OBVIOUS
<1>1. /\ pool = [k \in Items |-> k] /\ queue = [w \in Workers |-> << >>]
      /\ hand = [p \in Hands |-> Null]
  BY Constants DEF Init, Fifo!AInit, Hands
<1>2. \A w \in Workers : DOMAIN queue[w] = {} BY <1>1
<1> QED BY <1>1, <1>2 DEF Apart, Once, In

\* With the items apart, an item has no second place, and the pool has as many
\* members as positions.
LEMMA ApartCounts == TypeOK /\ Apart => OneHome
<1> SUFFICES ASSUME TypeOK, Apart PROVE OneHome OBVIOUS
<1> USE Constants
<1>1. ASSUME NEW k \in Items PROVE Cardinality(Places(k)) <= 1
  <2>1. DOMAIN hand = Hands BY DEF TypeOK, Hands
  <2>2. \A x \in Places(k) : \/ \E w \in Workers : x = <<"queue", w>> /\ k \in In(queue[w])
                             \/ \E p \in Hands : x = <<"hand", p>> /\ hand[p] = k
                             \/ x = <<"pool", 0>> /\ k \in In(pool)
    BY <2>1 DEF Places
  <2>3. ASSUME NEW x \in Places(k), NEW y \in Places(k) PROVE x = y
    <3>1. CASE \E w \in Workers : x = <<"queue", w>> /\ k \in In(queue[w])
      BY <2>2, <3>1 DEF Apart
    <3>2. CASE \E p \in Hands : x = <<"hand", p>> /\ hand[p] = k
      BY <2>2, <3>2 DEF Apart
    <3>3. CASE x = <<"pool", 0>> /\ k \in In(pool) BY <2>2, <3>3 DEF Apart
    <3> QED BY <2>2, <3>1, <3>2, <3>3
  <2>4. CASE Places(k) = {} BY <2>4, FS_EmptySet
  <2>5. CASE Places(k) # {}
    <3>1. PICK x : x \in Places(k) BY <2>5
    <3>2. Places(k) = {x} BY <2>3, <3>1
    <3>3. Cardinality({x}) = 1 BY FS_Singleton
    <3> QED BY <3>2, <3>3
  <2> QED BY <2>4, <2>5
<1>2. Cardinality(In(pool)) = Len(pool)
  <2>1. pool \in Seq(Items) /\ Len(pool) \in Nat /\ DOMAIN pool = 1 .. Len(pool) BY DEF TypeOK
  <2>2. pool \in [1 .. Len(pool) -> In(pool)]
    <3>1. pool = [n \in 1 .. Len(pool) |-> pool[n]] BY <2>1
    <3>2. \A n \in 1 .. Len(pool) : pool[n] \in In(pool) BY <2>1 DEF In
    <3> QED BY <3>1, <3>2
  <2>3. pool \in Bijection(1 .. Len(pool), In(pool))
    <3>1. pool \in Injection(1 .. Len(pool), In(pool))
      BY <2>1, <2>2 DEF Injection, IsInjective, Apart, Once
    <3>2. pool \in Surjection(1 .. Len(pool), In(pool)) BY <2>1, <2>2 DEF Surjection, In
    <3> QED BY <3>1, <3>2 DEF Bijection
  <2> QED BY <2>1, <2>3, FS_CountingElements DEF ExistsBijection
<1> QED BY <1>1, <1>2 DEF OneHome

(***************************************************************************)
(* Items and descriptors are neither shared nor lost track of, however the *)
(* acceptor and the workers interleave (ms_item_alloc, ms_item_free,       *)
(* ms_quene_push, ms_quene_pop, SAFE_CLOSE), for every number of them and  *)
(* whichever lines are repaired.                                           *)
(***************************************************************************)
THEOREM ItemsAndDescriptors == Spec => []Inv
<1>1. Init => FdInv BY Constants DEF Init, FdInv, FdsApart
<1>2. TypeOK /\ FdInv /\ Apart => Inv BY ApartCounts DEF Inv, FdInv
<1> QED BY <1>1, <1>2, ApartInit, ApartStep, TypeInit, TypeStep, FdStep, PTL DEF Spec
---------------------------------------------------------------------------
(***************************************************************************)
(* Bytes.  NoByteInVain compares two sums over the workers, as the sizes   *)
(* of two sets: a step that adds one to a number adds one member.          *)
(***************************************************************************)
Numbers == [Workers -> Nat]
Moved(f, g, v) == /\ g[v] = f[v] + 1
                  /\ \A w \in Workers : w # v => g[w] = f[w]

LEMMA UnitsMoved ==
  ASSUME NEW f \in Numbers, NEW g \in Numbers, NEW v \in Workers, Moved(f, g, v)
  PROVE  /\ Units(g) = Units(f) \cup {<<v, g[v]>>} /\ <<v, g[v]>> \notin Units(f)
         /\ Units(f) = Units(g) \ {<<v, g[v]>>}
<1> DEFINE u == <<v, g[v]>>
<1>1. \A h \in Numbers : \A x : x \in Units(h) <=> \E w \in Workers : \E n \in 1 .. h[w] : x = <<w, n>>
  <2> SUFFICES ASSUME NEW h \in Numbers, NEW x
               PROVE  x \in Units(h) <=> \E w \in Workers : \E n \in 1 .. h[w] : x = <<w, n>>
    OBVIOUS
  <2>1. DOMAIN h = Workers BY DEF Numbers
  <2>2. x \in Units(h) <=> \E w \in Workers : x \in {w} \X (1 .. h[w]) BY <2>1 DEF Units
  <2> QED BY <2>2
<1>2. f[v] \in Nat /\ g[v] = f[v] + 1 BY DEF Numbers, Moved
<1>3. ASSUME NEW w \in Workers, NEW n
      PROVE  n \in 1 .. g[w] <=> n \in 1 .. f[w] \/ (w = v /\ n = g[v])
  <2>1. CASE w = v BY <1>2, <2>1
  <2>2. CASE w # v BY <2>2 DEF Moved
  <2> QED BY <2>1, <2>2
<1>4. \A x : x \in Units(g) <=> x \in Units(f) \/ x = u
  <2>1. ASSUME NEW x \in Units(g) PROVE x \in Units(f) \/ x = u
    <3>1. PICK w \in Workers : \E n \in 1 .. g[w] : x = <<w, n>> BY <1>1
    <3> QED BY <1>1, <1>3, <3>1
  <2>2. ASSUME NEW x \in Units(f) PROVE x \in Units(g)
    <3>1. PICK w \in Workers : \E n \in 1 .. f[w] : x = <<w, n>> BY <1>1
    <3> QED BY <1>1, <1>3, <3>1
  <2>3. u \in Units(g)
    <3>1. g[v] \in 1 .. g[v] BY <1>2
    <3> QED BY <1>1, <3>1
  <2> QED BY <2>1, <2>2, <2>3
<1>5. u \notin Units(f)
  <2> SUFFICES ASSUME u \in Units(f) PROVE FALSE OBVIOUS
  <2>1. PICK w \in Workers : \E n \in 1 .. f[w] : u = <<w, n>> BY <1>1
  <2>2. w = v /\ g[v] \in 1 .. f[v] BY <2>1
  <2> QED BY <1>2, <2>2
<1> QED BY <1>4, <1>5

\* One more, and one less.
LEMMA UnitsUp ==
  ASSUME NEW f \in Numbers, NEW g \in Numbers, NEW v \in Workers, Moved(f, g, v),
         IsFiniteSet(Units(f))
  PROVE  IsFiniteSet(Units(g)) /\ Cardinality(Units(g)) = Cardinality(Units(f)) + 1
<1>1. Units(g) = Units(f) \cup {<<v, g[v]>>} /\ <<v, g[v]>> \notin Units(f) BY UnitsMoved
<1> QED BY <1>1, FS_AddElement

LEMMA UnitsDown ==
  ASSUME NEW f \in Numbers, NEW g \in Numbers, NEW v \in Workers, Moved(f, g, v),
         IsFiniteSet(Units(g))
  PROVE  IsFiniteSet(Units(f)) /\ Cardinality(Units(f)) = Cardinality(Units(g)) - 1
<1>1. Units(f) = Units(g) \ {<<v, g[v]>>} /\ <<v, g[v]>> \in Units(g) BY UnitsMoved
<1> QED BY <1>1, FS_RemoveElement

VainInv == /\ apc = "write" => ithread_id \in Workers
           /\ apc # "crashed" =>
                /\ IsFiniteSet(Units(Queued)) /\ IsFiniteSet(Units(Owed))
                /\ Cardinality(Units(Queued)) >= Cardinality(Units(Owed))

LEMMA NumbersType == TypeOK => Queued \in Numbers /\ Owed \in Numbers
<1> SUFFICES ASSUME TypeOK, NEW w \in Workers
             PROVE  Len(queue[w]) \in Nat /\ Woken(w) + Coming(w) \in Nat
  BY DEF Queued, Owed, Numbers
<1>1. Woken(w) \in Nat /\ Coming(w) \in {0, 1} /\ Len(queue[w]) \in Nat BY Counted
<1> QED BY <1>1

\* A step that moves nothing: it takes nothing from the queues, and what it
\* writes to a pipe or takes from one was owed before.
LEMMA VainFrame ==
  ASSUME TypeOK, VainInv, UNCHANGED queue, apc # "crashed",
         apc' = "write" => ithread_id' \in Workers,
         \A w \in Workers : Woken(w)' + Coming(w)' = Woken(w) + Coming(w)
  PROVE  VainInv'
<1>1. Queued' = Queued BY DEF Queued
<1>2. Owed' = Owed BY DEF Owed
<1>3. Units(Queued)' = Units(Queued) /\ Units(Owed)' = Units(Owed) BY <1>1, <1>2 DEF Units
<1> QED BY <1>3 DEF VainInv

\* A worker that comes back to its loop, or goes on to the item.
LEMMA VainBack ==
  ASSUME TypeOK, VainInv, NEW w \in Workers,
         UNCHANGED <<queue, pipe, apc, ithread_id>>,
         wpc[w] \in {"dispatch", "read"}, wpc' = [wpc EXCEPT ![w] = "loop"] \/ wpc' = [wpc EXCEPT ![w] = "read"]
  PROVE  VainInv'
<1>1. CASE apc = "crashed" BY <1>1 DEF VainInv
<1>2. CASE apc # "crashed"
  <2>1. \A v \in Workers : Woken(v)' = Woken(v) /\ Coming(v)' = Coming(v)
    BY DEF Woken, Coming, TypeOK
  <2>2. apc' = "write" => ithread_id' \in Workers BY DEF VainInv
  <2> QED BY <1>2, <2>1, <2>2, VainFrame
<1> QED BY <1>1, <1>2

LEMMA VainStep == TypeOK /\ TypeOK' /\ VainInv /\ [Next]_vars => VainInv'
<1> SUFFICES ASSUME TypeOK, TypeOK', VainInv, [Next]_vars PROVE VainInv' OBVIOUS
<1> USE Constants DEF fifo, accvs
<1>0. /\ \A w \in Workers : pipe[w] \in Nat /\ Len(queue[w]) \in Nat /\ queue[w] \in Seq(Items)
      /\ Queued \in Numbers /\ Owed \in Numbers /\ Queued' \in Numbers /\ Owed' \in Numbers
  <2>1. (TypeOK => Queued \in Numbers /\ Owed \in Numbers)' BY NumbersType, PTL
  <2> QED BY <2>1, NumbersType, Counted DEF TypeOK, Numbers
<1>1. CASE Accept
  <2>1. \A w \in Workers : Woken(w)' + Coming(w)' = Woken(w) + Coming(w)
    BY <1>1 DEF Accept, Woken, Coming
  <2> QED BY <1>1, <2>1, VainFrame DEF Accept
<1>2. CASE Alloc
  <2>1. \A w \in Workers : Woken(w)' + Coming(w)' = Woken(w) + Coming(w)
    BY <1>2 DEF Alloc, Woken, Coming
  <2> QED BY <1>2, <2>1, VainFrame DEF Alloc, Fifo!Alloc
<1>3. CASE Push
  <2>1. ithread_id \in Workers /\ hand[Acceptor] \in Items BY <1>3 DEF Push, Fifo!Push, TypeOK
  <2>2. \A w \in Workers : Len(queue'[w]) = IF w = ithread_id THEN Len(queue[w]) + 1
                                             ELSE Len(queue[w])
    BY <1>3, <2>1 DEF Push, Fifo!Push, TypeOK
  <2>3. Moved(Queued, Queued', ithread_id) BY <2>1, <2>2 DEF Moved, Queued
  <2>4. \A w \in Workers : Woken(w)' = Woken(w) /\ Coming(w) = 0
                            /\ Coming(w)' = IF w = ithread_id THEN 1 ELSE 0
    BY <1>3 DEF Push, Woken, Coming
  <2>5. \A w \in Workers : Woken(w) \in Nat BY <1>0 DEF Woken
  <2>6. Moved(Owed, Owed', ithread_id) BY <2>1, <2>4, <2>5 DEF Moved, Owed
  <2>7. apc # "crashed" BY <1>3 DEF Push
  <2>8. /\ IsFiniteSet(Units(Queued')) /\ IsFiniteSet(Units(Owed'))
        /\ Cardinality(Units(Queued')) = Cardinality(Units(Queued)) + 1
        /\ Cardinality(Units(Owed')) = Cardinality(Units(Owed)) + 1
    BY <1>0, <2>1, <2>3, <2>6, <2>7, UnitsUp DEF VainInv
  <2>9. Cardinality(Units(Queued)) \in Nat /\ Cardinality(Units(Owed)) \in Nat
    BY <2>7, FS_CardinalityType DEF VainInv
  <2>10. Cardinality(Units(Queued')) >= Cardinality(Units(Owed')) BY <2>7, <2>8, <2>9 DEF VainInv
  <2> QED BY <1>3, <2>8, <2>10 DEF Push, VainInv, Units
<1>4. CASE Write
  <2>1. ithread_id \in Workers BY <1>4 DEF Write, VainInv
  <2>2. \A w \in Workers : Woken(w)' = IF w = ithread_id THEN Woken(w) + 1 ELSE Woken(w)
    BY <1>0, <1>4 DEF Write, Woken, TypeOK
  <2>3. \A w \in Workers : Coming(w) = (IF w = ithread_id THEN 1 ELSE 0) /\ Coming(w)' = 0
    BY <1>4 DEF Write, Coming
  <2>4. \A w \in Workers : Woken(w) \in Nat BY <1>0 DEF Woken
  <2>5. \A w \in Workers : Woken(w)' + Coming(w)' = Woken(w) + Coming(w)
    BY <2>2, <2>3, <2>4
  <2> QED BY <1>4, <2>5, VainFrame DEF Write
<1>5. CASE Crash BY <1>5 DEF Crash, VainInv
<1>6. ASSUME NEW w \in Workers, WorkerStep(w) PROVE VainInv'
  <2>1. CASE Notify(w)
    <3>1. CASE apc = "crashed" BY <2>1, <3>1 DEF Notify, VainInv
    <3>2. CASE apc # "crashed"
      <4>1. \A v \in Workers : Woken(v)' + Coming(v)' = Woken(v) + Coming(v)
        BY <1>0, <2>1 DEF Notify, Woken, Coming, TypeOK
      <4>2. apc' = "write" => ithread_id' \in Workers BY <2>1 DEF Notify, VainInv
      <4> QED BY <2>1, <3>2, <4>1, <4>2, VainFrame DEF Notify
    <3> QED BY <3>1, <3>2
  <2>2. CASE Pop(w)
    <3>1. CASE apc = "crashed" BY <2>2, <3>1 DEF Pop, VainInv
    <3>2. CASE apc # "crashed"
      <4>1. wpc[w] = "pop" /\ \E to \in {"loop", "dispatch"} : wpc' = [wpc EXCEPT ![w] = to]
        BY <2>2 DEF Pop
      <4>2. UNCHANGED <<pipe, apc, ithread_id>> BY <2>2 DEF Pop
      <4>3. \A v \in Workers : /\ Woken(v) = Woken(v)' + IF v = w THEN 1 ELSE 0
                               /\ Coming(v)' = Coming(v)
        BY SMTT(30), <1>0, <4>1, <4>2 DEF Woken, Coming, TypeOK
      <4>4. \A v \in Workers : Woken(v)' \in Nat /\ Coming(v) \in {0, 1}
        BY <1>0, <4>2 DEF Woken, Coming
      <4>5. Moved(Owed', Owed, w) BY <4>3, <4>4 DEF Moved, Owed
      <4>6. /\ IsFiniteSet(Units(Owed'))
            /\ Cardinality(Units(Owed')) = Cardinality(Units(Owed)) - 1
        BY <1>0, <3>2, <4>5, UnitsDown DEF VainInv
      <4>7. Cardinality(Units(Queued)) \in Nat /\ Cardinality(Units(Owed)) \in Nat
        BY <3>2, FS_CardinalityType DEF VainInv
      <4>8. /\ IsFiniteSet(Units(Queued'))
            /\ Cardinality(Units(Queued')) >= Cardinality(Units(Queued)) - 1
        <5>1. CASE queue[pms_thread[w]] = << >>
          <6>1. Queued' = Queued BY <2>2, <5>1 DEF Pop, Queued
          <6> QED BY <3>2, <4>7, <6>1 DEF VainInv
        <5>2. CASE queue[pms_thread[w]] # << >>
          <6> DEFINE t == pms_thread[w]
          <6>1. t \in Workers /\ queue[t] \in Seq(Items) /\ queue[t] # << >>
            BY <1>0, <5>2 DEF TypeOK
          <6>2. queue' = [queue EXCEPT ![t] = Tail(queue[t])] BY <2>2, <5>2 DEF Pop, Fifo!Pop
          <6> HIDE DEF t
          <6>3. Len(queue[t]) = Len(Tail(queue[t])) + 1 BY <6>1
          <6>4. \A v \in Workers : Len(queue[v]) = Len(queue'[v]) + IF v = t THEN 1 ELSE 0
            BY <1>0, <6>1, <6>2, <6>3 DEF TypeOK
          <6>5. Moved(Queued', Queued, t)
            BY <1>0, <6>1, <6>2, <6>3 DEF Moved, Queued, TypeOK
          <6> QED BY <1>0, <3>2, <4>7, <6>1, <6>5, UnitsDown DEF VainInv
        <5> QED BY <5>1, <5>2
      <4>9. Cardinality(Units(Queued')) \in Nat BY <4>8, FS_CardinalityType
      <4>10. Cardinality(Units(Queued')) >= Cardinality(Units(Owed'))
        BY <3>2, <4>6, <4>7, <4>8, <4>9 DEF VainInv
      <4> QED BY <4>2, <4>6, <4>8, <4>10 DEF VainInv, Units
    <3> QED BY <3>1, <3>2
  <2>3. CASE NewConnect(w) BY <2>3, FreeType, VainBack DEF NewConnect
  <2>4. CASE Timeout(w) BY <2>4, FreeType, VainBack DEF Timeout
  <2>5. CASE Process(w) BY <2>5, VainBack DEF Process
  <2>6. CASE Ignore(w) BY <2>6, VainBack DEF Ignore
  <2> QED BY <1>6, <2>1, <2>2, <2>3, <2>4, <2>5, <2>6 DEF WorkerStep
<1>7. ASSUME NEW w \in Workers, ReadStep(w) PROVE VainInv'
  <2>1. CASE ReadNothing(w) BY <2>1, FreeType, VainBack DEF ReadNothing, FreedOrNot
  <2>2. CASE ReadData(w) BY <2>2, FreeType, VainBack DEF ReadData, FreedOrNot
  <2> QED BY <1>7, <2>1, <2>2 DEF ReadStep
<1>8. CASE (\E d \in Fds : ClientCloses(d)) \/ UNCHANGED vars
  <2>1. UNCHANGED <<queue, pipe, wpc, apc, ithread_id>> BY <1>8 DEF ClientCloses, vars
  <2>2. Queued' = Queued BY <2>1 DEF Queued
  <2>3. Owed' = Owed BY <2>1 DEF Owed, Woken, Coming
  <2> QED BY <2>1, <2>2, <2>3 DEF VainInv, Units
<1> QED BY <1>1, <1>2, <1>3, <1>4, <1>5, <1>6, <1>7, <1>8 DEF Next, AcceptorStep

LEMMA VainInit == Init => VainInv
<1> SUFFICES ASSUME Init PROVE VainInv OBVIOUS
<1>1. \A w \in Workers : Len(queue[w]) = 0 /\ Woken(w) = 0 /\ Coming(w) = 0
  BY DEF Init, Fifo!AInit, Woken, Coming
<1>2. Units(Queued) = {}
  <2>1. \A w \in Workers : 1 .. Queued[w] = {} BY <1>1 DEF Queued
  <2> QED BY <2>1 DEF Units, Queued
<1>3. Units(Owed) = {}
  <2>1. \A w \in Workers : 1 .. Owed[w] = {} BY <1>1 DEF Owed
  <2> QED BY <2>1 DEF Units, Owed
<1>4. apc = "wait" BY DEF Init
<1>5. Cardinality(Units(Queued)) = 0 /\ Cardinality(Units(Owed)) = 0 BY <1>2, <1>3, FS_EmptySet
<1>6. IsFiniteSet(Units(Queued)) /\ IsFiniteSet(Units(Owed)) BY <1>2, <1>3, FS_EmptySet
<1> QED BY <1>4, <1>5, <1>6 DEF VainInv

(***************************************************************************)
(* No byte is written in vain, even with both lines as they are            *)
(* (co_message.c:147-148, 339-348, 372): a worker that pops from the queue *)
(* of another leaves its own item to a byte that is still to be read.      *)
(***************************************************************************)
THEOREM BytesMatchItems == Spec => []NoByteInVain
<1>1. VainInv => NoByteInVain BY DEF VainInv, NoByteInVain
<1> QED BY <1>1, VainInit, VainStep, TypeInit, TypeStep, PTL DEF Spec

---------------------------------------------------------------------------
(* The server: MsBus and the start of its threads                           *)

LEMMA StartConstants ==
  /\ Threads = 1 .. NumWorkers /\ Start!Threads = Threads /\ Start!Null = 0 /\ Start!Proc = 1
  /\ Start!Values = Threads \cup {0, Garbage}
  /\ Garbage \notin Threads \cup {0, 1, Unread} /\ Unread \notin Threads \cup {0, 1}
BY Constants, MsServerAssumption
   DEF Threads, Start!Threads, Start!Null, Start!Proc, Start!Values, Start!CThreadConstants

---------------------------------------------------------------------------
(* cpthread_creat and start_routine                                        *)

\* A thread is created by the call it is the number of, and until the next one
\* has cleared it, its parameter is what that call has put there.
StartInv ==
  /\ Start!TypeOK
  /\ pc \in {"params", "func", "create", "return"} => i \in Threads
  /\ pc \in {"func", "create", "return"} => param = i
  /\ pc # "ended" =>
       /\ param \in Threads => param >= i - 1
       /\ \A t \in Threads :
            /\ state[t] # "none" => t < i \/ (t = i /\ pc = "return")
            /\ arg[t] # Unread => state[t] # "none"
            /\ arg[t] # Unread /\ t = i => arg[t] = t
            /\ arg[t] \in Threads => arg[t] >= t
  /\ pc = "ended" => \A t \in Threads : state[t] = "ended"

LEMMA StartInit == Start!Init => StartInv
BY StartConstants, Constants DEF Start!Init, StartInv, Start!TypeOK

LEMMA StartParams == StartInv => Start!Inv
BY StartConstants DEF StartInv, Start!Inv, Start!ParamsInTime

\* What the main thread does to its frame.
LEMMA FrameStep ==
  ASSUME "argc" \in StartRepaired, StartInv,
         Start!Clear \/ Start!Params \/ Start!Func \/ Start!Create \/ Start!Return
  PROVE  StartInv'
<1> USE StartConstants, Constants DEF StartInv, Start!TypeOK, Start!thread
<1>1. CASE Start!Clear BY <1>1 DEF Start!Clear
<1>2. CASE Start!Params BY <1>2 DEF Start!Params
<1>3. CASE Start!Func BY <1>3 DEF Start!Func
<1>4. CASE Start!Create BY <1>4 DEF Start!Create
<1>5. CASE Start!Return
  <2>1. i + 1 \in 1 .. NumWorkers + 1 /\ i' = i + 1 /\ pc' = "clear"
    BY <1>5 DEF Start!Return
  <2>2. param' \in {i, Garbage} /\ start_func' \in {start_func, Garbage}
    BY <1>5 DEF Start!Return
  <2>3. UNCHANGED <<state, func, arg>> BY <1>5 DEF Start!Return
  <2>4. \A t \in Threads : state[t] # "none" => t < i + 1 /\ t # i + 1
    BY <1>5 DEF Start!Return
  <2>5. Start!TypeOK' BY <2>1, <2>2, <2>3
  <2>6. param' \in Threads => param' = i /\ param' >= (i + 1) - 1 BY <2>1, <2>2
  <2>7. pc # "ended" /\ \A t \in Threads : /\ arg[t] # Unread => state[t] # "none"
                                           /\ arg[t] \in Threads => arg[t] >= t
    BY <1>5 DEF Start!Return
  <2> HIDE DEF Start!TypeOK
  <2> QED BY <2>1, <2>3, <2>4, <2>5, <2>6, <2>7
<1> QED BY <1>1, <1>2, <1>3, <1>4, <1>5

\* What a new thread does.
LEMMA ThreadStep ==
  ASSUME StartInv, NEW t \in Threads,
         Start!ReadFunc(t) \/ Start!ReadParam(t) \/ Start!Call(t) \/ Start!Crash(t)
  PROVE  StartInv'
<1> USE StartConstants, Constants DEF StartInv, Start!TypeOK
<1>1. CASE Start!ReadFunc(t) BY <1>1 DEF Start!ReadFunc
<1>2. CASE Start!ReadParam(t)
  <2>1. pc # "ended" /\ arg' = [arg EXCEPT ![t] = param] BY <1>2 DEF Start!ReadParam
  <2>2. param \in Threads => param >= t BY <1>2, <2>1 DEF Start!ReadParam
  <2>3. t = i => param = t BY <1>2, <2>1 DEF Start!ReadParam
  <2>4. \A u \in Threads : /\ arg'[u] \in Threads => arg'[u] >= u
                           /\ arg'[u] # Unread /\ u = i => arg'[u] = u
    BY <2>1, <2>2, <2>3
  <2> QED BY <1>2, <2>1, <2>4 DEF Start!ReadParam
<1>3. CASE Start!Call(t) BY <1>3 DEF Start!Call
<1>4. CASE Start!Crash(t) BY <1>4 DEF Start!Crash
<1> QED BY <1>1, <1>2, <1>3, <1>4

\* The process ends.
LEMMA AbortStep ==
  ASSUME StartInv, NEW t \in Threads, Abort(t)
  PROVE  StartInv'
BY StartConstants, Constants DEF StartInv, Start!TypeOK, Abort

---------------------------------------------------------------------------
(* The event bases                                                         *)

LoopInv ==
  /\ pbase \in [Threads -> {"new", "busy", "spoilt"}]
  /\ OneLoop

LEMMA HereFinite ==
  ASSUME NEW w PROVE IsFiniteSet(Here(w))
<1>1. IsFiniteSet(Threads) BY StartConstants, Constants, FS_Interval
<1>2. Here(w) \in SUBSET Threads BY DEF Here
<1> QED BY <1>1, <1>2, FS_Subset

\* A step in which no thread enters or leaves a loop.
LEMMA LoopFrame ==
  ASSUME LoopInv, UNCHANGED <<pbase, arg>>, pc' # "ended" => pc # "ended",
         pc' # "ended" => \A t \in Threads : state'[t] = "run" <=> state[t] = "run"
  PROVE  LoopInv'
<1>1. CASE pc' = "ended" BY <1>1 DEF LoopInv, OneLoop
<1>2. CASE pc' # "ended"
  <2>1. \A w : Here(w)' = Here(w) BY <1>2 DEF Here
  <2> QED BY <1>2, <2>1 DEF LoopInv, OneLoop
<1> QED BY <1>1, <1>2

\* Thread t enters the loop of the base it was given, or finds it in use.
LEMMA LoopEnter ==
  ASSUME StartInv, LoopInv, NEW t \in Threads, Enter(t) \/ Reenter(t)
  PROVE  LoopInv'
<1> DEFINE w == arg[t]
<1> USE StartConstants
<1>1. /\ w \in Threads /\ state[t] = "born" /\ state' = [state EXCEPT ![t] = "run"]
      /\ UNCHANGED <<pc, arg>> /\ w # Unread
  BY DEF Enter, Reenter, Start!Call
<1>2. pc # "ended" BY <1>1 DEF StartInv
<1>3. t <= w /\ w \in Nat /\ t \in Nat BY <1>1, <1>2, Constants DEF StartInv
<1>4. state \in [Threads -> {"none", "born", "run", "ended"}] BY DEF StartInv, Start!TypeOK
<1>5. \A v \in Threads : Here(v)' = IF v = w THEN Here(v) \cup {t} ELSE Here(v)
  BY <1>1, <1>4 DEF Here
<1>6. t \notin Here(w) BY <1>1 DEF Here
<1>7. Cardinality(Here(w) \cup {t}) = Cardinality(Here(w)) + 1
  BY <1>6, HereFinite, FS_AddElement
<1>8. \/ pbase[w] = "new" /\ pbase' = [pbase EXCEPT ![w] = "busy"]
      \/ pbase[w] = "busy" /\ pbase' = [pbase EXCEPT ![w] = "spoilt"]
  BY DEF Enter, Reenter
<1> HIDE DEF w
<1>9. pbase' \in [Threads -> {"new", "busy", "spoilt"}] BY <1>8 DEF LoopInv
<1>10. ASSUME NEW v \in Threads
       PROVE  /\ Cardinality(Here(v)') = CASE pbase'[v] = "new" -> 0
                                           [] pbase'[v] = "busy" -> 1 [] OTHER -> 2
              /\ \A u \in Here(v)' : u <= v
  <2>1. CASE v = w
    <3>1. Here(v)' = Here(w) \cup {t} BY <1>5, <2>1
    <3>2. \A u \in Here(w) : u <= w BY <1>1, <1>2 DEF LoopInv, OneLoop
    <3>3. \/ Cardinality(Here(w)) = 0 /\ pbase'[w] = "busy"
          \/ Cardinality(Here(w)) = 1 /\ pbase'[w] = "spoilt"
      BY <1>1, <1>2, <1>8 DEF LoopInv, OneLoop
    <3> QED BY <1>3, <1>7, <2>1, <3>1, <3>2, <3>3
  <2>2. CASE v # w
    <3>1. Here(v)' = Here(v) /\ pbase'[v] = pbase[v] BY <1>5, <1>8, <2>2 DEF LoopInv
    <3> QED BY <1>2, <3>1 DEF LoopInv, OneLoop
  <2> QED BY <2>1, <2>2
<1> QED BY <1>9, <1>10 DEF LoopInv, OneLoop

---------------------------------------------------------------------------
(* The whole server                                                        *)

BusInv == TypeOK /\ FdInv /\ Apart /\ VainInv

AllInv == BusInv /\ StartInv /\ LoopInv

\* No step of the server does anything to the bus that MsBus does not do.
LEMMA StepsOfBus == [ServerNext]_all => [Next]_vars
BY DEF ServerNext, all, Starting, Listen, Client, Enter, Reenter, Abort, Work, Next

LEMMA BusStep == BusInv /\ [Next]_vars => BusInv'
BY TypeStep, FdStep, ApartStep, VainStep DEF BusInv

LEMMA AllStep ==
  ASSUME "argc" \in StartRepaired, AllInv, [ServerNext]_all
  PROVE  AllInv'
<1> USE DEF AllInv
<1>1. BusInv' BY StepsOfBus, BusStep
<1>2. CASE UNCHANGED <<start, pbase>>
  <2>1. StartInv' BY <1>2 DEF start, StartInv, Start!TypeOK
  <2>2. LoopInv' BY <1>2, LoopFrame DEF start
  <2> QED BY <1>1, <2>1, <2>2
<1>3. CASE Starting
  <2>1. StartInv' BY <1>3, FrameStep, ThreadStep DEF Starting
  <2>2. CASE Start!Clear \/ Start!Params \/ Start!Func \/ Start!Return
    <3>1. UNCHANGED <<state, arg>> /\ pc # "ended"
      BY <2>2 DEF Start!Clear, Start!Params, Start!Func, Start!Return, Start!thread
    <3> QED BY <1>1, <1>3, <2>1, <3>1, LoopFrame DEF Starting
  <2>3. CASE Start!Create
    <3>1. state[i] = "none" /\ i \in Threads /\ pc # "ended"
      BY <2>3, StartConstants, Constants DEF Start!Create, StartInv
    <3>2. \A t \in Threads : state'[t] = "run" <=> state[t] = "run"
      BY <2>3, <3>1, StartConstants DEF Start!Create, StartInv, Start!TypeOK
    <3>3. UNCHANGED arg BY <2>3 DEF Start!Create
    <3> QED BY <1>1, <1>3, <2>1, <3>1, <3>2, <3>3, LoopFrame DEF Starting
  <2>4. ASSUME NEW t \in Threads, Start!ReadFunc(t) \/ Start!Crash(t) PROVE LoopInv'
    <3>1. UNCHANGED <<arg, pbase>> /\ (pc' # "ended" => UNCHANGED <<pc, state>>)
      BY <1>3, <2>4 DEF Start!ReadFunc, Start!Crash, Starting
    <3> QED BY <3>1, LoopFrame
  <2>5. ASSUME NEW t \in Threads, Start!ReadParam(t) PROVE LoopInv'
    <3>1. UNCHANGED <<pc, state, pbase>> /\ state[t] = "born"
      BY <1>3, <2>5 DEF Start!ReadParam, Starting
    <3>2. \A u \in Threads : u # t => arg'[u] = arg[u]
      BY <2>5, StartConstants DEF Start!ReadParam, StartInv, Start!TypeOK
    <3>3. \A w : Here(w)' = Here(w) BY <3>1, <3>2 DEF Here
    <3> QED BY <3>1, <3>3 DEF LoopInv, OneLoop
  <2> QED BY <1>1, <1>3, <2>1, <2>2, <2>3, <2>4, <2>5 DEF Starting
<1>4. ASSUME NEW t \in Threads, Enter(t) \/ Reenter(t) PROVE AllInv'
  <2>1. StartInv' BY <1>4, ThreadStep DEF Enter, Reenter
  <2> QED BY <1>1, <1>4, <2>1, LoopEnter
<1>5. ASSUME NEW t \in Threads, Abort(t) PROVE AllInv'
  <2>1. UNCHANGED <<pbase, arg>> /\ pc' = "ended" BY <1>5 DEF Abort
  <2> QED BY <1>1, <1>5, <2>1, AbortStep, LoopFrame
<1> QED BY <1>2, <1>3, <1>4, <1>5 DEF ServerNext, all, Listen, Client, Work

LEMMA AllInit == ServerInit => AllInv
<1> SUFFICES ASSUME ServerInit PROVE AllInv OBVIOUS
<1>1. FdInv BY Constants DEF ServerInit, Init, FdInv, FdsApart
<1>2. BusInv BY <1>1, TypeInit, ApartInit, VainInit DEF ServerInit, BusInv
<1>3. StartInv BY StartInit DEF ServerInit
<1>4. \A w \in Threads : Here(w) = {} BY StartConstants DEF ServerInit, Start!Init, Here
<1>5. LoopInv BY <1>4, FS_EmptySet DEF ServerInit, LoopInv, OneLoop
<1> QED BY <1>2, <1>3, <1>5 DEF AllInv

(***************************************************************************)
(* However late the threads start and whatever parameter they then find    *)
(* (cpthread_creat, start_routine, message_thread_proc): a base that is    *)
(* run has one loop, no item and no descriptor is shared, and no byte is   *)
(* written in vain; for every number of workers, items and descriptors,    *)
(* and whichever lines of co_message.c are repaired.                       *)
(***************************************************************************)
THEOREM ServerIsSafe ==
  ASSUME "argc" \in StartRepaired
  PROVE  ServerSpec => []ServerInv
<1>1. AllInv /\ [ServerNext]_all => AllInv' BY AllStep
<1>2. AllInv => ServerInv
  BY StartParams, ApartCounts
  DEF AllInv, BusInv, LoopInv, ServerInv, Inv, FdInv, VainInv, NoByteInVain
<1> QED BY <1>1, <1>2, AllInit, PTL DEF ServerSpec
=============================================================================
