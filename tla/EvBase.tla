------------------------------- MODULE EvBase -------------------------------
(***************************************************************************)
(* The state that the lock th_base_lock of a libevent event base protects  *)
(* (net/libevent/src/event.c), and the functions that change it with the   *)
(* lock held.  A base is a record b with the fields of struct event_base   *)
(* and, per event, those of struct event.  Each function is an operator    *)
(* from a base to a base; need says whether EVBASE_NEED_NOTIFY holds for   *)
(* the caller.  EvLoop has the threads that call them.                     *)
(*                                                                         *)
(* Each event with a descriptor is the only one of its descriptor: EvMap   *)
(* has the map from descriptors to events.  Signal events and finalizers   *)
(* are left out, and there is one common timeout.                          *)
(***************************************************************************)
EXTENDS EvHeap, FiniteSets, SequencesExt

CONSTANTS Users,         \* events of the program
          Io,            \* those of them with a descriptor
          Persist,       \* those with EV_PERSIST
          Deferred,      \* those that are deferred callbacks (EV_CLOSURE_CB_SELF)
          NumPri,        \* of event_base_priority_init
          Pri,           \* [Users -> priority], 0 is the most important
          CommonDurs,    \* the duration of event_base_init_common_timeout
          MaxDeferreds   \* MAX_DEFERREDS_QUEUED

CONSTANTS th_notify,     \* the internal event that wakes the loop
          timeout_event, \* the internal event of the common timeouts
          None           \* NULL

Prios    == 0 .. NumPri - 1
Internal == {th_notify, timeout_event}
Evs      == Users \cup Internal
IoEvs    == Io \cup {th_notify}

EvBaseAssumption ==
  /\ IsFiniteSet(Users) /\ Users \cap Internal = {} /\ None \notin Evs
  /\ Io \subseteq Users /\ Persist \subseteq Users /\ Deferred \subseteq Users
  /\ Deferred \cap (Io \cup Persist) = {}
  /\ NumPri \in Nat \ {0} /\ Pri \in [Users -> Prios]
  /\ CommonDurs \subseteq Nat \ {0} /\ \A c, d \in CommonDurs : c = d
  /\ MaxDeferreds \in Nat /\ th_notify # timeout_event

Prio(e)   == IF e \in Internal THEN 0 ELSE Pri[e]
NoTimeout == 0

\* event_base_new: only the event of the notification is added.
NewBase ==
  [flags       |-> [e \in Evs |-> IF e = th_notify THEN {"INSERTED"} ELSE {}],
   ev_res      |-> [e \in Evs |-> {}],
   ev_timeout  |-> [e \in Evs |-> 0],
   common      |-> {},                          \* whose ev_timeout has the common bits
   ev_io_timeout |-> [e \in Evs |-> NoTimeout],
   timeheap    |-> << >>,
   common_list |-> << >>,
   activequeues |-> [p \in Prios |-> << >>],
   active_later_queue |-> << >>,
   n_deferreds_queued |-> 0,
   event_break |-> FALSE, event_gotterm |-> FALSE, event_continue |-> FALSE,
   event_running_priority |-> -1,
   current_event |-> None, current_event_waiters |-> 0,
   is_notify_pending |-> FALSE,
   notify_fd   |-> FALSE,                       \* something to read from it
   tv_cache    |-> 0]

Has(b, e, flag) == flag \in b.flags[e]
Active(b, e)    == b.flags[e] \cap {"ACTIVE", "ACTIVE_LATER"} # {}
NumActive(b)    == Cardinality({e \in Evs : Active(b, e)})
\* event_haveevents or N_ACTIVE_CALLBACKS: internal events count while they are active.
HasEvents(b)    == (\E e \in Users : b.flags[e] # {}) \/ NumActive(b) > 0

---------------------------------------------------------------------------
(* The queues                                                              *)

Set(b, e, flag)   == [b EXCEPT !.flags[e] = @ \cup {flag}]
Clear(b, e, flag) == [b EXCEPT !.flags[e] = @ \ {flag}]

\* TAILQ_REMOVE
Unlink(q, e) == RemoveAt(q, CHOOSE k \in DOMAIN q : q[k] = e)

QueueInsertActive(b, e) ==
  IF Has(b, e, "ACTIVE") THEN b
  ELSE [Set(b, e, "ACTIVE") EXCEPT !.activequeues[Prio(e)] = Append(@, e)]

QueueRemoveActive(b, e) ==
  [Clear(b, e, "ACTIVE") EXCEPT !.activequeues[Prio(e)] = Unlink(@, e)]

QueueInsertActiveLater(b, e) ==
  IF Active(b, e) THEN b
  ELSE [Set(b, e, "ACTIVE_LATER") EXCEPT !.active_later_queue = Append(@, e)]

QueueRemoveActiveLater(b, e) ==
  [Clear(b, e, "ACTIVE_LATER") EXCEPT !.active_later_queue = Unlink(@, e)]

\* insert_common_timeout_inorder: after the last one that is not later.
NotLater(b, e) ==
  {k \in 1 .. Len(b.common_list) : b.ev_timeout[b.common_list[k]] <= b.ev_timeout[e]}
InsertInOrder(b, e) ==
  LET before == NotLater(b, e)
      k == IF before = {} THEN 0 ELSE CHOOSE j \in before : \A i \in before : i <= j
  IN InsertAt(b.common_list, k + 1, e)

QueueInsertTimeout(b, e) ==
  LET c == Set(b, e, "TIMEOUT")
  IN IF e \in b.common THEN [c EXCEPT !.common_list = InsertInOrder(c, e)]
     ELSE [c EXCEPT !.timeheap = HeapPush(@, c.ev_timeout, e)]

QueueRemoveTimeout(b, e) ==
  LET c == Clear(b, e, "TIMEOUT")
  IN IF e \in b.common THEN [c EXCEPT !.common_list = Unlink(@, e)]
     ELSE [c EXCEPT !.timeheap = HeapErase(@, c.ev_timeout, e)]

\* event_queue_make_later_events_active: one after the other
MakeFirstActive(b) ==
  LET e == Head(b.active_later_queue)
  IN IF b.active_later_queue = << >> THEN b
     ELSE [b EXCEPT !.flags[e] = (@ \ {"ACTIVE_LATER"}) \cup {"ACTIVE"},
                    !.activequeues[Prio(e)] = Append(@, e),
                    !.n_deferreds_queued = IF e \in Deferred THEN @ + 1 ELSE @,
                    !.active_later_queue = Tail(@)]
MakeLaterActive(b) ==
  LET after[n \in 0 .. Len(b.active_later_queue)] ==
        IF n = 0 THEN b ELSE MakeFirstActive(after[n - 1])
  IN after[Len(b.active_later_queue)]

\* evthread_notify_base, if the caller needs it: one byte until it is drained.
Notify(b, need) ==
  IF ~need \/ b.is_notify_pending THEN b
  ELSE [b EXCEPT !.is_notify_pending = TRUE, !.notify_fd = TRUE]

---------------------------------------------------------------------------
(* Activating and deleting                                                 *)

\* gettime: the cached time if there is one.
Time(b, now) == IF b.tv_cache # 0 THEN b.tv_cache ELSE now

\* Faulty: the loop is not told.
CallbackActivateQuiet(b, e, need) ==
  IF Has(b, e, "ACTIVE") THEN b
  ELSE QueueInsertActive(IF Has(b, e, "ACTIVE_LATER") THEN QueueRemoveActiveLater(b, e)
                         ELSE b, e)

\* event_callback_activate_nolock_
CallbackActivate(b, e, need) ==
  IF Has(b, e, "ACTIVE") THEN b
  ELSE LET c == IF Has(b, e, "ACTIVE_LATER") THEN QueueRemoveActiveLater(b, e) ELSE b
       IN Notify(QueueInsertActive(c, e), need)

\* Faulty: a more important event does not end the queue that runs.
EventActiveNoContinue(b, e, res, need) ==
  LET c == [b EXCEPT !.ev_res[e] = IF Active(b, e) THEN @ \cup res ELSE res]
  IN IF Has(b, e, "ACTIVE") THEN c ELSE CallbackActivate(c, e, need)

\* event_active_nolock_
EventActiveNolock(b, e, res, need) ==
  LET c == [b EXCEPT !.ev_res[e] = IF Active(b, e) THEN @ \cup res ELSE res]
      d == IF Prio(e) < b.event_running_priority
           THEN [c EXCEPT !.event_continue = TRUE] ELSE c
  IN IF Has(b, e, "ACTIVE") THEN c ELSE CallbackActivate(d, e, need)

\* event_deferred_cb_schedule_: at most about MaxDeferreds of them per turn.
DeferredSchedule(b, e, need) ==
  IF b.n_deferreds_queued > MaxDeferreds
  THEN IF Active(b, e) THEN b ELSE Notify(QueueInsertActiveLater(b, e), need)
  ELSE LET c == CallbackActivate(b, e, need)
       IN IF Active(b, e) THEN c ELSE [c EXCEPT !.n_deferreds_queued = @ + 1]

RemoveFromActive(b, e) ==
  IF Has(b, e, "ACTIVE") THEN QueueRemoveActive(b, e)
  ELSE IF Has(b, e, "ACTIVE_LATER") THEN QueueRemoveActiveLater(b, e) ELSE b

\* event_del_nolock_, once it need not wait for a running callback.
EventDelNolock(b, e, need) ==
  LET c == IF Has(b, e, "TIMEOUT") THEN QueueRemoveTimeout(b, e) ELSE b
      d == RemoveFromActive(c, e)
  IN IF Has(d, e, "INSERTED") THEN Notify(Clear(d, e, "INSERTED"), need) ELSE d

\* event_remove_timer_nolock_
RemoveTimer(b, e) ==
  IF Has(b, e, "TIMEOUT")
  THEN [QueueRemoveTimeout(b, e) EXCEPT !.ev_io_timeout[e] = NoTimeout] ELSE b

---------------------------------------------------------------------------
(* Adding                                                                  *)

\* The old timeout, and an activation because of it, give way to the new one.
SetTimeout(b, e, at, common) ==
  LET c == IF Has(b, e, "TIMEOUT") THEN QueueRemoveTimeout(b, e) ELSE b
      d == IF Has(c, e, "ACTIVE") /\ "TIMEOUT" \in c.ev_res[e]
           THEN QueueRemoveActive(c, e) ELSE c
  IN QueueInsertTimeout([d EXCEPT !.ev_timeout[e] = at,
                                  !.common = IF common THEN @ \cup {e} ELSE @ \ {e}], e)

\* Faulty: only a timer that is already late is worth a notification.
WakesIfLate(b, e, clock) == b.ev_timeout[b.timeheap[1]] < clock

\* Whether a loop that sleeps must be told of the timer e.
WakesEarlier(b, e, clock) ==
  b.timeheap[1] = e \/ b.ev_timeout[b.timeheap[1]] < clock

\* Faulty: the timer of the list is only set if it is not running.
CommonTimeoutScheduleOnce(b, head, clock, need) ==
  IF Has(b, timeout_event, "TIMEOUT") THEN b
  ELSE SetTimeout(b, timeout_event, b.ev_timeout[head], FALSE)

\* common_timeout_schedule: timeout_event runs at the time of the first event.
CommonTimeoutSchedule(b, head, clock, need) ==
  LET c == SetTimeout(b, timeout_event, b.ev_timeout[head], FALSE)
  IN Notify(c, need /\ WakesEarlier(c, timeout_event, clock))

\* A descriptor is watched from now on, unless the event is active.
InsertIo(b, e) ==
  IF e \in IoEvs /\ b.flags[e] \cap {"INSERTED", "ACTIVE", "ACTIVE_LATER"} = {}
  THEN Set(b, e, "INSERTED") ELSE b

\* event_add_nolock_ with an absolute time.
AddTimer(b, e, at, common, clock, need) ==
  LET c == SetTimeout(InsertIo(b, e), e, at, common)
      d == IF common /\ Head(c.common_list) = e
               THEN CommonTimeoutSchedule(c, e, clock, need) ELSE c
  IN Notify(d, need /\ (InsertIo(b, e) # b \/ (~common /\ WakesEarlier(d, e, clock))))

\* event_add_nolock_; NoTimeout is a null timeval.
EventAddNolock(b, e, tv, now, need) ==
  IF tv = NoTimeout THEN Notify(InsertIo(b, e), need /\ InsertIo(b, e) # b)
  ELSE LET c == IF e \in Persist THEN [b EXCEPT !.ev_io_timeout[e] = tv] ELSE b
           clock == Time(b, now)
       IN AddTimer(c, e, clock + tv, tv \in CommonDurs, clock, need)

---------------------------------------------------------------------------
(* What the loop does with its timers                                      *)

\* event_persist_closure, before it calls the program
PersistReschedule(b, e, now) ==
  LET clock == Time(b, now)
      delay == b.ev_io_timeout[e]
      at    == delay + (IF "TIMEOUT" \in b.ev_res[e] THEN b.ev_timeout[e] ELSE clock)
      run_at == IF at < clock THEN clock + delay ELSE at
  IN IF delay = NoTimeout THEN b
     ELSE AddTimer(b, e, run_at, e \in b.common, clock, FALSE)

Expire(b, e) == EventActiveNolock(EventDelNolock(b, e, FALSE), e, {"TIMEOUT"}, FALSE)

\* timeout_process: one timer after the other, until the first is later.
ExpireFirst(b, clock) ==
  IF b.timeheap # << >> /\ b.ev_timeout[b.timeheap[1]] <= clock
  THEN Expire(b, b.timeheap[1]) ELSE b
TimeoutProcess(b, now) ==
  LET after[n \in 0 .. Len(b.timeheap)] ==
        IF n = 0 THEN b ELSE ExpireFirst(after[n - 1], Time(b, now))
  IN after[Len(b.timeheap)]

\* common_timeout_callback, the callback of timeout_event
ExpireCommon(b, clock) ==
  IF b.common_list # << >> /\ b.ev_timeout[Head(b.common_list)] <= clock
  THEN Expire(b, Head(b.common_list)) ELSE b
CommonTimeoutCallback(b, now) ==
  LET clock == Time(b, now)
      after[n \in 0 .. Len(b.common_list)] ==
        IF n = 0 THEN b ELSE ExpireCommon(after[n - 1], clock)
      c == after[Len(b.common_list)]
  IN IF c.common_list = << >> THEN c
     ELSE CommonTimeoutSchedule(c, Head(c.common_list), clock, FALSE)

\* What timeout_next returns: how long the loop may sleep; -1 stands for ever.
TimeoutNext(b, now) ==
  LET first == b.ev_timeout[b.timeheap[1]]
  IN IF b.timeheap = << >> THEN -1
     ELSE IF first <= Time(b, now) THEN 0 ELSE first - Time(b, now)
=============================================================================
