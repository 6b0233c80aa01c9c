------------------------------- MODULE EvLoop -------------------------------
(***************************************************************************)
(* The event loop of net/libevent/src/event.c: one thread runs             *)
(* event_base_loop, and it and another thread call the functions of a base.*)
(* base is the record of EvBase, changed only under th_base_lock.  The     *)
(* loop lets the lock go while it waits for descriptors and while it runs  *)
(* a callback; each action between two such places is one of its steps.    *)
(*                                                                         *)
(* Time is a number from 1 to MaxTime; the program adds no timer after      *)
(* MaxTime + 1, and a longer sleep ends at MaxTime.  MaxCalls bounds calls  *)
(* that the program makes.                                                 *)
(***************************************************************************)
EXTENDS EvBase

CONSTANTS Exits,       \* events of event_base_loopexit
          Durs,        \* the timeouts of the program
          ExitDurs,    \* those of its calls of event_base_loopexit
          MaxTime, MaxCalls,
          Repaired     \* {"event_base_once"}: it lets go of the lock when it fails

VARIABLES base,
          now,         \* the monotonic clock
          readable,    \* descriptors with something to read
          pc,          \* where the thread of the loop is
          wake,        \* when its wait for descriptors ends, -1 for never
          ready,       \* the descriptors that the wait returned
          index,       \* i of event_process_active: the next queue to look at
          real,        \* c > 0: it ran an event that is not internal
          other,       \* the other thread: idle, or in event_del of an event
          leaked,      \* who returned with th_base_lock still held
          calls,       \* how many calls the program may still make
          wanted       \* history: added or activated by the program, not deleted since

vars == <<base, now, readable, pc, wake, ready, index, real, other, leaked, calls, wanted>>
loopVars == <<pc, wake, ready, index, real>>

ASSUME EvLoopAssumption ==
  /\ EvBaseAssumption
  /\ Exits \subseteq Users \ (Io \cup Persist \cup Deferred)
  /\ CommonDurs \subseteq Durs /\ Durs \subseteq Nat \ {0}
  /\ ExitDurs \subseteq Durs \cup {NoTimeout}
  /\ MaxTime \in Nat \ {0} /\ MaxCalls \in Nat
  /\ Repaired \subseteq {"event_base_once"}

Idle == [state |-> "idle", event |-> None]

TypeOK ==
  /\ base.flags \in [Evs -> SUBSET {"TIMEOUT", "INSERTED", "ACTIVE", "ACTIVE_LATER"}]
  /\ base.ev_res \in [Evs -> SUBSET {"TIMEOUT", "READ"}]
  /\ base.ev_timeout \in [Evs -> 0 .. 2 * MaxTime]
  /\ base.ev_io_timeout \in [Evs -> Durs \cup {NoTimeout}]
  /\ base.event_running_priority \in Prios \cup {-1}
  /\ base.current_event \in Evs \cup {None}
  /\ base.current_event_waiters \in 0 .. 1
  /\ base.tv_cache \in 0 .. now /\ now \in 1 .. MaxTime
  /\ readable \subseteq Io /\ ready \subseteq IoEvs
  /\ pc \in {"stopped", "top", "wait", "polled", "process", "call", "drained", "return"}
  /\ wake \in -1 .. MaxTime /\ index \in 0 .. NumPri /\ real \in BOOLEAN
  /\ other \in [state : {"idle", "waiting", "woken"}, event : Users \cup {None}]
  /\ leaked \in {"nobody", "loop", "other"} /\ calls \in 0 .. MaxCalls
  /\ wanted \subseteq Users

Init ==
  /\ base = NewBase /\ now = 1 /\ readable = {}
  /\ pc = "stopped" /\ wake = -1 /\ ready = {} /\ index = 0 /\ real = FALSE
  /\ other = Idle /\ leaked = "nobody" /\ calls = MaxCalls
  /\ wanted = {}

\* The loop holds th_base_lock at the top and between callbacks.
Unlocked(t) ==
  /\ t = "loop" \/ pc \notin {"top", "process"}
  /\ leaked \in {"nobody", t}

---------------------------------------------------------------------------
(* The loop                                                                *)

\* event_base_loop is called.
StartLoop ==
  /\ pc = "stopped" /\ Unlocked("loop")
  /\ base' = [base EXCEPT !.tv_cache = 0, !.event_gotterm = FALSE, !.event_break = FALSE]
  /\ pc' = "top"
  /\ UNCHANGED <<now, readable, wake, ready, index, real, other, leaked, calls, wanted>>

NewTurn == [base EXCEPT !.event_continue = FALSE, !.n_deferreds_queued = 0]

\* Asked to terminate, or nothing left to wait for.
LeaveLoop ==
  /\ pc = "top"
  /\ base.event_gotterm \/ base.event_break \/ ~HasEvents(base)
  /\ base' = [NewTurn EXCEPT !.tv_cache = 0]
  /\ pc' = "stopped"
  /\ UNCHANGED <<now, readable, wake, ready, index, real, other, leaked, calls, wanted>>

\* How long to sleep comes from the time that the last turn cached.
GoToSleep ==
  /\ pc = "top"
  /\ ~base.event_gotterm /\ ~base.event_break /\ HasEvents(base)
  /\ LET sleep == IF NumActive(base) > 0 THEN 0 ELSE TimeoutNext(base, now)
     IN wake' = IF sleep = -1 THEN -1 ELSE Min({now + sleep, MaxTime})
  /\ base' = [MakeLaterActive(NewTurn) EXCEPT !.tv_cache = 0]
  /\ pc' = "wait"
  /\ UNCHANGED <<now, readable, ready, index, real, other, leaked, calls, wanted>>

Watched == {e \in IoEvs : Has(base, e, "INSERTED")}
Readable == readable \cup IF base.notify_fd THEN {th_notify} ELSE {}

\* epoll_wait returns, and the lock is not taken again yet.
Poll ==
  /\ pc = "wait"
  /\ Watched \cap Readable # {} \/ (wake # -1 /\ wake <= now)
  /\ ready' = Watched \cap Readable
  /\ wake' = -1 /\ pc' = "polled"
  /\ UNCHANGED <<base, now, readable, index, real, other, leaked, calls, wanted>>

\* Faulty: what was readable is activated, in the map or not.
ActivateReadable(b, e) == EventActiveNolock(b, e, {"READ"}, FALSE)

\* evmap_io_active_ of one descriptor: the event, if it is still in the map.
ActivateWatched(b, e) ==
  IF Has(b, e, "INSERTED") THEN EventActiveNolock(b, e, {"READ"}, FALSE) ELSE b

ActivateReady(b, order) ==
  LET after[n \in 0 .. Len(order)] ==
        IF n = 0 THEN b ELSE ActivateWatched(after[n - 1], order[n])
  IN after[Len(order)]

\* Descriptors, then timers; event_process_active if something is active.
Dispatch ==
  /\ pc = "polled" /\ Unlocked("loop")
  /\ \E order \in SetToSeqs(ready) :
       base' = TimeoutProcess([ActivateReady(base, order) EXCEPT !.tv_cache = now], now)
  /\ ready' = {} /\ index' = 0 /\ real' = FALSE
  /\ pc' = IF NumActive(base') > 0 THEN "process" ELSE "top"
  /\ UNCHANGED <<now, readable, wake, other, leaked, calls, wanted>>

\* The queues that event_process_active may take the next event from: after a
\* real event, only the queue that it came from.
Candidates ==
  {p \in index .. NumPri - 1 : /\ base.activequeues[p] # << >>
                               /\ real => p = base.event_running_priority}

\* The first event of queue p: the lock is released and its callback runs.
\* A persistent event stays added, and its timeout is set again first.
StartCallback(p) ==
  /\ pc = "process" /\ p \in Candidates /\ \A q \in Candidates : p <= q
  /\ LET e == Head(base.activequeues[p])
         b == IF e \in Persist \cup Deferred \cup {th_notify}
              THEN QueueRemoveActive(base, e) ELSE EventDelNolock(base, e, FALSE)
         c == [b EXCEPT !.current_event = e, !.current_event_waiters = 0,
                        !.event_running_priority = p]
     IN /\ base' = IF e \in Persist THEN PersistReschedule(c, e, now) ELSE c
        /\ real' = (real \/ e \in Users)
  /\ index' = p /\ pc' = "call"
  /\ UNCHANGED <<now, readable, wake, ready, other, leaked, calls, wanted>>

EndProcess ==
  /\ pc = "process" /\ Candidates = {}
  /\ base' = [base EXCEPT !.event_running_priority = -1]
  /\ pc' = "top"
  /\ UNCHANGED <<now, readable, wake, ready, index, real, other, leaked, calls, wanted>>

\* The callback of e has returned; a thread in event_del goes on.
Return ==
  /\ Unlocked("loop")
  /\ pc = "return" \/ (pc = "call" /\ base.current_event \in Users \ Exits)
  /\ LET b == [base EXCEPT !.current_event = None, !.current_event_waiters = 0]
     IN IF base.event_break
        THEN /\ base' = [b EXCEPT !.event_running_priority = -1]
             /\ pc' = "top" /\ index' = index
        ELSE /\ base' = b
             /\ pc' = "process"
             /\ index' = IF ~base.event_continue THEN index
                         ELSE IF real THEN NumPri ELSE index + 1
  /\ other' = IF base.current_event_waiters > 0 THEN [other EXCEPT !.state = "woken"]
              ELSE other
  /\ UNCHANGED <<now, readable, wake, ready, real, leaked, calls, wanted>>

---------------------------------------------------------------------------
(* The callbacks of libevent itself                                        *)

\* evthread_notify_drain_eventfd reads before it takes the lock.
Drain ==
  /\ pc = "call" /\ base.current_event = th_notify
  /\ base' = [base EXCEPT !.notify_fd = FALSE] /\ pc' = "drained"
  /\ UNCHANGED <<now, readable, wake, ready, index, real, other, leaked, calls, wanted>>

\* Faulty: is_notify_pending stays set.
DrainedKeepsPending ==
  /\ pc = "drained" /\ Unlocked("loop") /\ pc' = "return"
  /\ UNCHANGED <<base, now, readable, wake, ready, index, real, other, leaked, calls,
                 wanted>>

Drained ==
  /\ pc = "drained" /\ Unlocked("loop")
  /\ base' = [base EXCEPT !.is_notify_pending = FALSE] /\ pc' = "return"
  /\ UNCHANGED <<now, readable, wake, ready, index, real, other, leaked, calls, wanted>>

CommonTimeout ==
  /\ pc = "call" /\ base.current_event = timeout_event /\ Unlocked("loop")
  /\ base' = CommonTimeoutCallback(base, now) /\ pc' = "return"
  /\ UNCHANGED <<now, readable, wake, ready, index, real, other, leaked, calls, wanted>>

\* event_loopexit_cb
LoopexitCb ==
  /\ pc = "call" /\ base.current_event \in Exits
  /\ base' = [base EXCEPT !.event_gotterm = TRUE] /\ pc' = "return"
  /\ UNCHANGED <<now, readable, wake, ready, index, real, other, leaked, calls, wanted>>

\* The program's callback reads all there is.
ReadAll ==
  /\ pc = "call" /\ base.current_event \in readable
  /\ readable' = readable \ {base.current_event}
  /\ UNCHANGED <<base, now, pc, wake, ready, index, real, other, leaked, calls, wanted>>

---------------------------------------------------------------------------
(* The program's calls, from a callback or from the other thread           *)

Callable(t) ==
  /\ calls > 0 /\ Unlocked(t)
  /\ IF t = "loop" THEN pc = "call" /\ base.current_event \in Users \ Exits
     ELSE other = Idle

\* EVBASE_NEED_NOTIFY
NeedNotify(t) == t = "other" /\ pc # "stopped"

Called == calls' = calls - 1
Plain == Users \ (Exits \cup Deferred)

EventAdd(t, e, tv) ==
  /\ Callable(t) /\ Time(base, now) + tv <= MaxTime + 1
  /\ tv # NoTimeout \/ e \in Io
  /\ base' = EventAddNolock(base, e, tv, now, NeedNotify(t))
  /\ Called /\ wanted' = wanted \cup {e}
  /\ UNCHANGED <<loopVars, now, readable, other, leaked>>

\* event_del waits if another thread runs the callback of e.
EventDel(t, e) ==
  /\ Callable(t)
  /\ IF t = "other" /\ base.current_event = e
     THEN /\ base' = [base EXCEPT !.current_event_waiters = @ + 1]
          /\ other' = [state |-> "waiting", event |-> e]
          /\ wanted' = wanted
     ELSE /\ base' = EventDelNolock(base, e, NeedNotify(t))
          /\ other' = other /\ wanted' = wanted \ {e}
  /\ Called
  /\ UNCHANGED <<loopVars, now, readable, leaked>>

\* The rest of event_del.  It does not look at current_event again.
FinishDel ==
  /\ other.state = "woken" /\ Unlocked("other")
  /\ base' = EventDelNolock(base, other.event, NeedNotify("other"))
  /\ other' = Idle /\ wanted' = wanted \ {other.event}
  /\ UNCHANGED <<loopVars, now, readable, leaked, calls>>

EventRemoveTimer(t, e) ==
  /\ Callable(t)
  /\ base' = RemoveTimer(base, e)
  /\ Called
  /\ UNCHANGED <<loopVars, now, readable, other, leaked, wanted>>

EventActive(t, e) ==
  /\ Callable(t)
  /\ base' = EventActiveNolock(base, e, {"READ"}, NeedNotify(t))
  /\ Called /\ wanted' = wanted \cup {e}
  /\ UNCHANGED <<loopVars, now, readable, other, leaked>>

EventDeferredCbSchedule(t, e) ==
  /\ Callable(t)
  /\ base' = DeferredSchedule(base, e, NeedNotify(t))
  /\ Called /\ wanted' = wanted \cup {e}
  /\ UNCHANGED <<loopVars, now, readable, other, leaked>>

\* event_callback_cancel_nolock_
EventDeferredCbCancel(t, e) ==
  /\ Callable(t)
  /\ base' = RemoveFromActive(base, e)
  /\ Called /\ wanted' = wanted \ {e}
  /\ UNCHANGED <<loopVars, now, readable, other, leaked>>

\* Faulty: the loop is not told.
EventBaseLoopbreakQuiet(t) ==
  /\ Callable(t)
  /\ base' = [base EXCEPT !.event_break = TRUE]
  /\ Called
  /\ UNCHANGED <<loopVars, now, readable, other, leaked, wanted>>

EventBaseLoopbreak(t) ==
  /\ Callable(t)
  /\ base' = Notify([base EXCEPT !.event_break = TRUE], NeedNotify(t))
  /\ Called
  /\ UNCHANGED <<loopVars, now, readable, other, leaked, wanted>>

EventBaseLoopcontinue(t) ==
  /\ Callable(t)
  /\ base' = Notify([base EXCEPT !.event_continue = TRUE], NeedNotify(t))
  /\ Called
  /\ UNCHANGED <<loopVars, now, readable, other, leaked, wanted>>

\* event_base_loopexit calls event_base_once with a new event e.
EventBaseLoopexit(t, e, tv) ==
  /\ Callable(t) /\ Time(base, now) + tv <= MaxTime + 1
  /\ base.flags[e] = {} /\ base.current_event # e
  /\ base' = IF tv = NoTimeout
             THEN EventActiveNolock(base, e, {"TIMEOUT"}, NeedNotify(t))
             ELSE EventAddNolock(base, e, tv, now, NeedNotify(t))
  /\ Called /\ wanted' = wanted \cup {e}
  /\ UNCHANGED <<loopVars, now, readable, other, leaked>>

\* event_add_nolock_ finds no memory: event_base_once returns with the lock.
EventBaseOnceFails(t) ==
  /\ Callable(t)
  /\ leaked' = IF "event_base_once" \in Repaired THEN leaked ELSE t
  /\ Called
  /\ UNCHANGED <<loopVars, base, now, readable, other, wanted>>

---------------------------------------------------------------------------
Tick ==
  /\ now < MaxTime /\ now' = now + 1
  /\ UNCHANGED <<loopVars, base, readable, other, leaked, calls, wanted>>

\* Something arrives on the descriptor of e.
Arrive(e) ==
  /\ readable' = readable \cup {e} /\ readable' # readable
  /\ UNCHANGED <<loopVars, base, now, other, leaked, calls, wanted>>

Loop ==
  \/ LeaveLoop \/ GoToSleep \/ Poll \/ Dispatch \/ EndProcess \/ Return
  \/ Drain \/ Drained \/ CommonTimeout \/ LoopexitCb
  \/ \E p \in Prios : StartCallback(p)

Call(t) ==
  \/ \E e \in Plain, tv \in Durs \cup {NoTimeout} : EventAdd(t, e, tv)
  \/ \E e \in Plain : EventDel(t, e) \/ EventRemoveTimer(t, e) \/ EventActive(t, e)
  \/ \E e \in Deferred : EventDeferredCbSchedule(t, e) \/ EventDeferredCbCancel(t, e)
  \/ EventBaseLoopbreak(t) \/ EventBaseLoopcontinue(t) \/ EventBaseOnceFails(t)
  \/ \E e \in Exits, tv \in ExitDurs : EventBaseLoopexit(t, e, tv)

Next ==
  \/ StartLoop \/ Loop \/ ReadAll \/ FinishDel \/ Tick
  \/ \E e \in Io : Arrive(e)
  \/ \E t \in {"loop", "other"} : Call(t)

Spec == Init /\ [][Next]_vars

\* Where Loop is enabled, each of its steps changes pc; the fairness of the
\* threads is stated over the variable that says where they are.
LoopCanRun ==
  \/ pc \in {"top", "process"}
  \/ pc = "wait" /\ (Watched \cap Readable # {} \/ (wake # -1 /\ wake <= now))
  \/ pc \in {"polled", "call", "drained", "return"} /\ Unlocked("loop")

LoopGoesOn == LoopCanRun /\ pc' \in {"stopped", "top", "wait", "polled", "process", "call",
                                      "drained", "return"} \ {pc}
DelGoesOn  == other.state = "woken" /\ Unlocked("other") /\ other' = Idle
ClockGoesOn == now < MaxTime /\ now' = now + 1

\* No thread and no clock stands still for ever while it can go on.
FairSpec == Spec /\ WF_pc(LoopGoesOn) /\ WF_other(DelGoesOn) /\ WF_now(ClockGoesOn)

---------------------------------------------------------------------------
(* Properties                                                              *)

Lists(s, S) == \A e \in Evs : (e \in S) <=> (\E k \in DOMAIN s : s[k] = e)
Flagged(b, flag) == {e \in Evs : Has(b, e, flag)}

\* What event_base_assert_ok_nolock_ checks whenever the lock is free: every
\* event is on exactly the lists that its flags name, once, at its own
\* priority; the heap is a heap; the common list is in the order of time.
BaseOk(b) ==
  /\ IsHeap(b.timeheap, b.ev_timeout)
  /\ IsInjective(b.timeheap) /\ IsInjective(b.common_list)
  /\ Lists(b.timeheap, Flagged(b, "TIMEOUT") \ b.common)
  /\ Lists(b.common_list, Flagged(b, "TIMEOUT") \cap b.common)
  /\ \A j, k \in DOMAIN b.common_list :
       j < k => b.ev_timeout[b.common_list[j]] <= b.ev_timeout[b.common_list[k]]
  /\ \A p \in Prios : /\ IsInjective(b.activequeues[p])
                      /\ Lists(b.activequeues[p], {e \in Flagged(b, "ACTIVE") : Prio(e) = p})
  /\ IsInjective(b.active_later_queue)
  /\ Lists(b.active_later_queue, Flagged(b, "ACTIVE_LATER"))
  /\ Flagged(b, "ACTIVE") \cap Flagged(b, "ACTIVE_LATER") = {}

\* timeout_event is set no later than the first event of the common list, or it
\* is about to run.
CommonSet(b) ==
  b.common_list # << >> =>
    \/ Has(b, timeout_event, "ACTIVE")
    \/ /\ Has(b, timeout_event, "TIMEOUT")
       /\ b.ev_timeout[timeout_event] <= b.ev_timeout[Head(b.common_list)]

\* Events that wait in the common list depend on one internal timer: it is set,
\* or its callback runs and has not set it yet.
CommonScheduled == CommonSet(base) \/ (pc = "call" /\ base.current_event = timeout_event)

\* A callback is only ever called for a timeout that has elapsed: adding the
\* event again takes back an activation because of the timeout it had before.
TimeoutsElapsed ==
  \A e \in Users \ Exits :
    (Active(base, e) /\ "TIMEOUT" \in base.ev_res[e]) => base.ev_timeout[e] <= now

\* The base between any two statements that run without its lock.
Inv == TypeOK /\ BaseOk(base) /\ CommonScheduled /\ TimeoutsElapsed

\* The loop does not sleep on work that another thread gave it: unless the
\* descriptor of the notification is readable, nothing is active, nobody has
\* asked it to stop, and a sleep for ever means that there is no timer.
NoLostWakeup ==
  (pc = "wait" /\ (wake = -1 \/ now < wake) /\ ~base.notify_fd) =>
    /\ NumActive(base) = 0
    /\ ~base.event_break
    /\ wake = -1 => base.timeheap = << >>

\* An event that the program has deleted stays deleted until it is added or
\* activated again: neither a wait that had already seen its descriptor nor
\* its own persistence brings it back.
DeletedStaysDeleted == \A e \in Users : base.flags[e] # {} => e \in wanted

\* The thread that waits in event_del is known to the loop, which runs the
\* very callback it waits for: it will be woken.
DelWaits ==
  other.state = "waiting" =>
    base.current_event = other.event /\ base.current_event_waiters = 1

\* What event_del promises to the thread that calls it: the event is gone, and
\* the wait for its callback ends.
DeleteHolds == DeletedStaysDeleted /\ DelWaits

\* When the callback of an event starts, no event of a more important
\* priority is active, whoever made it active and when: making it active ends
\* the queue that runs.  After event_base_loopcontinue this is not so: the
\* first event of a less important queue may still run.
PriorityRespected ==
  [][\A e \in Users, f \in Users \ Deferred :
       (/\ base'.current_event = e /\ base.current_event # e
        /\ Prio(f) < Prio(e) /\ ~base.event_continue)
         => ~Has(base, f, "ACTIVE")]_vars

\* A timer that is running is activated, or deleted, or the loop stops: it is
\* again and again no longer running.
TimersFire ==
  \A e \in Users \ Deferred :
    []<>(pc = "stopped" \/ ~Has(base, e, "TIMEOUT") \/ base.ev_timeout[e] > MaxTime)

\* An active event of the most important priority is called.
ActiveRuns ==
  \A e \in {f \in Users : Prio(f) = 0} : []<>(pc = "stopped" \/ ~Active(base, e))

\* What is due is called: neither timers nor active events are forgotten.
EventsServed == TimersFire /\ ActiveRuns

\* event_base_loopbreak stops the loop, from whichever thread it is called.
BreakStops == (pc # "stopped" /\ base.event_break) ~> (pc = "stopped")

\* event_base_once comes back without the lock of the base.
OnceReleasesLock == leaked = "nobody"

\* An event of a descriptor that is pending is watched or about to run.
AddedIsWatched ==
  \A e \in Io : Has(base, e, "TIMEOUT") =>
    base.flags[e] \cap {"INSERTED", "ACTIVE", "ACTIVE_LATER"} # {}
=============================================================================
