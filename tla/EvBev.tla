-------------------------------- MODULE EvBev --------------------------------
(***************************************************************************)
(* Socket bufferevents of libevent (bufferevent.c, bufferevent_sock.c and   *)
(* bufferevent_ratelim.c) with deferred callbacks: the two events that move *)
(* bytes between a socket and the buffers, what suspends them (watermarks,  *)
(* name lookups, the bandwidth of a bufferevent and of its group), the      *)
(* callbacks owed to the program, and the release of the last reference.    *)
(*                                                                          *)
(* A call of the program, of any thread, is one step, for it holds the lock *)
(* of the bufferevent.  The loop takes a callback from the active queue in  *)
(* one step and runs it in another: it has no lock in between.  Functions   *)
(* that others call are operators from the world before to the world after. *)
(***************************************************************************)
EXTENDS Integers, Sequences, FiniteSets, FiniteSetsExt, SequencesExt

CONSTANTS
  Bevs, None,
  Programs,      \* bound: what each program considered does with bufferevents
  MaxLen,        \* bound: bytes in a buffer
  Rate, Burst,   \* per tick, and for each ev_token_bucket_cfg
  GroupBurst,    \* rate_limit_cfg of the group
  Marks,         \* bound: the pairs of marks that a program sets
  Repaired       \* the functions taken with a repair, see README

VARIABLES
  bev,     \* each bufferevent
  grp,     \* the rate-limit group
  queue,   \* the active callbacks: of an event, a refill timer, a finalizer ...
  loop,    \* the callback the event loop is at
  uses     \* what this program does; never changes

vars == <<bev, grp, queue, loop, uses>>

D == {"R", "W"}
Other(d) == CHOOSE e \in D : e # d
NoCfg == 0
Cfgs == DOMAIN Burst

EvBevAssumption ==
  /\ IsFiniteSet(Bevs) /\ None \notin Bevs /\ MaxLen \in Nat \ {0} /\ Rate \in Nat \ {0}
  /\ \A c \in Cfgs : Burst[c] \in Nat /\ Burst[c] >= Rate /\ c # NoCfg
  /\ GroupBurst \in Nat /\ GroupBurst >= Rate /\ Marks \subseteq (0 .. MaxLen) \X (0 .. MaxLen)
ASSUME EvBevAssumption

\* pend: the events added, "T" being the refill timer; tell: the callbacks owed;
\* greet (history): a connect has begun and its end has not been told.
Fresh(s) ==
  [st |-> "live", own |-> TRUE, refcnt |-> 1, final |-> {}, cbs |-> TRUE,
   enabled |-> {"W"}, susp |-> [d \in D |-> {}], pend |-> {}, due |-> FALSE, tv |-> {},
   len |-> [d \in D |-> 0], low |-> [d \in D |-> 0], high |-> 0,
   sock |-> s, connecting |-> FALSE, refused |-> FALSE, lookup |-> "no", greet |-> FALSE,
   tell |-> {}, cfg |-> NoCfg, limit |-> [d \in D |-> 0], owed |-> 0]
Gone(v) == [Fresh("none") EXCEPT !.st = "freed", !.own = FALSE,
                                 !.pend = v.pend, !.refcnt = v.refcnt]

Idle(q) == [at |-> IF q = << >> THEN "poll" ELSE "run", b |-> None, k |-> "none", what |-> "none"]

\* What a program that does not enable and disable has enabled from the start
At(u) == (IF "read" \in u THEN {"R"} ELSE {}) \cup (IF "write" \in u THEN {"W"} ELSE {})

\* The bufferevents that it has
Has(b, u) == "two" \in u \/ b = CHOOSE c \in Bevs : TRUE

Init ==
  /\ uses \in Programs
  /\ bev = [b \in Bevs |-> [Fresh(IF "connect" \in uses THEN "none" ELSE "up") EXCEPT
                              !.enabled = IF "enable" \in uses THEN @ ELSE At(uses),
                              !.pend = IF "enable" \in uses THEN @ ELSE At(uses) \ {"W"},
                              !.tv = IF "timeouts" \in uses THEN D ELSE {},
                              !.st = IF Has(b, uses) THEN "live" ELSE "unused",
                              !.own = Has(b, uses)]]
  /\ grp = [members |-> {}, limit |-> [d \in D |-> Rate], suspended |-> {}, again |-> {},
            owed |-> 0, due |-> FALSE]
  /\ queue = << >> /\ loop = Idle(<< >>)

Now == [bev |-> bev, grp |-> grp, queue |-> queue]
Becomes(w) == bev' = w.bev /\ grp' = w.grp /\ queue' = w.queue

---------------------------------------------------------------------------
(* Events, references *)

Queued(w, b, k) == \E i \in DOMAIN w.queue : w.queue[i].b = b /\ w.queue[i].k = k

\* TAILQ_REMOVE, of a callback that is in the queue at most once
Dequeue(w, b, k) ==
  LET i == CHOOSE j \in DOMAIN w.queue : w.queue[j].b = b /\ w.queue[j].k = k
  IN IF Queued(w, b, k) THEN [w EXCEPT !.queue = RemoveAt(@, i)] ELSE w
Entry(b, k, what) == [b |-> b, k |-> k, what |-> what]

\* event_add; that of a timer which has expired begins anew
Add(w, b, k) ==
  IF k \in w.bev[b].final THEN w
  ELSE IF k = "T" THEN [Dequeue(w, b, k) EXCEPT !.bev[b].pend = @ \cup {k}, !.bev[b].due = FALSE]
  ELSE [w EXCEPT !.bev[b].pend = @ \cup {k}]

\* event_del of an event with EV_FINALIZE: does not wait for a running callback
Del(w, b, k) ==
  IF k \in w.bev[b].final THEN w
  ELSE [Dequeue(w, b, k) EXCEPT !.bev[b].pend = @ \ {k},
                                !.bev[b].due = IF k = "T" THEN FALSE ELSE @]

\* event_deferred_cb_schedule_ with the reference of SCHEDULE_DEFERRED
Schedule(w, b) ==
  IF "D" \in w.bev[b].final \/ Queued(w, b, "D") THEN w
  ELSE [w EXCEPT !.queue = Append(@, Entry(b, "D", "none")), !.bev[b].refcnt = @ + 1]

Running(b) == IF loop.at \in {"taken", "telling"} /\ loop.b = b THEN loop.k ELSE "none"

\* event_callback_finalize_many_: the finalizer goes with the callback that is
\* running, or with the first; the others are only taken out.
Finalize(w, b) ==
  LET k == IF Running(b) = "none" THEN "R" ELSE Running(b)
      out == Del(Del(Del(w, b, "R"), b, "W"), b, "T")
  IN IF k \in w.bev[b].final THEN out
     ELSE [out EXCEPT !.queue = Append(@, Entry(b, "free", k)),
                      !.bev[b].final = IF "bufferevent_decref_and_unlock_" \in Repaired
                                       THEN {"R", "W", "T", "D"} ELSE @ \cup {k}]

Incref(w, b) == [w EXCEPT !.bev[b].refcnt = @ + 1]

\* Faulty: frees with a callback still in the queue.
DecrefEarly(w, b) ==
  LET less == [w EXCEPT !.bev[b].refcnt = @ - 1]
  IN IF less.bev[b].refcnt <= 1 /\ ~less.bev[b].own THEN Finalize(less, b) ELSE less

\* bufferevent_decref_and_unlock_
Decref(w, b) ==
  LET less == [w EXCEPT !.bev[b].refcnt = @ - 1]
  IN IF less.bev[b].refcnt = 0 THEN Finalize(less, b) ELSE less

---------------------------------------------------------------------------
(* What stops and starts the events *)

\* What is done for each direction, that of reading first
InTurn(Op(_, _), w, ds) ==
  LET r == IF "R" \in ds THEN Op(w, "R") ELSE w
  IN IF "W" \in ds THEN Op(r, "W") ELSE r

\* be_socket_enable, be_socket_disable
SockEnable(w, b, ds) == InTurn(LAMBDA x, d : Add(x, b, d), w, ds)
SockDisable(w, b, ds) ==
  InTurn(LAMBDA x, d : Del(x, b, d), w, IF w.bev[b].connecting THEN ds \ {"W"} ELSE ds)

\* bufferevent_suspend_read_, bufferevent_suspend_write_
Suspend(w, b, d, why) ==
  LET off == IF w.bev[b].susp[d] = {} THEN SockDisable(w, b, {d}) ELSE w
  IN [off EXCEPT !.bev[b].susp[d] = @ \cup {why}]

\* bufferevent_unsuspend_read_, bufferevent_unsuspend_write_
Unsuspend(w, b, d, why) ==
  LET on == [w EXCEPT !.bev[b].susp[d] = @ \ {why}]
  IN IF on.bev[b].susp[d] = {} /\ d \in on.bev[b].enabled THEN SockEnable(on, b, {d}) ELSE on

SuspendAll(w, b, ds, why) == InTurn(LAMBDA x, d : Suspend(x, b, d, why), w, ds)
UnsuspendAll(w, b, ds, why) == InTurn(LAMBDA x, d : Unsuspend(x, b, d, why), w, ds)

\* bufferevent_enable, bufferevent_disable
EnableBev(w, b, ds) ==
  SockEnable([w EXCEPT !.bev[b].enabled = @ \cup ds], b, {d \in ds : w.bev[b].susp[d] = {}})
DisableBev(w, b, ds) == SockDisable([w EXCEPT !.bev[b].enabled = @ \ ds], b, ds)

---------------------------------------------------------------------------
(* Buffers and callbacks *)

\* bufferevent_run_readcb_, _writecb_, _eventcb_
RunCb(w, b, what) ==
  IF ~w.bev[b].cbs THEN w ELSE Schedule([w EXCEPT !.bev[b].tell = @ \cup {what}], b)

\* bufferevent_trigger_nolock_
Trigger(w, b, d) ==
  LET v == w.bev[b]
  IN CASE d = "R" /\ v.len[d] >= v.low[d] -> RunCb(w, b, "read")
       [] d = "W" /\ v.len[d] <= v.low[d] -> RunCb(w, b, "write")
       [] OTHER -> w

\* bufferevent_inbuf_wm_cb, while the mark is set
WmCb(w, b) ==
  IF w.bev[b].high = 0 THEN w
  ELSE IF w.bev[b].len["R"] >= w.bev[b].high THEN Suspend(w, b, "R", "WM")
  ELSE Unsuspend(w, b, "R", "WM")

SetInput(w, b, n) == WmCb([w EXCEPT !.bev[b].len["R"] = n], b)

\* bufferevent_socket_outbuf_cb
OutbufCb(w, b) ==
  LET v == w.bev[b]
  IN IF "W" \in v.enabled /\ "W" \notin v.pend /\ v.susp["W"] = {} THEN Add(w, b, "W") ELSE w

\* The error: label of both callbacks
Fail(w, b, d, what) == RunCb(DisableBev(w, b, {d}), b, what)

---------------------------------------------------------------------------
(* Bandwidth *)

Least(m, n) == IF m < n THEN m ELSE n
Most(m, n) == IF m > n THEN m ELSE n

\* ev_token_bucket_update_ of one direction
Refilled(limit, top, ticks) ==
  IF ticks = 0 THEN limit
  ELSE IF (top - limit) \div ticks < Rate THEN top ELSE limit + ticks * Rate

\* bufferevent_update_buckets
UpdateBuckets(w, b) ==
  LET v == w.bev[b]
  IN [w EXCEPT !.bev[b].limit = [d \in D |-> Refilled(@[d], Burst[v.cfg], v.owed)],
               !.bev[b].owed = 0]

\* Some member whose lock another thread holds: EVLOCK_TRY_LOCK_ fails.
Busy(w, b) == {{}} \cup {{c} : c \in w.grp.members \ {b}}

\* LIST_FOREACH over the members that can be locked
EachMember(Op(_, _), w, busy) ==
  LET who == SetToSeq(w.grp.members \ busy)
      after[i \in 0 .. Len(who)] == IF i = 0 THEN w ELSE Op(after[i - 1], who[i])
  IN after[Len(who)]

\* bev_group_suspend_reading_, bev_group_suspend_writing_
GroupSuspend(w, d, busy) ==
  EachMember(LAMBDA x, c : Suspend(x, c, d, "GROUP"),
             [w EXCEPT !.grp.suspended = @ \cup {d}, !.grp.again = @ \ {d}], busy)

\* Faulty: forgets the members it could not lock.
GroupUnsuspendOnce(w, d, busy) ==
  EachMember(LAMBDA x, c : Unsuspend(x, c, d, "GROUP"),
             [w EXCEPT !.grp.suspended = @ \ {d}, !.grp.again = @ \ {d}], busy)

\* bev_group_unsuspend_reading_, bev_group_unsuspend_writing_
GroupUnsuspend(w, d, busy) ==
  EachMember(LAMBDA x, c : Unsuspend(x, c, d, "GROUP"),
             [w EXCEPT !.grp.suspended = @ \ {d},
                       !.grp.again = IF busy = {} THEN @ \ {d} ELSE @ \cup {d}], busy)

OwnMax(w, b, d) == IF w.bev[b].cfg = NoCfg THEN MaxLen ELSE w.bev[b].limit[d]
Share(w, d) == Most(w.grp.limit[d] \div Cardinality(w.grp.members), 1)

\* Faulty: looks only at its own bucket.
RlimMaxOwn(w, b, d) == Most(OwnMax(w, b, d), 0)

\* bufferevent_get_rlim_max_: what it returns, and its side effects
RlimMax(w, b, d) ==
  IF b \notin w.grp.members THEN Most(OwnMax(w, b, d), 0)
  ELSE IF d \in w.grp.suspended THEN 0
  ELSE Most(Least(OwnMax(w, b, d), Share(w, d)), 0)
AskRlim(w, b, d) ==
  LET up == IF w.bev[b].cfg = NoCfg THEN w ELSE UpdateBuckets(w, b)
  IN IF b \in w.grp.members /\ d \in w.grp.suspended THEN Suspend(up, b, d, "GROUP") ELSE up

\* bufferevent_decrement_read_buckets_, bufferevent_decrement_write_buckets_
Spend(w, b, d, n, busy) ==
  LET v == w.bev[b]
      used == [w EXCEPT !.bev[b].limit[d] = @ - n]
      own == CASE v.cfg = NoCfg -> w
               [] v.cfg # NoCfg /\ v.limit[d] - n <= 0 -> Add(Suspend(used, b, d, "BW"), b, "T")
               [] v.cfg # NoCfg /\ v.limit[d] - n > 0 /\ "BW" \in v.susp[d] ->
                    Unsuspend(IF "BW" \in v.susp[Other(d)] THEN used ELSE Del(used, b, "T"),
                              b, d, "BW")
               [] OTHER -> used
      all == [own EXCEPT !.grp.limit[d] = @ - n]
  IN CASE b \notin w.grp.members -> own
       [] b \in w.grp.members /\ all.grp.limit[d] <= 0 -> GroupSuspend(all, d, busy)
       [] b \in w.grp.members /\ all.grp.limit[d] > 0 /\ d \in w.grp.suspended ->
            GroupUnsuspend(all, d, busy)
       [] OTHER -> all

---------------------------------------------------------------------------
(* The event loop *)

\* The end of a handler that took a reference when it began
Done(w, b) ==
  LET x == Decref(w, b) IN Becomes(x) /\ loop' = Idle(x.queue) /\ UNCHANGED uses

Start(b, k, what) == loop = [at |-> "taken", b |-> b, k |-> k, what |-> what]

\* bufferevent_readcb; without bytes to ask for, it would take the result for the end
ReadFrom(w, b) ==
  LET v == w.bev[b]
      most == IF v.high = 0 THEN MaxLen - v.len["R"]
              ELSE Least(v.high, MaxLen) - v.len["R"]
  IN \/ v.susp["R"] # {} /\ Done(w, b)
     \/ /\ v.susp["R"] = {} /\ v.sock = "up"
        /\ \E n \in 1 .. Least(most, RlimMax(w, b, "R")), busy \in Busy(w, b) :
              Done(Trigger(Spend(SetInput(w, b, v.len["R"] + n), b, "R", n, busy), b, "R"), b)
     \/ v.susp["R"] = {} /\ v.sock \in {"up", "dead"} /\ Done(Fail(w, b, "R", "eof"), b)
     \/ v.susp["R"] = {} /\ v.sock = "up" /\ Done(w, b)
     \/ /\ v.susp["R"] = {} /\ v.sock = "refused"
        /\ Done([w EXCEPT !.bev[b].sock = "dead", !.bev[b].refused = TRUE], b)

ReadCb(b) ==
  LET w == Incref(Now, b)
      v == bev[b]
  IN \/ Start(b, "R", "timeout") /\ Done(Fail(w, b, "R", "timeout"), b)
     \/ /\ Start(b, "R", "io") /\ v.high # 0 /\ v.len["R"] >= v.high
        /\ Done(Suspend(w, b, "R", "WM"), b)
     \/ /\ Start(b, "R", "io") /\ (v.high = 0 \/ v.len["R"] < v.high)
        /\ ReadFrom(AskRlim(w, b, "R"), b)

\* Faulty: believes the socket.
FinishedPlain(v) == CASE v.sock = "trying" -> 0 [] v.sock = "refused" -> -1 [] OTHER -> 1

\* evutil_socket_finished_connecting_, with the refusal that a read has consumed
Finished(v) == CASE v.sock = "trying" -> 0
                 [] v.sock = "refused" \/ v.refused -> -1
                 [] OTHER -> 1

Over(w, b) == [w EXCEPT !.bev[b].connecting = FALSE, !.bev[b].refused = FALSE]

\* The part of bufferevent_writecb that ends a connect
EndConnect(w, b) ==
  LET over == Over(w, b)
      v == w.bev[b]
  IN CASE Finished(v) = 0 -> w
       [] Finished(v) = -1 -> RunCb(Del(Del(over, b, "W"), b, "R"), b, "error")
       [] OTHER -> IF "W" \in v.enabled /\ v.susp["W"] = {} THEN RunCb(over, b, "connected")
                   ELSE Del(RunCb(over, b, "connected"), b, "W")

WriteTo(w, b, connected) ==
  LET v == w.bev[b]
      sent(n, busy) == Spend([w EXCEPT !.bev[b].len["W"] = @ - n], b, "W", n, busy)
  IN \/ v.susp["W"] # {} /\ Done(w, b)
     \/ /\ v.susp["W"] = {} /\ v.len["W"] = 0
        /\ Done(IF connected THEN Del(w, b, "W") ELSE Trigger(Del(w, b, "W"), b, "W"), b)
     \/ /\ v.susp["W"] = {} /\ v.sock = "up"
        /\ \E n \in 1 .. Least(v.len["W"], RlimMax(w, b, "W")), busy \in Busy(w, b) :
              Done(Trigger(IF n = v.len["W"] THEN Del(sent(n, busy), b, "W") ELSE sent(n, busy),
                           b, "W"), b)
     \/ v.susp["W"] = {} /\ v.len["W"] > 0 /\ v.sock = "up" /\ Done(w, b)
     \/ v.susp["W"] = {} /\ v.len["W"] > 0 /\ Done(Fail(w, b, "W", "error"), b)

\* bufferevent_writecb
WriteCb(b) ==
  LET w == Incref(Now, b)
      v == bev[b]
      on == Finished(v) = 1 /\ "W" \in v.enabled /\ v.susp["W"] = {}
  IN \/ Start(b, "W", "timeout") /\ Done(Fail(w, b, "W", "timeout"), b)
     \/ Start(b, "W", "io") /\ v.connecting /\ ~on /\ Done(EndConnect(w, b), b)
     \/ /\ Start(b, "W", "io") /\ v.connecting /\ on
        /\ WriteTo(AskRlim(EndConnect(w, b), b, "W"), b, TRUE)
     \/ Start(b, "W", "io") /\ ~v.connecting /\ WriteTo(AskRlim(w, b, "W"), b, FALSE)

Calls == <<"connected", "read", "write", "events">>
Events == {"connected", "eof", "error", "timeout"}
Tells(what) == IF what = "events" THEN Events ELSE {what}

\* bufferevent_run_deferred_callbacks_locked, from the i-th callback on
TellFrom(w, b, i) ==
  LET v == w.bev[b]
      next == {j \in i .. Len(Calls) : v.cbs /\ Tells(Calls[j]) \cap v.tell # {}}
      what == Calls[Min(next)]
  IN \/ next = {} /\ Done(w, b)
     \/ /\ next # {}
        /\ Becomes([w EXCEPT !.bev[b].tell = @ \ Tells(what),
                             !.bev[b].greet = IF Tells(what) \cap v.tell
                                                   \cap {"connected", "error"} = {}
                                              THEN @ ELSE FALSE])
        /\ loop' = [at |-> "telling", b |-> b, k |-> "D", what |-> what]
        /\ UNCHANGED uses

RunDeferred(b) == Start(b, "D", "none") /\ TellFrom(Now, b, 1)
CallbackReturns(b) ==
  /\ loop.at = "telling" /\ loop.b = b
  /\ TellFrom(Now, b, 1 + CHOOSE i \in DOMAIN Calls : Calls[i] = loop.what)

\* Faulty: does not ask for another refill.
RefillOnce(w, b) ==
  UnsuspendAll(w, b, {d \in D : "BW" \in w.bev[b].susp[d] /\ w.bev[b].limit[d] > 0}, "BW")

\* bev_refill_callback_
RefillOf(w, b) ==
  LET ds == {d \in D : "BW" \in w.bev[b].susp[d] /\ w.bev[b].limit[d] > 0}
      back == UnsuspendAll(w, b, ds, "BW")
  IN IF \E d \in D : "BW" \in back.bev[b].susp[d] THEN Add(back, b, "T") ELSE back

Refill(b) ==
  LET w == IF bev[b].cfg = NoCfg THEN Now ELSE RefillOf(UpdateBuckets(Now, b), b)
  IN Start(b, "T", "none") /\ Becomes(w) /\ loop' = Idle(w.queue) /\ UNCHANGED uses

\* ev_token_bucket_update_ of the group
UpdateGroup(w) ==
  [w EXCEPT !.grp.limit = [d \in D |-> Refilled(@[d], GroupBurst, w.grp.owed)],
            !.grp.owed = 0]
ResumeGroup(w, ds, busy) == InTurn(LAMBDA x, d : GroupUnsuspend(x, d, busy), w, ds)

\* bev_group_refill_callback_, with a min_share of one
GroupRefill ==
  LET full == UpdateGroup(Now)
      back == {d \in D : d \in grp.again \/ (d \in grp.suspended /\ full.grp.limit[d] >= 1)}
  IN /\ Start(None, "G", "none")
     /\ \E busy \in Busy(Now, None) :
          LET w == ResumeGroup(full, back, busy)
          IN Becomes(w) /\ loop' = Idle(w.queue)
     /\ UNCHANGED uses

\* bufferevent_finalize_cb_
FinalizeCb(b) ==
  /\ loop.at \in {"poll", "run"} /\ queue # << >> /\ Head(queue).k = "free" /\ Head(queue).b = b
  /\ bev' = [bev EXCEPT ![b] = Gone(@)]
  /\ grp' = [grp EXCEPT !.members = @ \ {b}]
  /\ queue' = Tail(queue) /\ loop' = Idle(queue') /\ UNCHANGED uses

\* event_process_active_single_queue takes the next callback; its lock comes later.
Take ==
  /\ loop.at \in {"poll", "run"} /\ queue # << >> /\ Head(queue).k # "free"
  /\ loop' = [at |-> "taken", b |-> Head(queue).b, k |-> Head(queue).k, what |-> Head(queue).what]
  /\ queue' = Tail(queue) /\ UNCHANGED <<bev, grp, uses>>

\* The events that dispatch may find ready, and the timeouts that may have passed
Ready == {e \in UNION {{Entry(b, d, "io"), Entry(b, d, "timeout")} : b \in Bevs, d \in D} :
            LET v == bev[e.b]
            IN /\ v.st = "live" /\ e.k \in v.pend
               /\ \/ e.what = "io" /\ v.sock \in {"up", "refused", "dead"}
                  \/ e.what = "timeout" /\ e.k \in v.tv}

\* A socket whose connect has ended is ready for writing, whatever else it is.
Arrivals ==
  {s \in {<< >>} \cup {<<e>> : e \in Ready}
         \cup {<<e, f>> : e \in Ready, f \in Ready} :
     /\ \A i, j \in DOMAIN s : s[i].b = s[j].b /\ s[i].k = s[j].k => i = j
     /\ \A i \in DOMAIN s :
          LET v == bev[s[i].b]
          IN s[i] = Entry(s[i].b, "R", "io") /\ v.connecting /\ "W" \in v.pend
               => \E j \in DOMAIN s : s[j] = Entry(s[i].b, "W", "io")}

Due == {b \in Bevs : bev[b].due}

\* The active queue is empty, or was when the loop went to dispatch.
Idling == loop.at = "poll" \/ (loop.at = "run" /\ queue = << >>)

\* One dispatch of the event loop, then the timers that have run out.
Poll ==
  /\ Idling
  /\ \E s \in Arrivals :
       queue' = queue \o s \o SetToSeq({Entry(b, "T", "none") : b \in Due})
                      \o IF grp.due THEN <<Entry(None, "G", "none")>> ELSE << >>
  /\ queue' # queue
  /\ loop' = Idle(queue')
  /\ bev' = [b \in Bevs |-> IF b \in Due THEN [bev[b] EXCEPT !.pend = @ \ {"T"}, !.due = FALSE]
                            ELSE bev[b]]
  /\ grp' = [grp EXCEPT !.due = FALSE]
  /\ UNCHANGED uses

Limited == {b \in Bevs : bev[b].st = "live" /\ bev[b].cfg # NoCfg}
TimePasses == \/ \E b \in Limited : bev[b].owed < 2 \/ ("T" \in bev[b].pend /\ ~bev[b].due)
              \/ "group" \in uses /\ (grp.owed < 2 \/ ~grp.due)

\* Bound: of the ticks that a bucket has not seen, the first two count.
Tick ==
  /\ TimePasses
  /\ bev' = [b \in Bevs |->
               IF b \in Limited
               THEN [bev[b] EXCEPT !.owed = Least(@ + 1, 2),
                                   !.due = IF "T" \in bev[b].pend THEN TRUE ELSE @]
               ELSE bev[b]]
  /\ grp' = IF "group" \in uses THEN [grp EXCEPT !.owed = Least(@ + 1, 2), !.due = TRUE] ELSE grp
  /\ UNCHANGED <<queue, loop, uses>>

\* The network ends a connect.
Network(b) ==
  /\ bev[b].sock = "trying"
  /\ \E s \in {"up", "refused"} : bev' = [bev EXCEPT ![b].sock = s]
  /\ UNCHANGED <<grp, queue, loop, uses>>

---------------------------------------------------------------------------
(* Calls of the program *)

Call(part, b, w) ==
  /\ part \in uses /\ bev[b].own
  /\ Becomes(w) /\ UNCHANGED <<loop, uses>>

Enable(b, d) == d \notin bev[b].enabled /\ Call("enable", b, EnableBev(Now, b, {d}))
Disable(b, d) == d \in bev[b].enabled /\ Call("enable", b, DisableBev(Now, b, {d}))

\* bufferevent_write
Write(b) ==
  /\ bev[b].len["W"] < MaxLen
  /\ Call("write", b, OutbufCb([Now EXCEPT !.bev[b].len["W"] = @ + 1], b))

\* bufferevent_read
Read(b) ==
  /\ bev[b].len["R"] > 0
  /\ \E n \in 0 .. bev[b].len["R"] - 1 : Call("read", b, SetInput(Now, b, n))

\* bufferevent_setwatermark
SetReadMarks(b) ==
  \E m \in Marks \ {<<bev[b].low["R"], bev[b].high>>} :
    /\ bev[b].st = "live"
    /\ LET w == [Now EXCEPT !.bev[b].low["R"] = m[1], !.bev[b].high = m[2]]
       IN Call("marks", b, IF m[2] = 0 THEN Unsuspend(w, b, "R", "WM") ELSE WmCb(w, b))
SetWriteMark(b) ==
  \E n \in {0, 1} :
    /\ n # bev[b].low["W"]
    /\ Call("marks", b, [Now EXCEPT !.bev[b].low["W"] = n])

\* bufferevent_set_timeouts: the timers of the events follow.
SetTimeouts(b) ==
  \E t \in {{}, D} :
    /\ t # bev[b].tv
    /\ Call("timeouts", b, [Now EXCEPT !.bev[b].tv = t])

\* be_socket_setfd
SetFdTo(w, b, s) ==
  LET clear == IF "be_socket_setfd" \in Repaired THEN Over(w, b) ELSE w
      off == Del(Del(clear, b, "R"), b, "W")
      on == EnableBev([off EXCEPT !.bev[b].sock = s], b, w.bev[b].enabled)
  IN [on EXCEPT !.bev[b].lookup = IF @ = "no" THEN @ ELSE "cancelled"]

SetFd(b) ==
  /\ bev[b].sock # "none"
  /\ Call("setfd", b, [SetFdTo(Now, b, "up") EXCEPT !.bev[b].greet = FALSE])

\* bufferevent_socket_connect, for each result of the system call
ConnectTo(w, b, result) ==
  CASE result = "fails" -> RunCb(w, b, "error")
    [] result = "waits" ->
         [SockEnable(SetFdTo(w, b, "trying"), b, {"W"}) EXCEPT
            !.bev[b].connecting = TRUE, !.bev[b].greet = TRUE]
    [] result = "at once" ->
         LET up == [SetFdTo(w, b, "up") EXCEPT !.bev[b].connecting = TRUE, !.bev[b].greet = TRUE]
         IN IF "bufferevent_socket_connect" \in Repaired THEN SockEnable(up, b, {"W"})
            ELSE Trigger(up, b, "W")
    [] result = "refused" -> DisableBev(RunCb(SetFdTo(w, b, "dead"), b, "error"), b, D)

Results == {"fails", "waits", "at once", "refused"}

Connect(b) ==
  /\ bev[b].sock = "none"
  /\ \E result \in Results : Call("connect", b, ConnectTo(Now, b, result))

\* bufferevent_socket_connect_hostname
ConnectHostname(b) ==
  /\ bev[b].sock = "none" /\ bev[b].lookup = "no"
  /\ Call("lookup", b,
          [Incref(Suspend(Suspend(Now, b, "W", "LOOKUP"), b, "R", "LOOKUP"), b) EXCEPT
             !.bev[b].lookup = "pending"])

\* bufferevent_connect_getaddrinfo_cb, from a callback of the resolver
LookupDone(b) ==
  LET w == [Unsuspend(Unsuspend(Now, b, "W", "LOOKUP"), b, "R", "LOOKUP") EXCEPT
              !.bev[b].lookup = "no"]
  IN /\ loop.at \in {"poll", "run"}
     /\ \/ bev[b].lookup = "cancelled" /\ Becomes(Decref(w, b))
        \/ bev[b].lookup = "pending" /\ Becomes(Decref(RunCb(w, b, "error"), b))
        \/ /\ bev[b].lookup = "pending"
           /\ \E result \in Results : Becomes(Decref(ConnectTo(w, b, result), b))
     /\ UNCHANGED <<loop, uses>>

\* bufferevent_set_rate_limit
WithCfg(w, b, c) ==
  LET v == w.bev[b]
  IN [w EXCEPT !.bev[b].cfg = c,
               !.bev[b].owed = IF v.cfg = NoCfg THEN 0 ELSE @,
               !.bev[b].limit = [d \in D |-> IF v.cfg = NoCfg THEN Rate
                                             ELSE Least(@[d], Burst[c])]]
Settle(w, b) ==
  InTurn(LAMBDA x, d : IF w.bev[b].limit[d] > 0 THEN Unsuspend(x, b, d, "BW")
                       ELSE Suspend(x, b, d, "BW"), Del(w, b, "T"), D)
SetRateLimit(b, c) ==
  LET w == WithCfg(Now, b, c)
      set == Settle(w, b)
  IN /\ c # bev[b].cfg
     /\ Call("limit", b, IF \E d \in D : w.bev[b].limit[d] <= 0 THEN Add(set, b, "T") ELSE set)

EndRateLimit(b) ==
  LET w == [Now EXCEPT !.bev[b].cfg = NoCfg, !.bev[b].limit = [d \in D |-> 0], !.bev[b].owed = 0]
  IN /\ bev[b].cfg # NoCfg
     /\ Call("limit", b, Del(UnsuspendAll(w, b, D, "BW"), b, "T"))

\* bufferevent_decrement_read_limit, bufferevent_decrement_write_limit: bytes
\* moved elsewhere are counted, or given back. Bounds: the bucket is overdrawn by
\* one byte at most, and never given more than the refill would leave in it.
DecrementLimit(b, d) ==
  LET v == bev[b]
      old == v.limit[d]
  IN /\ v.cfg # NoCfg
     /\ \E new \in -1 .. Burst[v.cfg] :
          LET w == [Now EXCEPT !.bev[b].limit[d] = new]
          IN \/ /\ old > 0 /\ new <= 0
                /\ Call("decrement", b, Add(Suspend(w, b, d, "BW"), b, "T"))
             \/ /\ old <= 0 /\ new > 0
                /\ Call("decrement", b,
                        Unsuspend(IF "BW" \in v.susp[Other(d)] THEN w ELSE Del(w, b, "T"),
                                  b, d, "BW"))
             \/ (old > 0 <=> new > 0) /\ Call("decrement", b, w)

\* bufferevent_add_to_rate_limit_group, bufferevent_remove_from_rate_limit_group
Join(b) ==
  /\ b \notin grp.members
  /\ Call("group", b,
          SuspendAll([Now EXCEPT !.grp.members = @ \cup {b}], b, grp.suspended, "GROUP"))
Leave(b) ==
  /\ b \in grp.members
  /\ Call("group", b, UnsuspendAll([Now EXCEPT !.grp.members = @ \ {b}], b, D, "GROUP"))

\* bufferevent_free
Free(b) ==
  /\ bev[b].own
  /\ Call("free", b, Decref([Now EXCEPT !.bev[b].own = FALSE, !.bev[b].cbs = FALSE], b))

---------------------------------------------------------------------------
LoopStep == \/ Poll \/ Take \/ GroupRefill
            \/ \E b \in Bevs : \/ ReadCb(b) \/ WriteCb(b) \/ Refill(b)
                               \/ RunDeferred(b) \/ CallbackReturns(b) \/ FinalizeCb(b)
Program(b) == \/ \E d \in D : Enable(b, d) \/ Disable(b, d) \/ DecrementLimit(b, d)
              \/ Write(b) \/ Read(b) \/ SetReadMarks(b) \/ SetWriteMark(b) \/ SetTimeouts(b)
              \/ SetFd(b) \/ Connect(b) \/ ConnectHostname(b) \/ Free(b)
              \/ \E c \in Cfgs : SetRateLimit(b, c)
              \/ EndRateLimit(b) \/ Join(b) \/ Leave(b)

Next == LoopStep \/ Tick \/ \E b \in Bevs : Network(b) \/ LookupDone(b) \/ Program(b)

Spec == Init /\ [][Next]_vars

(***************************************************************************)
(* The loop goes on (its place changes), and so does the clock: weak        *)
(* fairness of both, written out.  The program at last leaves its limits    *)
(* alone: each new one, and each decrement that empties a bucket, puts the  *)
(* refill off by a tick.                                                    *)
(***************************************************************************)
LoopReady == loop.at \in {"taken", "telling"} \/ queue # << >> \/ Due # {} \/ grp.due

FairSpec == /\ Spec
            /\ []<>~LoopReady \/ []<><<TRUE>>_loop
            /\ []<>~TimePasses \/ []<><<Tick>>_vars
            /\ <>[][\A b \in Bevs : bev'[b].cfg = bev[b].cfg
                     /\ \A d \in D : ~DecrementLimit(b, d)]_vars

---------------------------------------------------------------------------
(* Properties *)

TypeOK ==
  /\ uses \in Programs
  /\ \A b \in Bevs :
       LET v == bev[b]
       IN /\ v.st \in {"unused", "live", "freed"} /\ v.refcnt \in 0 .. 4
          /\ v.enabled \subseteq D /\ v.tv \subseteq D /\ v.pend \subseteq D \cup {"T"}
          /\ v.susp \in [D -> SUBSET {"WM", "BW", "GROUP", "LOOKUP"}]
          /\ v.len \in [D -> 0 .. MaxLen] /\ v.tell \subseteq Events \cup {"read", "write"}
          /\ v.cfg \in Cfgs \cup {NoCfg} /\ v.limit \in [D -> Int]
  /\ grp.members \subseteq Bevs /\ grp.suspended \subseteq D /\ grp.again \subseteq D

\* An event is added exactly while its direction is wanted and nothing suspends
\* it; that of writing also to end a connect, and perhaps not without data.  A
\* socket that was refused has none until the program asks again.
Waits(v) ==
  /\ "R" \in v.pend => "R" \in v.enabled /\ v.susp["R"] = {}
  /\ "W" \in v.pend => v.connecting \/ ("W" \in v.enabled /\ v.susp["W"] = {})
  /\ v.sock \in {"none", "trying", "up"} =>
       /\ "R" \in v.enabled /\ v.susp["R"] = {} => "R" \in v.pend
       /\ "W" \in v.enabled /\ v.susp["W"] = {} /\ v.len["W"] > 0 => "W" \in v.pend

\* Reading is suspended for the mark exactly while the input has reached it.
MarkHeld(v) == ("WM" \in v.susp["R"]) <=> (v.high # 0 /\ v.len["R"] >= v.high)

\* An empty bucket suspends, and what it suspends is going to be resumed.
BandwidthHeld(b) ==
  LET v == bev[b]
  IN \A d \in D :
       /\ v.cfg # NoCfg /\ v.limit[d] <= 0 => "BW" \in v.susp[d]
       /\ "BW" \in v.susp[d] =>
            v.cfg # NoCfg /\ ("T" \in v.pend \/ Queued(Now, b, "T") \/ Running(b) = "T")
       /\ "GROUP" \in v.susp[d] => b \in grp.members /\ d \in grp.suspended \cup grp.again
       /\ d \notin grp.suspended => grp.limit[d] > 0

\* Whoever is not suspended has bytes to ask for: asking for none would be taken
\* for the end of the stream.
AsksForBytes(b) ==
  \A d \in D : LET w == AskRlim(Now, b, d)
               IN w.bev[b].susp[d] = {} => RlimMax(w, b, d) > 0

\* Each reference has its holder; callbacks owed have one who will make them.
Held(b) ==
  LET v == bev[b]
      Of(p) == IF p THEN 1 ELSE 0
  IN /\ v.refcnt = Of(v.own) + Of(Queued(Now, b, "D")) + Of(Running(b) = "D")
                   + Of(v.lookup # "no")
     /\ v.tell # {} /\ v.cbs => Queued(Now, b, "D") \/ Running(b) = "D"

\* What every call, callback and refill of the three files has to leave intact,
\* whatever the other thread did between the loop's taking a callback and its lock.
Inv ==
  /\ TypeOK
  /\ \A b \in Bevs : bev[b].st = "live" /\ bev[b].final = {} =>
       Waits(bev[b]) /\ MarkHeld(bev[b]) /\ BandwidthHeld(b) /\ AsksForBytes(b) /\ Held(b)

\* bufferevent_finalize_cb_ frees once, after the last reference, and nothing of
\* the bufferevent is left in the event base, in the group or with the loop.
Released ==
  \A b \in Bevs :
    /\ bev[b].st = "freed" =>
         /\ bev[b].refcnt = 0 /\ bev[b].pend = {} /\ b \notin grp.members
         /\ ~\E i \in DOMAIN queue : queue[i].b = b
         /\ loop.b # b
    /\ bev[b].final # {} => ~bev[b].own

\* "The connected happened before any reads or writes, so send it first"
\* (bufferevent.c:145), and only of a socket that is connected.
ConnectedFirst ==
  /\ loop.at = "telling" /\ loop.what \in {"read", "write"} => ~bev[loop.b].greet
  /\ \A b \in Bevs : "connected" \in bev[b].tell => bev[b].sock = "up"

\* Bytes move only while nothing suspends the direction, never past the mark,
\* beyond the bucket or beyond the share of the group.
MayMove(w, b, d, n) ==
  LET v == w.bev[b]
  IN /\ v.susp[d] = {}
     /\ b \in w.grp.members => d \notin w.grp.suspended /\ n <= Share(w, d)
     /\ v.cfg # NoCfg => n <= Refilled(v.limit[d], Burst[v.cfg], v.owed)

WithinLimits(w, x, b) ==
  LET in == x.bev[b].len["R"] - w.bev[b].len["R"]
      out == w.bev[b].len["W"] - x.bev[b].len["W"]
  IN x.bev[b].st = "live" =>
       /\ in > 0 => /\ MayMove(w, b, "R", in)
                    /\ w.bev[b].high # 0 => x.bev[b].len["R"] <= w.bev[b].high
       /\ out > 0 => MayMove(w, b, "W", out)

MovesWithinLimits == [][\A b \in Bevs : WithinLimits(Now, Now', b)]_vars

\* What was suspended for its bandwidth is resumed (bev_refill_callback_).
Resumes ==
  \A b \in Bevs, d \in D :
    (bev[b].st = "live" /\ "BW" \in bev[b].susp[d]) ~> ~(bev[b].st = "live" /\ "BW" \in bev[b].susp[d])
==============================================================================
