-------------------------------- MODULE EvDns --------------------------------
(***************************************************************************)
(* The resolver of net/libevent/src/evdns.c: requests wait for a place among *)
(* those in flight, are sent to a nameserver, sent again when no answer      *)
(* comes, to another server when one refuses, and end with one callback.     *)
(* Servers that fail are taken out of use and probed until they answer.      *)
(*                                                                           *)
(* Everything runs under the lock of the base; a callback of the event base  *)
(* or a call of the program is one step.  A C function that others call is   *)
(* an operator from the world before it to the world after it.  The network  *)
(* loses, delays and reorders.                                               *)
(***************************************************************************)
EXTENDS Integers, Sequences, FiniteSets, SequencesExt

CONSTANTS
  Users,           \* the requests of the program, each made once
  Servers,         \* the nameservers; a probe is known by its server
  NoServer,        \* NULL
  NIds,            \* the transaction ids are 0 .. NIds - 1
  Starts,          \* bound: where the search for an unused id begins
  Names,           \* how many names the search of each user goes through
  MaxInflight, PerHead,  \* global_max_requests_inflight, and 5
  MaxReissues,     \* global_max_reissues
  MaxTimeouts,     \* global_max_nameserver_timeout
  Repaired,        \* the functions taken with a repair, see README
  MaxNet,          \* bound: the queries under way
  MaxTroubles,     \* bound: how often a socket fails, suspensions, and the end
  Uses             \* bound: how a base may be set up and used, see use

VARIABLES
  req,        \* the current request of each handle
  heads,      \* req_heads, each from its first request on
  waiting,    \* req_waiting_head
  ring,       \* the nameservers, from server_head on
  srv,        \* each nameserver
  good, ninflight, nwaiting,  \* the global_ counters of the base
  deferred,   \* the callbacks queued in the event base, and what they tell a probe
  told,       \* history: how often the program was told
  asked,      \* history: the users that have made their request
  net,        \* the queries that may still be answered
  sock,       \* what a send to a server does
  heard,      \* history: a packet has come from the server since it failed
  gone,       \* history: nameservers freed
  fault,      \* history: the assertions of evdns.c that have failed
  troubles, state,
  use         \* what this base is used for; never changes

vars == <<req, heads, waiting, ring, srv, good, ninflight, nwaiting, deferred,
          told, asked, net, sock, heard, gone, fault, troubles, state, use>>

Handles == Users \cup Servers
NHeads == (MaxInflight + PerHead - 1) \div PerHead
Ids == 0 .. NIds - 1

\* ask: who makes a request; retransmits: global_max_retransmits; shaky: the
\* servers whose sockets get "full" or have an "error"; calls: what the program
\* may call besides.
UseType == [ask : SUBSET Users, retransmits : Nat, shaky : SUBSET (Servers \X {"full", "error"}),
            calls : SUBSET {"suspend", "free"}]

EvDnsAssumption ==
  /\ Users \cap Servers = {} /\ NoServer \notin Handles
  /\ \A u \in Uses : u \in UseType
  /\ {NIds, MaxInflight, PerHead} \subseteq Nat \ {0} /\ Starts \subseteq Ids
  /\ Names \in [Users -> Nat \ {0}]
  /\ {MaxReissues, MaxTimeouts} \subseteq Nat
  /\ NIds > MaxInflight + Cardinality(Servers)
ASSUME EvDnsAssumption

\* tosend: transmit_me; left: the names that its search has still to try;
\* sentTo: history, the server to which the query was last put on a socket
NoReq == [live |-> FALSE, id |-> 0, ns |-> NoServer, tx |-> 0, reissues |-> 0,
          tosend |-> FALSE, timer |-> FALSE, left |-> 0, sentTo |-> NoServer]
NewServer == [up |-> TRUE, timedout |-> 0, choked |-> FALSE, writing |-> FALSE,
              prod |-> FALSE, probe |-> FALSE, inflight |-> 0]

Init ==
  /\ req = [h \in Handles |-> NoReq]
  /\ heads = [i \in 0 .. NHeads - 1 |-> << >>] /\ waiting = << >>
  /\ ring = SetToSeq(Servers) /\ srv = [s \in Servers |-> NewServer]
  /\ good = Cardinality(Servers) /\ ninflight = 0 /\ nwaiting = 0
  /\ deferred = << >> /\ told = [u \in Users |-> 0] /\ asked = {}
  /\ net = {} /\ sock = [s \in Servers |-> "ok"]
  /\ heard = Servers
  /\ gone = {} /\ fault = {} /\ troubles = 0 /\ state = "open"
  /\ use \in Uses

Now(start) ==
  [req |-> req, heads |-> heads, waiting |-> waiting, ring |-> ring, srv |-> srv,
   good |-> good, ninflight |-> ninflight, nwaiting |-> nwaiting, deferred |-> deferred,
   net |-> net, heard |-> heard, gone |-> gone, fault |-> fault,
   start |-> start, closing |-> FALSE]

\* The world becomes one of those that the call can end in.
Becomes(worlds) ==
  \E w \in worlds :
    /\ req' = w.req /\ heads' = w.heads /\ waiting' = w.waiting /\ ring' = w.ring
    /\ srv' = w.srv /\ good' = w.good /\ ninflight' = w.ninflight /\ nwaiting' = w.nwaiting
    /\ deferred' = w.deferred /\ net' = w.net /\ heard' = w.heard
    /\ gone' = w.gone /\ fault' = w.fault

Assert1(w, holds, what) == IF holds THEN w ELSE [w EXCEPT !.fault = @ \cup {what}]
Alive(w, s) == Assert1(w, s \notin w.gone, "freed")

Rotate(s, n) == SubSeq(s, n + 1, Len(s)) \o SubSeq(s, 1, n)
Inflight(w) == FoldLeft(LAMBDA s, i : s \o w.heads[i], << >>, [i \in 1 .. NHeads |-> i - 1])

---------------------------------------------------------------------------
(* Nameservers *)

\* nameserver_pick
Pick(w) ==
  LET n == Len(w.ring)
      ups == {i \in 1 .. n : w.srv[w.ring[i]].up}
      i == CHOOSE k \in ups : \A j \in ups : k <= j
      l == Assert1(Alive(w, w.ring[1]), w.good = 0 \/ ups # {}, "good")
  IN CASE n = 0 -> [ns |-> NoServer, w |-> w]
       [] n > 0 /\ w.good = 0 -> [ns |-> w.ring[1 + (1 % n)], w |-> [l EXCEPT !.ring = Rotate(@, 1)]]
       [] OTHER -> IF ups = {} THEN [ns |-> w.ring[1], w |-> [l EXCEPT !.ring = Rotate(@, 1)]]
                   ELSE [ns |-> w.ring[i], w |-> [l EXCEPT !.ring = Rotate(@, i)]]

\* request_swap_ns
SwapNs(w, h, s) ==
  LET old == w.req[h].ns
  IN IF s = NoServer \/ s = old THEN w
     ELSE [Assert1(w, w.srv[old].inflight > 0, "inflight") EXCEPT
             !.srv[old].inflight = @ - 1, !.srv[s].inflight = @ + 1, !.req[h].ns = s]

\* Faulty: the counts of the two servers do not follow
RepickUncounted(w, h) ==
  LET p == Pick(w) IN IF p.ns = NoServer THEN p.w ELSE [p.w EXCEPT !.req[h].ns = p.ns]

Repick(w, h) == LET p == Pick(w) IN SwapNs(p.w, h, p.ns)

\* nameserver_failed
Failed(w, s) ==
  LET down == [Alive(w, s) EXCEPT !.good = @ - 1, !.srv[s].up = FALSE, !.srv[s].prod = TRUE,
                                  !.heard = @ \ {s}]
      Away(v, h) == IF v.req[h].tx = 0 /\ v.req[h].ns = s THEN Repick(v, h) ELSE v
  IN CASE ~w.srv[s].up -> w
       [] w.srv[s].up /\ w.good = 1 -> down
       [] OTHER -> FoldLeft(Away, down, Inflight(w))

---------------------------------------------------------------------------
(* Sending.  A query that finds no room in the network is lost.            *)

\* Faulty: no timeout for the request
TransmitUntimed(w, h) ==
  LET r == w.req[h]
      t == Alive(w, r.ns)
      q == [to |-> r.ns, id |-> r.id, handle |-> h, left |-> r.left]
  IN IF sock[r.ns] = "full"
     THEN [t EXCEPT !.req[h].tosend = TRUE, !.srv[r.ns].choked = TRUE, !.srv[r.ns].writing = TRUE]
     ELSE [t EXCEPT !.req[h].tx = @ + 1, !.req[h].tosend = FALSE, !.req[h].sentTo = r.ns,
                    !.net = IF Cardinality(@) < MaxNet THEN @ \cup {q} ELSE @]

\* evdns_request_transmit, evdns_request_transmit_to.  When a send fails, the
\* server does, and with it goes every request that is still to be sent, this
\* one too; repaired, this one counts as sent before the server fails.
Transmit(w, h) ==
  LET r == w.req[h]
      t == [Alive(w, r.ns) EXCEPT !.req[h].tosend = TRUE]
      q == [to |-> r.ns, id |-> r.id, handle |-> h, left |-> r.left]
      put == [t EXCEPT !.req[h].sentTo = r.ns]
      Sent(v) == [v EXCEPT !.req[h].timer = TRUE, !.req[h].tx = @ + 1, !.req[h].tosend = FALSE]
  IN CASE r.ns = NoServer \/ (r.ns # NoServer /\ w.srv[r.ns].choked) -> t
       [] OTHER ->
            CASE sock[r.ns] = "full" -> [t EXCEPT !.srv[r.ns].choked = TRUE, !.srv[r.ns].writing = TRUE]
              [] sock[r.ns] = "error" -> IF "evdns_request_transmit" \in Repaired THEN Failed(Sent(put), r.ns)
                                         ELSE Sent(Failed(put, r.ns))
              [] OTHER -> Sent([put EXCEPT !.net = IF Cardinality(@) < MaxNet THEN @ \cup {q} ELSE @])

ToSend(w) == SelectSeq(Inflight(w), LAMBDA h : w.req[h].tosend)

\* evdns_transmit
TransmitAll(w) == FoldLeft(LAMBDA v, h : IF v.req[h].tosend THEN Transmit(v, h) ELSE v, w, Inflight(w))

---------------------------------------------------------------------------
(* Queues *)

\* transaction_id_pick: some id that no request in flight has
IdPick(w) ==
  LET free == {k \in Ids : \A h \in ToSet(Inflight(w)) : w.req[h].id # (w.start + k) % NIds}
  IN (w.start + CHOOSE k \in free : \A j \in free : k <= j) % NIds

\* evdns_request_insert into the list of the id
Insert(w, h) == [w EXCEPT !.heads[w.req[h].id % NHeads] = Append(@, h),
                          !.ninflight = @ + 1, !.srv[w.req[h].ns].inflight = @ + 1]

\* request_new: a request is only given a server when there is a place for it.
New(w, left) ==
  LET issuing == w.ninflight < MaxInflight
      p == Pick(w)
      r == [NoReq EXCEPT !.live = TRUE, !.left = left]
  IN IF issuing THEN [r |-> [r EXCEPT !.id = IdPick(w), !.ns = p.ns], w |-> p.w]
     ELSE [r |-> r, w |-> w]

\* request_submit
Submit(w, h, r) ==
  LET v == [w EXCEPT !.req[h] = r]
  IN IF r.ns # NoServer THEN Transmit(Insert(v, h), h)
     ELSE [v EXCEPT !.waiting = Append(@, h), !.nwaiting = @ + 1]

\* evdns_requests_pump_waiting_queue
RECURSIVE Pump(_)
Pump(w) ==
  LET h == Head(w.waiting)
      p == Pick(w)
      v == [p.w EXCEPT !.waiting = Tail(@), !.nwaiting = @ - 1, !.req[h].ns = p.ns,
                       !.req[h].id = IdPick(w)]
  IN CASE w.ninflight >= MaxInflight \/ w.nwaiting = 0 \/ w.closing -> w
       [] w.ninflight < MaxInflight /\ w.nwaiting > 0 /\ ~w.closing /\ w.waiting = << >> ->
            Assert1(w, FALSE, "waiting")
       [] OTHER -> IF p.ns = NoServer THEN p.w ELSE Pump(TransmitAll(Transmit(Insert(v, h), h)))

\* Faulty: nobody is let in when a place becomes free
FinishedUnpumped(w, h) ==
  LET r == w.req[h]
      i == r.id % NHeads
      flying == [w EXCEPT !.heads[i] = SelectSeq(@, LAMBDA x : x # h),
                          !.ninflight = @ - 1, !.srv[r.ns].inflight = @ - 1]
      held == [w EXCEPT !.waiting = SelectSeq(@, LAMBDA x : x # h), !.nwaiting = @ - 1]
  IN [(IF r.ns # NoServer THEN flying ELSE held) EXCEPT !.req[h] = NoReq]

\* request_finished, for a request in flight or waiting
Finished(w, h) ==
  LET r == w.req[h]
      i == r.id % NHeads
      flying == [Alive(Assert1(w, h \in ToSet(w.heads[i]), "list"), r.ns) EXCEPT
                   !.heads[i] = SelectSeq(@, LAMBDA x : x # h),
                   !.ninflight = @ - 1, !.srv[r.ns].inflight = @ - 1]
      held == [Assert1(w, h \in ToSet(w.waiting), "list") EXCEPT
                 !.waiting = SelectSeq(@, LAMBDA x : x # h), !.nwaiting = @ - 1]
  IN Pump([(IF r.ns # NoServer THEN flying ELSE held) EXCEPT !.req[h] = NoReq])

\* reply_schedule_callback.  What a user is told does not matter here.
Schedule(w, h, err) == [w EXCEPT !.deferred = Append(@, <<h, IF h \in Users THEN "done" ELSE err>>)]
Conclude(w, h, err) == Finished(Schedule(w, h, err), h)

\* evdns_cancel_request
Cancel(w, h) == IF w.req[h].live THEN Conclude(w, h, "cancel") ELSE w

\* nameserver_up
Up(w, s) ==
  LET quiet == [w EXCEPT !.srv[s].prod = FALSE]
      v == IF w.srv[s].probe THEN [Cancel(quiet, s) EXCEPT !.srv[s].probe = FALSE] ELSE quiet
  IN IF w.srv[s].up THEN w
     ELSE [v EXCEPT !.srv[s].up = TRUE, !.srv[s].timedout = 0, !.good = @ + 1]

---------------------------------------------------------------------------
(* Answers and timeouts *)

\* A probe goes to another server when its own does not answer or refuses it;
\* repaired, it stays.
Stays(h) == h \in Servers /\ "nameserver_send_probe" \in Repaired

\* Faulty: a server that is still to be asked is blamed as well
TimedOutUnasked(w, h) ==
  LET ns == w.req[h].ns
      l == [w EXCEPT !.req[h].timer = FALSE]
      t == Transmit(IF Stays(h) THEN l ELSE Repick(l, h), h)
      counted == [t EXCEPT !.srv[ns].timedout = @ + 1]
  IN IF w.req[h].tx >= use.retransmits THEN Failed(Conclude(l, h, "timeout"), ns)
     ELSE IF counted.srv[ns].timedout > MaxTimeouts
          THEN Failed([counted EXCEPT !.srv[ns].timedout = 0], ns) ELSE counted

\* evdns_request_timeout_callback: the next server is blamed for the silence
\* of the last one.  Repaired, the last one is, unless the request was still to
\* be sent to it.
TimedOut(w, h) ==
  LET ns == w.req[h].ns
      repaired == "evdns_request_timeout_callback" \in Repaired
      l == [w EXCEPT !.req[h].timer = FALSE]
      t == Transmit(IF Stays(h) THEN l ELSE Repick(l, h), h)
      blamed == IF repaired THEN ns ELSE t.req[h].ns
      counted == [t EXCEPT !.srv[blamed].timedout = @ + 1]
  IN CASE w.req[h].tx >= use.retransmits -> Failed(Conclude(l, h, "timeout"), ns)
       [] w.req[h].tx < use.retransmits /\ repaired /\ w.req[h].tosend -> t
       [] OTHER -> IF counted.srv[blamed].timedout > MaxTimeouts
                   THEN Failed([counted EXCEPT !.srv[blamed].timedout = 0], blamed) ELSE counted

\* search_try_next: the next request is made before the last one is finished,
\* and takes its place in the queue after others have been let in.  Repaired,
\* it is made when the place is free.
TryNext(w, h) ==
  LET left == w.req[h].left - 1
      n == New(w, left)
      f == Finished([w EXCEPT !.closing = TRUE], h)
      m == New([f EXCEPT !.closing = FALSE], left)
  IN IF "search_try_next" \in Repaired THEN Submit(m.w, h, m.r)
     ELSE Submit(Finished(n.w, h), h, n.r)

\* "all else failed. Pass the failure up", unless there is another name to try
Otherwise(w, h, err) == IF w.req[h].left > 0 THEN TryNext(w, h) ELSE Conclude(w, h, err)

\* The server of the request has given a good reply.
GoodReply(w, h) ==
  LET ns == w.req[h].ns
  IN Up([w EXCEPT !.srv[ns].probe = @ /\ h # ns], ns)

\* request_reissue
Reissue(w, h) ==
  LET v == Repick(w, h)
  IN [ok |-> v.req[h].ns # w.req[h].ns,
      w |-> [v EXCEPT !.req[h].reissues = @ + 1, !.req[h].tx = 0, !.req[h].tosend = TRUE],
      failed |-> v]

\* reply_handle
Reply(w, h, code) ==
  LET r == w.req[h]
      re == Reissue(Failed(w, r.ns), h)
  IN CASE code = "ok" -> Finished(GoodReply(Schedule(w, h, "ok"), h), h)
       [] code = "refused" /\ r.reissues < MaxReissues /\ ~Stays(h) ->
            IF re.ok THEN re.w ELSE Otherwise(re.failed, h, code)
       [] code = "refused" /\ (r.reissues >= MaxReissues \/ Stays(h)) -> Otherwise(w, h, code)
       [] code = "servfail" -> TimedOut(w, h)
       [] OTHER -> Otherwise(GoodReply(w, h), h, code)

---------------------------------------------------------------------------
(* The callbacks of the event base *)

Running == state = "open"
Same == UNCHANGED <<told, asked, sock, troubles, state, use>>

MayTimeOut(h) == Running /\ req[h].timer

\* The timeout of a request
evdns_request_timeout_callback(h) ==
  /\ MayTimeOut(h)
  /\ Becomes({TimedOut(Now(start), h) : start \in Starts})
  /\ Same

\* nameserver_read: a packet from server s.  reply_parse looks for the request
\* by its id, whatever server it was sent to, and compares the names if there
\* is no error; repaired, the server has to be that of the request.
nameserver_read(q, code) ==
  LET s == q.to
      Got(start) == [Now(start) EXCEPT !.net = @ \ {q}, !.heard = @ \cup {s},
                                       !.srv[s].timedout = 0]
      known == {h \in ToSet(Inflight(Now(0))) :
                  req[h].id = q.id /\ ("reply_parse" \in Repaired => req[h].ns = s)}
      h == CHOOSE x \in known : TRUE
      other == code \in {"ok", "nx"} /\ <<h, req[h].left>> # <<q.handle, q.left>>
  IN /\ Running /\ q \in net /\ s \notin gone
     /\ Becomes({IF known = {} THEN Got(start) ELSE Reply(Got(start), h, IF other THEN "bad" ELSE code) : start \in Starts})
     /\ Same

\* nameserver_read when the socket has an error
nameserver_read_error(s) ==
  /\ Running /\ sock[s] = "error" /\ s \notin gone /\ srv[s].up
  /\ Becomes({Failed(Now(start), s) : start \in Starts})
  /\ Same

MayWrite(s) == Running /\ srv[s].writing /\ sock[s] # "full" /\ s \notin gone

\* nameserver_ready_callback, the socket is writable
nameserver_write(s) ==
  LET w == [Now(0) EXCEPT !.srv[s].choked = FALSE]
  IN /\ MayWrite(s)
     /\ Becomes({IF ToSend(w) = << >> THEN [w EXCEPT !.srv[s].writing = FALSE] ELSE TransmitAll(w)})
     /\ Same

\* nameserver_prod_callback, nameserver_send_probe: the probe goes to its
\* server, whatever the limits.  The timer runs for seconds, longer than a
\* callback that is queued waits.
nameserver_prod_callback(s) ==
  LET Probe(start) ==
        LET n == New([Now(start) EXCEPT !.srv[s].prod = FALSE, !.srv[s].probe = TRUE], 0)
        IN Submit(Assert1(n.w, ~req[s].live, "probe"), s, [n.r EXCEPT !.id = IdPick(n.w), !.ns = s])
  IN /\ Running /\ srv[s].prod /\ \A i \in 1 .. Len(deferred) : deferred[i][1] # s
     /\ Becomes({Probe(start) : start \in Starts})
     /\ Same

\* nameserver_probe_callback.  It is told of an answer that was good when it
\* came, after the server has been brought up for it and may have failed again.
ProbeCallback(w, s, err) ==
  LET l == [Alive(w, s) EXCEPT !.srv[s].probe = FALSE]
  IN CASE err = "cancel" -> w
       [] err \in {"ok", "nx"} -> Up(l, s)
       [] OTHER -> [l EXCEPT !.srv[s].prod = ~l.srv[s].up]

\* reply_run_callback
reply_run_callback ==
  LET h == deferred[1][1]
      err == deferred[1][2]
      W(start) == [Now(start) EXCEPT !.deferred = Tail(@)]
  IN /\ deferred # << >>
     /\ Becomes({IF h \in Servers THEN ProbeCallback(W(start), h, err) ELSE W(start) : start \in Starts})
     /\ told' = IF h \in Users THEN [told EXCEPT ![h] = @ + 1] ELSE told
     /\ UNCHANGED <<asked, sock, troubles, state, use>>

---------------------------------------------------------------------------
(* The calls of the program *)

\* evdns_base_resolve_ipv4 and the like
evdns_base_resolve(u) ==
  LET n(start) == New(Now(start), Names[u] - 1)
  IN /\ Running /\ u \in use.ask \ asked
     /\ asked' = asked \cup {u}
     /\ Becomes({Submit(n(start).w, u, n(start).r) : start \in Starts})
     /\ UNCHANGED <<told, sock, troubles, state, use>>

evdns_cancel_request(u) ==
  /\ Running /\ req[u].live
  /\ Becomes({Cancel(Now(start), u) : start \in Starts})
  /\ Same

\* Requests in flight go back to the front of the waiting queue.
Suspended(w) ==
  LET Back(v, h) == [v EXCEPT !.req[h] = [NoReq EXCEPT !.live = TRUE, !.left = v.req[h].left],
                              !.waiting = <<h>> \o @, !.nwaiting = @ + 1]
  IN [FoldLeft(Back, w, Inflight(w)) EXCEPT
        !.heads = [i \in 0 .. NHeads - 1 |-> << >>], !.ninflight = 0, !.ring = << >>, !.good = 0]

\* The servers are freed one by one, and their probes cancelled; repaired, the
\* probes are cancelled first and their queued callbacks dropped.
FreeServers(w) ==
  LET Calm(v, s) == [(IF v.srv[s].probe THEN Cancel(v, s) ELSE v) EXCEPT !.srv[s].probe = FALSE]
      Free(v, s) == [Calm(v, s) EXCEPT !.gone = @ \cup {s}, !.srv[s].prod = FALSE]
      calm == FoldLeft(Calm, w, w.ring)
      quiet == [calm EXCEPT !.deferred = SelectSeq(@, LAMBDA d : d[1] \in Users)]
  IN FoldLeft(Free, IF "evdns_base_clear_nameservers_and_suspend" \in Repaired THEN quiet ELSE w, w.ring)

evdns_base_clear_nameservers_and_suspend ==
  /\ "suspend" \in use.calls /\ Running /\ ring # << >> /\ troubles < MaxTroubles
  /\ troubles' = troubles + 1
  /\ Becomes({Suspended(FreeServers(Now(start))) : start \in Starts})
  /\ UNCHANGED <<told, asked, sock, state, use>>

MayResume == Running /\ ring = << >> /\ \A i \in 1 .. Len(deferred) : deferred[i][1] \in Users

\* evdns_base_nameserver_add for each server, and evdns_base_resume
evdns_base_resume ==
  LET w(start) == [Now(start) EXCEPT !.ring = SetToSeq(Servers), !.gone = {}, !.good = Cardinality(Servers),
                                     !.srv = [s \in Servers |-> NewServer], !.heard = Servers, !.net = {}]
  IN /\ MayResume
     /\ Becomes({Pump(w(start)) : start \in Starts})
     /\ Same

\* evdns_base_free_and_unlock: every request is finished, in flight first.
\* One that waits may be let in behind the back of the loop; repaired, none is.
RECURSIVE FinishHead(_, _), FinishWaiting(_)
FinishHead(w, i) == IF w.heads[i] = << >> THEN w ELSE FinishHead(Conclude(w, Head(w.heads[i]), "shutdown"), i)
FinishWaiting(w) == IF w.waiting = << >> THEN w ELSE FinishWaiting(Conclude(w, Head(w.waiting), "shutdown"))

\* Faulty: the requests that wait are freed without a word
FreeBaseSilent(w) ==
  LET c == [w EXCEPT !.closing = TRUE]
      l == FoldLeft(FinishHead, c, [i \in 1 .. NHeads |-> i - 1])
      Drop(v, h) == Finished(v, h)
      f == FoldLeft(Drop, l, l.waiting)
  IN [f EXCEPT !.deferred = SelectSeq(@, LAMBDA d : d[1] \in Users),
               !.gone = Servers, !.ring = << >>, !.good = 0, !.ninflight = 0, !.nwaiting = 0,
               !.srv = [s \in Servers |-> NewServer], !.heard = {}, !.net = {}]

FreeBase(w) ==
  LET c == [w EXCEPT !.closing = "evdns_base_free" \in Repaired]
      l == FinishWaiting(FoldLeft(FinishHead, c, [i \in 1 .. NHeads |-> i - 1]))
      quiet == IF "evdns_base_free" \in Repaired
               THEN [l EXCEPT !.deferred = SelectSeq(@, LAMBDA d : d[1] \in Users)] ELSE l
  IN [Assert1(quiet, Inflight(l) = << >>, "left") EXCEPT
        !.gone = Servers, !.ring = << >>, !.good = 0, !.ninflight = 0, !.nwaiting = 0,
        !.srv = [s \in Servers |-> NewServer], !.heard = {}, !.net = {}]

\* evdns_base_free with fail_requests
evdns_base_free ==
  /\ "free" \in use.calls /\ Running /\ troubles < MaxTroubles
  /\ state' = "freed" /\ sock' = [s \in Servers |-> "ok"]
  /\ Becomes({FreeBase(Now(start)) : start \in Starts})
  /\ UNCHANGED <<told, asked, troubles, use>>

---------------------------------------------------------------------------
(* The network *)

Lose(q) ==
  /\ q \in net /\ net' = net \ {q}
  /\ UNCHANGED <<req, heads, waiting, ring, srv, good, ninflight, nwaiting, deferred, told,
                 asked, sock, heard, gone, fault, troubles, state, use>>

\* The socket of a server fills, or the server cannot be reached, and recovers.
Trouble(s, how) ==
  /\ Running /\ <<s, how>> \in use.shaky /\ sock[s] = "ok" /\ troubles < MaxTroubles
  /\ sock' = [sock EXCEPT ![s] = how] /\ troubles' = troubles + 1
  /\ UNCHANGED <<req, heads, waiting, ring, srv, good, ninflight, nwaiting, deferred, told,
                 asked, net, heard, gone, fault, state, use>>

Recover(s) ==
  /\ Running /\ sock[s] # "ok" /\ sock' = [sock EXCEPT ![s] = "ok"]
  /\ UNCHANGED <<req, heads, waiting, ring, srv, good, ninflight, nwaiting, deferred, told,
                 asked, net, heard, gone, fault, troubles, state, use>>

Codes == {"ok", "nx", "servfail", "refused", "bad"}

Next ==
  \/ \E h \in Handles : evdns_request_timeout_callback(h)
  \/ \E q \in net : Lose(q) \/ \E code \in Codes : nameserver_read(q, code)
  \/ \E s \in Servers : \/ nameserver_read_error(s) \/ nameserver_write(s)
                        \/ nameserver_prod_callback(s) \/ Recover(s)
                        \/ \E how \in {"full", "error"} : Trouble(s, how)
  \/ \E u \in Users : evdns_base_resolve(u) \/ evdns_cancel_request(u)
  \/ reply_run_callback
  \/ evdns_base_clear_nameservers_and_suspend \/ evdns_base_resume \/ evdns_base_free

\* The event base runs what is due, a socket does not stay full, and a program
\* that suspends the resolver resumes it.  This is weak fairness, with ENABLED
\* spelled out: each of the steps changes the state.
Fairness ==
  /\ \A h \in Handles : []<>~MayTimeOut(h) \/ []<><<evdns_request_timeout_callback(h)>>_vars
  /\ \A s \in Servers : []<>~MayWrite(s) \/ []<><<nameserver_write(s)>>_vars
  /\ \A s \in Servers : WF_vars(Recover(s))
  /\ []<>(deferred = << >>) \/ []<><<reply_run_callback>>_vars
  /\ []<>~MayResume \/ []<><<evdns_base_resume>>_vars

Spec == Init /\ [][Next]_vars /\ Fairness

---------------------------------------------------------------------------
(* Properties *)

TypeOK ==
  /\ \A h \in Handles :
       /\ req[h].id \in Ids /\ req[h].ns \in Servers \cup {NoServer}
       /\ req[h].tx \in 0 .. use.retransmits + 1 /\ req[h].reissues \in 0 .. MaxReissues
  /\ \A s \in Servers : srv[s].timedout \in 0 .. MaxTimeouts /\ srv[s].inflight \in Nat
  /\ {good, ninflight, nwaiting} \subseteq Nat
  /\ net \subseteq [to : Servers, id : Ids, handle : Handles, left : Nat]

\* The counters of the base and of each server are those of the lists.
CountsAgree ==
  /\ ninflight = Len(Inflight(Now(0))) /\ nwaiting = Len(waiting)
  /\ good = Cardinality({s \in ToSet(ring) : srv[s].up})
  /\ \A s \in ToSet(ring) : srv[s].inflight = Cardinality({h \in Handles : req[h].live /\ req[h].ns = s})

\* A request is in one list, that of its id when it has a server and the
\* waiting queue otherwise, and no two in flight have the same id.
OnePlace ==
  LET all == Inflight(Now(0)) \o waiting
  IN /\ IsInjective(all) /\ ToSet(all) = {h \in Handles : req[h].live}
     /\ \A i \in DOMAIN heads : \A h \in ToSet(heads[i]) : req[h].ns # NoServer /\ req[h].id % NHeads = i
     /\ \A h \in ToSet(waiting) : req[h].ns = NoServer
     /\ \A g, h \in ToSet(Inflight(Now(0))) : req[g].id = req[h].id => g = h

\* Lists, counters and requests agree after every call and callback, whatever
\* request_finished, nameserver_failed and the pump did to them on the way.
ListsAgree == TypeOK /\ (Running => CountsAgree /\ OnePlace)

\* No assertion of evdns.c fails, no freed server is used by a timer, a probe
\* or a queued callback, and evdns_base_free leaves no request behind.
AssertionsHold == fault = {}

\* What evdns.c takes for granted at its asserts and wherever it follows a
\* pointer from a request to its server and back.
Inv == ListsAgree /\ AssertionsHold

\* Who asked is told exactly once: until then either the request is alive or
\* its callback is queued (reply_schedule_callback), never both, also when the
\* request is cancelled, searches on, or the base is freed.
ToldOnce ==
  \A u \in Users :
    Cardinality({i \in 1 .. Len(deferred) : deferred[i][1] = u}) + told[u]
      + (IF req[u].live THEN 1 ELSE 0) = (IF u \in asked THEN 1 ELSE 0)

\* A request in flight always has something that wakes it: its timer, or a
\* server whose socket the event base watches for room
\* (nameserver_write_waiting).
NeverStuck ==
  Running => \A h \in ToSet(Inflight(Now(0))) :
    req[h].timer \/ (req[h].tosend /\ \E s \in ToSet(ring) : srv[s].writing)

\* No more requests of the program are in flight than the limit allows
\* (global_max_requests_inflight), and none waits while there is a place in
\* flight and a server: whoever frees a place pumps the queue.
PlacesUsed ==
  Running =>
    /\ Len(SelectSeq(Inflight(Now(0)), LAMBDA h : h \in Users)) <= MaxInflight
    /\ waiting = << >> \/ ring = << >> \/ ninflight >= MaxInflight

\* No request is left where nothing will move it on.
MovesOn == NeverStuck /\ PlacesUsed

\* A timeout is counted only against a server to which the request was last
\* put on a socket (the message of nameserver_failed is "request timed out."),
\* not against one that it has moved to and is still to be sent to.
BlameEarned ==
  \A s \in Servers : srv'[s].timedout > srv[s].timedout =>
    \E h \in Handles : req[h].sentTo = s /\ req'[h] # req[h]

\* A server is taken out of use (nameserver_failed) when its socket fails, for
\* a packet from it, or when a request last put to it has ended or timed out.
FailureEarned ==
  \A s \in ToSet(ring) \cap ToSet(ring') : srv[s].up /\ ~srv'[s].up =>
    \/ sock[s] = "error" \/ \E q \in net \ net' : q.to = s
    \/ \E h \in Handles : req[h].sentTo = s /\ req'[h] # req[h]

\* A server is judged by what it did with the queries that it was sent,
\* wherever requests are moved to meanwhile.
ServersJudged == [][BlameEarned /\ FailureEarned]_vars

\* A server that was taken out of use (nameserver_failed) comes back
\* (nameserver_up) only after a packet from it: the probe is sent "to a given
\* nameserver in the hope that it is up now".
BackWhenHeard ==
  [][\A s \in ToSet(ring) \cap ToSet(ring') : ~srv[s].up /\ srv'[s].up => s \in heard']_vars

\* Everyone who asks is told in the end, although the network may lose every
\* packet: retransmissions, reissues and the search all come to an end.
Told == \A u \in Users : u \in asked ~> told[u] > 0
==============================================================================
