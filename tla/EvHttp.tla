-------------------------------- MODULE EvHttp --------------------------------
(***************************************************************************)
(* The connections of net/libevent/src/http.c: the requests a program makes  *)
(* on one connection, and the server that answers them.  Both ends run in    *)
(* event loops; a callback of a loop or a call of the program is one step,   *)
(* except that the callbacks of the program are steps of their own: `todo`   *)
(* is what the C stack still has to do, innermost first.                     *)
(*                                                                           *)
(* A message travels in pieces, its head and what follows.  The first line   *)
(* and the headers come together (EVCON_READING_FIRSTLINE and _HEADERS are   *)
(* one state), the last chunk with its trailer.                              *)
(***************************************************************************)
EXTENDS Integers, Sequences, FiniteSets, SequencesExt

CONSTANTS
  Requests,     \* the requests the program may make, each once
  NoReq,        \* NULL
  Jobs,         \* what may be asked and answered, and the settings: see JobOK
  NConns,       \* bound: TCP connections that exist at a time
  MaxTroubles,  \* bound: failed connects, timeouts and cancelled requests
  Repaired      \* the functions taken with a repair, see README

VARIABLES
  job,        \* one of Jobs
  con,        \* the evhttp_connection of the client
  req,        \* the requests of the client
  tcp,        \* each TCP connection: what is under way, which ends are open
  srv,        \* the evhttp_connection of the server on each, with its request
  todo,
  told,       \* history: what the callback of each request was told
  handed,     \* history: how often the server gave each request to its program
  fault,      \* history: the assertions that have failed
  troubles

vars == <<job, con, req, tcp, srv, todo, told, handed, fault, troubles>>

Conns == 1 .. NConns
Forms == {"get", "old", "post", "expect", "big"}
Styles == {"empty", "length", "closing", "stream"}

\* old: HTTP/1.0; expect: with Expect: 100-continue; big: more than the server
\* takes.  chunks: there is a chunk_cb.  rowe: EVHTTP_CON_READ_ON_WRITE_ERROR,
\* linger: EVHTTP_CON_LINGERING_CLOSE, auto: EVHTTP_CON_AUTOFREE.
JobOK(j) ==
  /\ DOMAIN j.asks \subseteq Requests
  /\ \A r \in DOMAIN j.asks : j.asks[r] \in [form : Forms, style : Styles, chunks : BOOLEAN]
  /\ j.retries \in Nat /\ {j.rowe, j.linger, j.auto} \subseteq BOOLEAN

EvHttpAssumption ==
  /\ NoReq \notin Requests /\ NConns \in Nat \ {0} /\ MaxTroubles \in Nat
  /\ \A j \in Jobs : JobOK(j)
ASSUME EvHttpAssumption

NewCon == [live |-> TRUE, state |-> "disconnected", requests |-> << >>, tcp |-> 0,
           rd |-> FALSE, wr |-> FALSE, readcb |-> TRUE, cb |-> "",
           inp |-> << >>, out |-> << >>, more |-> FALSE, late |-> FALSE,
           detect |-> FALSE, rerr |-> FALSE, retry |-> FALSE, cnt |-> 0]
NewReq == [life |-> "new", kind |-> "request", body |-> FALSE, form |-> "", close |-> FALSE,
           defer |-> FALSE, needs |-> FALSE, got |-> << >>]
Dead == [live |-> FALSE, state |-> "head", r |-> NoReq, listed |-> FALSE, userdone |-> TRUE,
         held |-> "no", close |-> FALSE, rd |-> FALSE, wr |-> FALSE, readcb |-> TRUE,
         cb |-> "", inp |-> << >>, out |-> << >>]
Closed == [c2s |-> << >>, s2c |-> << >>, copen |-> FALSE, sopen |-> FALSE]

Init ==
  /\ job \in Jobs /\ con = NewCon /\ req = [r \in Requests |-> NewReq]
  /\ tcp = [k \in Conns |-> Closed] /\ srv = [k \in Conns |-> Dead]
  /\ todo = << >> /\ told = [r \in Requests |-> "no"] /\ handed = [r \in Requests |-> 0]
  /\ fault = {} /\ troubles = 0

Now == [con |-> con, req |-> req, tcp |-> tcp, srv |-> srv, todo |-> todo, told |-> told,
        handed |-> handed, fault |-> fault]
Becomes(w) ==
  /\ con' = w.con /\ req' = w.req /\ tcp' = w.tcp /\ srv' = w.srv /\ todo' = w.todo
  /\ told' = w.told /\ handed' = w.handed /\ fault' = w.fault

Assert1(w, holds, what) == IF holds THEN w ELSE [w EXCEPT !.fault = @ \cup {what}]
Item(op, r) == [op |-> op, r |-> r, how |-> ""]
Tell(r, how) == [op |-> "tell", r |-> r, how |-> how]
Push(w, items) == [w EXCEPT !.todo = items \o @]
First(w) == w.con.requests[1]
Idle(w) == w.con.requests = << >>

Form(r) == job.asks[r].form
Style(r) == job.asks[r].style
Piece(r, p) == [r |-> r, p |-> p, form |-> "", close |-> FALSE]
HeadOf(r, form, close) == [r |-> r, p |-> "head", form |-> form, close |-> close]

---------------------------------------------------------------------------
(* The client's connection *)

\* evhttp_connected
Connected(w) == w.con.state \notin {"disconnected", "connecting"}

\* evhttp_request_free, through evhttp_request_free_auto
RequestFree(w, r) ==
  IF w.req[r].defer THEN [w EXCEPT !.req[r].needs = TRUE]
  ELSE [Assert1(w, w.req[r].life = "alive", "freed twice") EXCEPT !.req[r].life = "freed"]

\* The client's end of its TCP connection is closed.
Hangup(w) ==
  IF w.con.tcp = 0 THEN w
  ELSE [w EXCEPT !.tcp[w.con.tcp].copen = FALSE, !.tcp[w.con.tcp].s2c = << >>]

\* evhttp_connection_reset_; repaired, it forgets what was to come on the
\* connection: close detection and the deferred callbacks.
Reset(w) ==
  LET forget == "evhttp_connection_reset_" \in Repaired
  IN [Hangup(w) EXCEPT !.con = [@ EXCEPT
        !.rd = FALSE, !.wr = FALSE, !.tcp = 0, !.out = << >>, !.inp = << >>, !.rerr = FALSE,
        !.state = "disconnected", !.detect = @ /\ ~forget, !.more = @ /\ ~forget,
        !.late = @ /\ ~forget]]

\* A connection that frees itself does so when its last request has completed;
\* repaired, also when it has failed.
FreesItself == IF job.auto /\ "evhttp_connection_fail_" \in Repaired THEN <<Item("autofree", NoReq)>> ELSE << >>

\* Faulty: what is left of a reply stays on the connection when its request goes.
FailKeepsInput(w, how) ==
  LET r == First(w)
      left == RequestFree([w EXCEPT !.con.requests = Tail(@), !.con.state = "idle"], r)
      on == Connected(w) /\ ~Idle(left)
  IN IF Idle(w) THEN Assert1(w, FALSE, "no request")
     ELSE Push(IF on THEN [left EXCEPT !.con.out = <<HeadOf(First(left), Form(First(left)), FALSE)>>,
                                       !.con.wr = TRUE, !.con.state = "writing", !.con.cb = "written",
                                       !.con.readcb = FALSE]
               ELSE Reset(left),
               (IF on \/ Idle(left) THEN << >> ELSE <<Item("connect", NoReq)>>)
               \o (IF how = "cancelled" THEN << >> ELSE <<Tell(r, how)>>) \o FreesItself)

\* evhttp_connection_fail_ on an outgoing connection
Fail(w, how) ==
  LET r == First(w)
      left == Reset(RequestFree([w EXCEPT !.con.requests = Tail(@)], r))
  IN IF Idle(w) THEN Assert1(w, FALSE, "no request")
     ELSE Push(left, (IF Idle(left) THEN << >> ELSE <<Item("connect", NoReq)>>)
                     \o (IF how = "cancelled" THEN << >> ELSE <<Tell(r, how)>>) \o FreesItself)

\* evhttp_connection_free
ConnFree(w) ==
  LET l == FoldLeft(RequestFree, w, w.con.requests)
  IN [Hangup(l) EXCEPT !.con = [NewCon EXCEPT !.live = FALSE]]

\* Faulty: only the first request of the queue is told.
CleanupFirst(w) ==
  LET l == Reset(w)
      r == First(w)
  IN IF Idle(w) THEN l
     ELSE IF w.con.cnt < job.retries
     THEN [Assert1(l, ~w.con.retry, "timer in use") EXCEPT !.con.retry = TRUE, !.con.cnt = @ + 1]
     ELSE Push([l EXCEPT !.con.requests = Tail(@)], <<Tell(r, "failed"), Item("free", r)>> \o FreesItself)

\* evhttp_connection_cb_cleanup: try again later, or tell everyone
Cleanup(w) ==
  LET l == Reset(w)
      Both(items, r) == items \o <<Tell(r, "failed"), Item("free", r)>>
  IN IF w.con.cnt < job.retries
     THEN [Assert1(l, ~w.con.retry, "timer in use") EXCEPT !.con.retry = TRUE, !.con.cnt = @ + 1]
     ELSE Push([l EXCEPT !.con.requests = << >>], FoldLeft(Both, << >>, w.con.requests) \o FreesItself)

\* evhttp_write_buffer
WriteBuffer(w) == [w EXCEPT !.con.cb = "written", !.con.readcb = FALSE, !.con.wr = TRUE]

\* evhttp_start_read_
StartRead(w) ==
  [w EXCEPT !.con.wr = FALSE, !.con.rd = TRUE, !.con.state = "head", !.con.readcb = TRUE,
            !.con.more = @ \/ w.con.inp # << >>]

HasBody(r) == Form(r) \in {"post", "expect", "big"}

\* evhttp_request_dispatch, evhttp_make_header
Dispatch(w) ==
  LET r == First(w)
      l == Assert1(Assert1(w, w.con.state = "idle", "dispatch"), w.req[r].kind = "request", "kind")
      withhold == Form(r) = "expect"
      body == IF HasBody(r) /\ ~withhold THEN <<Piece(r, "body")>> ELSE << >>
  IN IF Idle(w) THEN w
     ELSE WriteBuffer([l EXCEPT !.con.detect = FALSE, !.con.rd = FALSE, !.con.state = "writing",
                                !.con.out = @ \o <<HeadOf(r, Form(r), FALSE)>> \o body,
                                !.req[r].body = withhold])

\* Faulty: the next request waits for somebody else to send it.
DoneForgetsNext(w) ==
  LET r == First(w)
      l == [w EXCEPT !.con.requests = Tail(@), !.con.state = "idle"]
  IN Push(IF w.req[r].close THEN Reset(l) ELSE [l EXCEPT !.con.detect = TRUE, !.con.rd = TRUE],
          <<Tell(r, "ok"), [Item("free", r) EXCEPT !.how = "done"]>>)

\* evhttp_connection_done on an outgoing connection; repaired, an exchange
\* in HTTP/1.0, after which the server hangs up, closes it.
Done(w) ==
  LET r == First(w)
      over == "evhttp_connection_done" \in Repaired /\ Form(r) = "old"
      close == w.req[r].close \/ over
      i == [w EXCEPT !.con.requests = Tail(@), !.con.state = "idle"]
      l == IF close THEN Reset(i) ELSE i
      end == <<Tell(r, "ok"), [Item("free", r) EXCEPT !.how = "done"]>>
  IN IF ~Idle(l)
     THEN IF Connected(l) THEN Push(Dispatch(l), end) ELSE Push(l, <<Item("connect", NoReq)>> \o end)
     ELSE IF ~close THEN Push([l EXCEPT !.con.detect = TRUE, !.con.rd = TRUE], end)
     ELSE Push(l, IF job.auto THEN Append(end, Item("autofree", NoReq)) ELSE end)

Take(w) == [w EXCEPT !.con.inp = Tail(@), !.req[First(w)].got = Append(@, Head(w.con.inp))]

\* evhttp_read_body, evhttp_handle_chunked_read.  What chunk_cb does comes in
\* between: the rest is under "chunk".
ReadBody(w) ==
  LET r == First(w)
      p == Head(w.con.inp)
      l == Take(w)
      cb == job.asks[r].chunks
  IN CASE w.con.inp = << >> -> w
       [] w.con.inp # << >> /\ p.p = "data" ->
            Push([l EXCEPT !.req[r].defer = cb],
                 (IF cb THEN <<Item("cb", r)>> ELSE << >>) \o <<Item("chunk", r)>>)
       [] w.con.inp # << >> /\ p.p = "end" /\ w.req[r].form = "chunked" -> Done([l EXCEPT !.con.rd = FALSE])
       [] OTHER -> Fail(w, "failed")

\* the rest of evhttp_read_body after a call of chunk_cb for r
AfterChunk(w, r) ==
  LET l == [w EXCEPT !.req[r].defer = FALSE]
  IN IF w.req[r].needs THEN RequestFree(l, r)
     ELSE IF w.req[r].form = "length" THEN Done([l EXCEPT !.con.rd = FALSE])
     ELSE ReadBody(l)

\* evhttp_read_firstline, evhttp_read_header, evhttp_get_body
ReadHead(w) ==
  LET r == First(w)
      p == Head(w.con.inp)
      l == [Take(w) EXCEPT !.req[r].form = p.form, !.req[r].close = p.close]
      go == [l EXCEPT !.con.out = IF l.req[r].body THEN Append(@, Piece(r, "body")) ELSE @,
                      !.req[r].body = FALSE, !.con.rd = TRUE, !.con.state = "writing"]
  IN CASE w.con.inp = << >> -> w
       [] w.con.inp # << >> /\ p.p = "100" -> WriteBuffer(go)
       [] w.con.inp # << >> /\ p.p = "head" /\ p.form = "none" -> Done(l)
       [] w.con.inp # << >> /\ p.p = "head" /\ p.form # "none" -> ReadBody([l EXCEPT !.con.state = "body"])
       [] OTHER -> Fail(w, "failed")

\* evhttp_read_cb; repaired, a connection that frees itself does so here too.
ReadCb(w) ==
  LET l == [w EXCEPT !.con.more = FALSE]
      frees == job.auto /\ "evhttp_read_cb" \in Repaired
  IN CASE w.con.state = "head" -> ReadHead(l)
       [] w.con.state = "body" -> ReadBody(l)
       [] w.con.state = "idle" -> IF frees THEN ConnFree(l) ELSE Reset(l)
       [] OTHER -> Assert1(l, FALSE, "illegal state")

\* evhttp_write_connectioncb
Written(w) ==
  LET l == Assert1(w, ~Idle(w) /\ w.con.state = "writing", "written")
  IN IF Idle(w) \/ w.con.out # << >> THEN l ELSE StartRead([l EXCEPT !.req[First(w)].kind = "response"])

\* evhttp_connection_read_on_write_error
ReadOnWriteError(w) ==
  IF w.con.rerr THEN Fail([w EXCEPT !.con.rerr = FALSE], "failed")
  ELSE [StartRead([w EXCEPT !.req[First(w)].kind = "response", !.con.out = << >>]) EXCEPT !.con.rerr = TRUE]

\* evhttp_error_cb
ErrorCb(w, what, writing) ==
  LET l == Reset([Assert1(w, w.con.state = "idle", "detect") EXCEPT !.con.detect = FALSE])
  IN CASE w.con.state = "connecting" /\ what = "timeout" -> Cleanup(w)
       [] w.con.state = "body" /\ w.req[First(w)].form = "eof" /\ what = "eof" /\ ~writing -> Done(w)
       [] OTHER ->
            CASE w.con.detect -> IF Idle(l) /\ job.auto THEN ConnFree(l) ELSE l
              [] ~w.con.detect /\ what # "timeout" /\ writing /\ job.rowe -> ReadOnWriteError(w)
              [] OTHER -> Fail(w, "failed")

\* evhttp_connection_cb when connecting has failed
ConnectFailed(w, what) == IF what = "refused" THEN Cleanup(w) ELSE ErrorCb(w, what, FALSE)

\* evhttp_connection_connect_, which may fail at once: then evhttp_connection_cb
\* runs inside it, or, refused, as a deferred callback, or, without a socket, it
\* is not called and the function cleans up itself.  Repaired, a connection that
\* connects waits for no retry.
Connect(w, how) ==
  LET c == [Reset(w) EXCEPT !.con.state = "connecting", !.con.wr = TRUE,
              !.con.retry = @ /\ "evhttp_connection_connect_" \notin Repaired]
  IN CASE w.con.state = "connecting" -> w
       [] w.con.state # "connecting" /\ how = "error" -> ConnectFailed(c, "error")
       [] w.con.state # "connecting" /\ how = "no socket" -> Cleanup([c EXCEPT !.con.state = w.con.state])
       [] OTHER -> [c EXCEPT !.con.late = @ \/ how = "refused"]

---------------------------------------------------------------------------
(* The server's connections *)

\* evhttp_connection_free; a request that the program holds is its own now
SConnFree(w, k) ==
  LET s == w.srv[k]
      mine == ~s.listed /\ s.held # "no"
  IN [w EXCEPT !.srv[k] = IF mine THEN [Dead EXCEPT !.r = s.r, !.held = s.held] ELSE Dead,
               !.tcp[k].sopen = FALSE, !.tcp[k].c2s = << >>]

\* evhttp_associate_new_request_with_connection
NewRequest(w, k) ==
  [w EXCEPT !.srv[k] = [Dead EXCEPT !.live = TRUE, !.listed = TRUE, !.rd = TRUE, !.inp = w.srv[k].inp]]

\* evhttp_send_done
SendDone(w, k) ==
  LET l == Assert1(w, w.srv[k].listed, "no request")
  IN IF w.srv[k].close THEN SConnFree([l EXCEPT !.srv[k].held = "no"], k) ELSE NewRequest(l, k)

SWrite(w, k, pieces, cb) ==
  [w EXCEPT !.srv[k].out = @ \o pieces, !.srv[k].cb = cb, !.srv[k].readcb = FALSE, !.srv[k].wr = TRUE]

\* A head of a reply decides whether the connection is kept.
Keeps(w, k, p) == [w EXCEPT !.srv[k].close = p.close \/ Form(p.r) = "old"]

\* evhttp_send: on a request without a connection it only frees it
Send(w, k, pieces) ==
  IF ~w.srv[k].live THEN [w EXCEPT !.srv[k] = Dead]
  ELSE SWrite(Keeps([Assert1(w, w.srv[k].listed, "not first") EXCEPT !.srv[k].userdone = TRUE], k, pieces[1]),
              k, pieces, "done")

\* evhttp_handle_request for a request to be refused: evhttp_send_error
Refusal(r) == <<HeadOf(r, IF Form(r) = "old" THEN "eof" ELSE "length", TRUE), Piece(r, "data")>>

\* evhttp_connection_fail_, evhttp_connection_incoming_fail
SFail(w, k, why) ==
  LET l == [w EXCEPT !.srv[k].rd = FALSE, !.srv[k].wr = FALSE]
  IN IF why = "gone"
     THEN SConnFree([l EXCEPT !.srv[k].listed = @ /\ l.srv[k].userdone], k)
     ELSE Send([l EXCEPT !.srv[k].held = "no"], k, Refusal(w.srv[k].r))

\* evhttp_connection_done, evhttp_handle_request
Handle(w, k) ==
  [w EXCEPT !.srv[k].state = "writing", !.srv[k].userdone = FALSE, !.srv[k].held = "new",
            !.handed[w.srv[k].r] = @ + 1]

\* evhttp_read_body, evhttp_lingering_fail
SReadBody(w, k) ==
  LET s == w.srv[k]
      l == [w EXCEPT !.srv[k].inp = << >>, !.srv[k].rd = FALSE]
      big == Form(s.r) = "big"
  IN CASE big /\ ~job.linger -> SFail(w, k, "too long")
       [] big /\ job.linger /\ s.inp # << >> -> SFail(l, k, "too long")
       [] ~big /\ s.inp # << >> -> Handle(l, k)
       [] OTHER -> w

\* evhttp_send_continue
SendContinue(w, k) ==
  [w EXCEPT !.srv[k].wr = TRUE, !.srv[k].out = Append(@, Piece(w.srv[k].r, "100")), !.srv[k].cb = "continue"]

\* evhttp_read_firstline, evhttp_read_header, evhttp_get_body
SReadHead(w, k) ==
  LET p == Head(w.srv[k].inp)
      l == [w EXCEPT !.srv[k].inp = Tail(@), !.srv[k].r = p.r]
      more == [l EXCEPT !.srv[k].state = "body"]
  IN IF ~HasBody(p.r) THEN Handle(l, k)
     ELSE SReadBody(IF Form(p.r) = "expect" /\ more.srv[k].inp = << >> THEN SendContinue(more, k) ELSE more, k)

\* evhttp_read_cb
SReadCb(w, k) ==
  CASE w.srv[k].state = "head" -> SReadHead(w, k)
    [] w.srv[k].state = "body" -> SReadBody(w, k)
    [] OTHER -> Assert1(w, FALSE, "illegal state")

\* evhttp_write_cb, when all is written
SWritten(w, k) ==
  CASE w.srv[k].cb = "done" -> SendDone(w, k)
    [] w.srv[k].cb = "continue" -> [w EXCEPT !.srv[k].wr = FALSE]
    [] OTHER -> w

---------------------------------------------------------------------------
(* The calls of the program, in its event loop or in a callback *)

Running == fault = {}
Loop == Running /\ todo = << >>
InCallback == todo # << >> /\ Head(todo).op = "cb"
Program == Running /\ con.live /\ (todo = << >> \/ InCallback)
Same == UNCHANGED <<job, troubles>>
Trouble == troubles < MaxTroubles /\ troubles' = troubles + 1 /\ UNCHANGED job
\* Connecting may fail at once, which is a trouble.
Troubled(how) == IF how = "" THEN Same ELSE Trouble

evhttp_make_request(r) ==
  LET w == [Now EXCEPT !.req[r].life = "alive", !.con.requests = Append(@, r)]
  IN /\ Program /\ r \in DOMAIN job.asks /\ req[r].life = "new"
     /\ Becomes(IF ~Connected(w) THEN Push(w, <<Item("connect", NoReq)>>)
                ELSE IF First(w) = r THEN Dispatch(w) ELSE w)
     /\ Same

\* The list of evhttp_connection_cb_cleanup, and the request that
\* evhttp_connection_done is about to tell
Doomed == SelectSeq(todo, LAMBDA i : i = Item("free", i.r))
Ending == SelectSeq(todo, LAMBDA i : i.op = "free" /\ i.how = "done")
In(items, r) == \E i \in 1 .. Len(items) : items[i].r = r

\* A request may be cancelled until its callback has run.  One that waits for
\* its callback in evhttp_connection_cb_cleanup or evhttp_connection_done is in
\* no queue of the connection: taking it from there corrupts the queue if it is
\* the last, or frees it under evhttp_connection_done.  Repaired, it is taken
\* from where it is.
evhttp_cancel_request(r) ==
  LET w == [Now EXCEPT !.told[r] = "cancelled"]
      Spared(x) == IF In(Ending, x) THEN "evhttp_connection_done" \in Repaired
                   ELSE Last(Doomed).r # x \/ "evhttp_connection_cb_cleanup" \in Repaired
      Without(w1) == [w1 EXCEPT !.todo = SelectSeq(@, LAMBDA i : i.op = "cb" \/ i.r # r)]
  IN /\ Program /\ Same /\ req[r].life = "alive" /\ ~req[r].needs /\ told[r] = "no"
     /\ Becomes(IF con.requests # << >> /\ First(w) = r THEN Fail(w, "cancelled")
                ELSE IF In(Doomed, r) \/ In(Ending, r)
                THEN Assert1(RequestFree(Without(w), r), Spared(r), "queue")
                ELSE RequestFree([w EXCEPT !.con.requests = SelectSeq(@, LAMBDA x : x # r)], r))

\* Not for a connection that frees itself, nor in chunk_cb.
evhttp_connection_free ==
  /\ Program /\ Same /\ ~job.auto /\ \A i \in 1 .. Len(todo) : todo[i].op # "chunk"
  /\ Becomes(ConnFree(Now))

\* The program's callback returns.
Return == Running /\ InCallback /\ todo' = Tail(todo) /\ UNCHANGED <<job, con, req, tcp, srv, told, handed, fault, troubles>>

\* The functions on the stack go on.
Popped == [Now EXCEPT !.todo = Tail(@)]
Pending(op) == Running /\ todo # << >> /\ Head(todo).op = op
Connecting(how) ==
  /\ Pending("connect") /\ (con.state = "connecting" => how = "") /\ Troubled(how)
  /\ Becomes(Connect(Popped, how))
Telling ==
  LET i == Head(todo)
      w == Assert1(Popped, told[i.r] = "no", "told twice")
  IN Pending("tell") /\ Same /\ Becomes(Push([w EXCEPT !.told[i.r] = i.how], <<Item("cb", i.r)>>))
Chunk == Pending("chunk") /\ Same /\ Becomes(AfterChunk(Popped, Head(todo).r))
Freeing == Pending("free") /\ Same /\ Becomes(RequestFree(Popped, Head(todo).r))
Autofree == Pending("autofree") /\ Same /\ Becomes(IF Idle(Now) THEN ConnFree(Popped) ELSE Popped)

---------------------------------------------------------------------------
(* The client's event loop *)

Free(k) == tcp[k] = Closed /\ srv[k] = Dead

\* evhttp_connection_cb: connected, and the server's evhttp_get_request
ClientConnected(k) ==
  LET open == [Now EXCEPT !.tcp[k].copen = TRUE, !.tcp[k].sopen = TRUE, !.con.tcp = k,
                          !.con.cnt = 0, !.con.state = "idle", !.con.readcb = TRUE]
  IN /\ Loop /\ con.state = "connecting" /\ ~con.late /\ Free(k) /\ \A j \in Conns : Free(j) => k <= j
     /\ Becomes(Dispatch(NewRequest(open, k))) /\ Same

ClientConnectFails(what) ==
  /\ Loop /\ con.state = "connecting" /\ ~con.late /\ Trouble
  /\ Becomes(ConnectFailed(Now, what))

\* The deferred callback of a connect that was refused at once
ClientRefused ==
  /\ Loop /\ con.late /\ Same /\ Becomes(Cleanup([Now EXCEPT !.con.late = FALSE]))

Live == Loop /\ con.tcp # 0

\* bufferevent_readcb and evhttp_read_cb
ClientReads(n) ==
  LET k == con.tcp
      w == [Now EXCEPT !.con.inp = @ \o SubSeq(tcp[k].s2c, 1, n), !.tcp[k].s2c = SubSeq(@, n + 1, Len(@))]
  IN /\ Live /\ con.rd /\ n \in 1 .. Len(tcp[k].s2c)
     /\ Becomes(IF con.readcb THEN ReadCb(w) ELSE w) /\ Same

ClientEof ==
  /\ Live /\ con.rd /\ tcp[con.tcp].s2c = << >> /\ ~tcp[con.tcp].sopen
  /\ Becomes(ErrorCb([Now EXCEPT !.con.rd = FALSE], "eof", FALSE)) /\ Same

ClientTimeout ==
  /\ Live /\ (con.rd \/ (con.wr /\ con.out # << >>)) /\ Trouble
  /\ Becomes(ErrorCb(Now, "timeout", ~con.rd))

\* bufferevent_writecb and evhttp_write_cb.  What is written to a connection
\* that the server has closed is lost, or refused.
ClientWrites(n) ==
  LET k == con.tcp
      w == [Now EXCEPT !.con.out = SubSeq(@, n + 1, Len(@)),
                       !.tcp[k].c2s = IF tcp[k].sopen THEN @ \o SubSeq(con.out, 1, n) ELSE @]
  IN Live /\ con.wr /\ n \in 1 .. Len(con.out) /\ Becomes(IF n = Len(con.out) THEN Written(w) ELSE w) /\ Same

ClientWriteFails ==
  /\ Live /\ con.wr /\ con.out # << >> /\ ~tcp[con.tcp].sopen
  /\ Becomes(ErrorCb([Now EXCEPT !.con.wr = FALSE], "error", TRUE)) /\ Same

evhttp_deferred_read_cb == Loop /\ con.more /\ Becomes(ReadCb(Now)) /\ Same

\* Repaired, a connection without requests is not connected again.
evhttp_connection_retry ==
  LET w == [Now EXCEPT !.con.retry = FALSE, !.con.state = "disconnected"]
      none == "evhttp_connection_retry" \in Repaired /\ Idle(Now)
  IN Loop /\ con.retry /\ Same /\ Becomes(IF none THEN [Now EXCEPT !.con.retry = FALSE] ELSE Push(w, <<Item("connect", NoReq)>>))

---------------------------------------------------------------------------
(* The server's event loop and its program *)

Serves(k) == Running /\ srv[k].live

ServerReads(k, n) ==
  LET w == [Now EXCEPT !.srv[k].inp = @ \o SubSeq(tcp[k].c2s, 1, n), !.tcp[k].c2s = SubSeq(@, n + 1, Len(@))]
  IN /\ Serves(k) /\ srv[k].rd /\ n \in 1 .. Len(tcp[k].c2s)
     /\ Becomes(IF srv[k].readcb THEN SReadCb(w, k) ELSE w) /\ Same

ServerEof(k) ==
  /\ Serves(k) /\ srv[k].rd /\ tcp[k].c2s = << >> /\ ~tcp[k].copen
  /\ Becomes(SFail(Now, k, "gone")) /\ Same

ServerTimeout(k) ==
  /\ Serves(k) /\ (srv[k].rd \/ (srv[k].wr /\ srv[k].out # << >>)) /\ Trouble
  /\ Becomes(SFail(Now, k, "gone"))

ServerWrites(k) ==
  LET w == [Now EXCEPT !.srv[k].out = << >>, !.tcp[k].s2c = IF tcp[k].copen THEN @ \o srv[k].out ELSE @]
  IN Serves(k) /\ srv[k].wr /\ srv[k].out # << >> /\ Becomes(SWritten(w, k)) /\ Same

ServerWriteFails(k) ==
  /\ Serves(k) /\ srv[k].wr /\ srv[k].out # << >> /\ ~tcp[k].copen
  /\ Becomes(SFail(Now, k, "gone")) /\ Same

\* A server of another make, that says so before it closes
ServerTimeoutSaid(k) ==
  LET said == HeadOf(NoReq, "none", TRUE)
  IN /\ Serves(k) /\ srv[k].rd /\ srv[k].held = "no" /\ tcp[k].copen /\ Trouble
     /\ Becomes(SConnFree([Now EXCEPT !.tcp[k].s2c = Append(@, said)], k))

\* The reply to r, whole or in its parts.  Without a length in HTTP/1.0 it ends
\* with the connection.
Body(r) == IF Form(r) = "old" THEN "eof" ELSE IF Style(r) = "stream" THEN "chunked" ELSE "length"
Reply(r) ==
  IF Style(r) = "empty" THEN <<HeadOf(r, "none", FALSE)>>
  ELSE <<HeadOf(r, Body(r), Style(r) = "closing"), Piece(r, "data")>>
         \o IF Body(r) = "chunked" THEN <<Piece(r, "end")>> ELSE << >>

Holds(k, held) == Running /\ srv[k].held = held /\ Same

evhttp_send_reply(k) ==
  /\ Holds(k, "new") /\ Style(srv[k].r) # "stream"
  /\ Becomes(Send([Now EXCEPT !.srv[k].held = "no"], k, Reply(srv[k].r)))

\* It uses the connection of the request without a look whether there is one;
\* repaired, it looks.
evhttp_send_reply_start(k) ==
  LET w == [Now EXCEPT !.srv[k].held = "started"]
      p == Head(Reply(srv[k].r))
  IN /\ Holds(k, "new") /\ Style(srv[k].r) = "stream"
     /\ Becomes(IF srv[k].live THEN Keeps(SWrite(w, k, <<p>>, ""), k, p)
                ELSE Assert1(w, "evhttp_send_reply_start" \in Repaired, "no connection"))

evhttp_send_reply_chunk(k) ==
  LET w == [Now EXCEPT !.srv[k].held = "chunked"]
  IN /\ Holds(k, "started")
     /\ Becomes(IF srv[k].live THEN SWrite(w, k, <<Piece(srv[k].r, "data")>>, "") ELSE w)

evhttp_send_reply_end(k) ==
  LET w == [Now EXCEPT !.srv[k].held = "no", !.srv[k].userdone = TRUE]
  IN /\ Holds(k, "chunked")
     /\ Becomes(CASE ~srv[k].live -> [w EXCEPT !.srv[k] = Dead]
                  [] srv[k].live /\ Body(srv[k].r) = "chunked" -> SWrite(w, k, <<Piece(srv[k].r, "end")>>, "done")
                  [] OTHER -> IF srv[k].out = << >> THEN SendDone(w, k) ELSE [w EXCEPT !.srv[k].cb = "done"])

Client ==
  \/ \E k \in Conns : ClientConnected(k)
  \/ \E n \in 1 .. 3 : ClientReads(n)
  \/ \E n \in 1 .. 2 : ClientWrites(n)
  \/ ClientRefused \/ ClientEof \/ ClientWriteFails
  \/ evhttp_deferred_read_cb \/ evhttp_connection_retry
  \/ Connecting("") \/ Telling \/ Chunk \/ Freeing \/ Autofree \/ Return

Server(k) ==
  \/ \E n \in 1 .. 2 : ServerReads(k, n)
  \/ ServerEof(k) \/ ServerWrites(k) \/ ServerWriteFails(k)
  \/ evhttp_send_reply(k) \/ evhttp_send_reply_start(k)
  \/ evhttp_send_reply_chunk(k) \/ evhttp_send_reply_end(k)

Calls ==
  \/ \E r \in Requests : evhttp_make_request(r) \/ evhttp_cancel_request(r)
  \/ evhttp_connection_free

Fails ==
  \/ \E how \in {"refused", "error", "no socket"} : Connecting(how)
  \/ \E what \in {"refused", "error", "timeout"} : ClientConnectFails(what)
  \/ ClientTimeout \/ \E k \in Conns : ServerTimeout(k) \/ ServerTimeoutSaid(k)

Next == Client \/ (\E k \in Conns : Server(k)) \/ Calls \/ Fails

ClientReady ==
  \/ Running /\ todo # << >>
  \/ Loop /\ (con.late \/ con.more \/ con.retry)
  \/ Loop /\ con.state = "connecting" /\ \E k \in Conns : Free(k)
  \/ Live /\ con.rd /\ (tcp[con.tcp].s2c # << >> \/ ~tcp[con.tcp].sopen)
  \/ Live /\ con.wr /\ con.out # << >>

ServerReady(k) ==
  \/ Running /\ srv[k].held # "no"
  \/ Serves(k) /\ srv[k].rd /\ (tcp[k].c2s # << >> \/ ~tcp[k].copen)
  \/ Serves(k) /\ srv[k].wr /\ srv[k].out # << >>

\* Both event loops run what is due, callbacks return, and the program of the
\* server answers what it holds.  This is weak fairness, with ENABLED spelled
\* out: each of the steps changes the state.
Fairness ==
  /\ []<>~ClientReady \/ []<><<Client>>_vars
  /\ \A k \in Conns : []<>~ServerReady(k) \/ []<><<Server(k)>>_vars

Spec == Init /\ [][Next]_vars /\ Fairness

---------------------------------------------------------------------------
(* Properties *)

States == {"disconnected", "connecting", "idle", "head", "body", "writing"}
TypeOK ==
  /\ con.state \in States /\ con.tcp \in 0 .. NConns /\ con.cnt \in 0 .. job.retries
  /\ \A r \in Requests : req[r].life \in {"new", "alive", "freed"} /\ told[r] \in {"no", "ok", "failed", "cancelled"}
  /\ \A k \in Conns : srv[k].held \in {"no", "new", "started", "chunked"} /\ srv[k].r \in Requests \cup {NoReq}

\* A request that is alive is in the queue of the connection, in the list of
\* evhttp_connection_cb_cleanup, or is freed when its chunk_cb returns; one
\* that is gone has been told, was cancelled, or went with the connection.
OnePlace ==
  /\ IsInjective(con.requests)
  /\ \A r \in Requests : req[r].life = "alive" <=> (r \in ToSet(con.requests) \/ In(Doomed \o Ending, r) \/ req[r].defer)
  /\ \A r \in Requests : req[r].life = "freed" /\ told[r] = "no" =>
       ~con.live \/ \E i \in 1 .. Len(todo) : todo[i].op = "tell" /\ todo[i].r = r

\* As long as requests wait, the loop has something that moves them on; so it
\* has for the request on a connection of the server, unless its program does.
NeverStuck ==
  /\ Loop /\ con.requests # << >> =>
       CASE con.state = "disconnected" -> con.retry \/ con.late
         [] con.state = "connecting" -> TRUE
         [] OTHER -> con.tcp # 0 /\ con.state # "idle" /\ (con.rd \/ (con.wr /\ con.out # << >>))
  /\ \A k \in Conns : srv[k].live =>
       srv[k].listed /\ (srv[k].rd \/ srv[k].held # "no" \/ (srv[k].wr /\ srv[k].out # << >>))

\* A connection with EVHTTP_CON_AUTOFREE is freed when its last request has
\* completed or failed and it is no longer connected (http.h:715).
AutoFreed ==
  Loop /\ job.auto /\ con.requests = << >> /\ con.state = "disconnected" /\ (\E r \in Requests : told[r] # "no") => ~con.live

\* The evhttp_connection between any two steps: no assertion has failed, every
\* request is in one place and is told once, the loop is never without a way on.
Inv == TypeOK /\ OnePlace /\ NeverStuck /\ AutoFreed /\ fault = {}

\* A request that is told it succeeded has the whole reply to itself, and not
\* that of the request before it on the connection: its pieces in order, after
\* a 100 or not; or what a server said that gave up; or, when the reply ends
\* with the connection, as much of it as has arrived.
Expected(r) == IF Form(r) = "big" THEN Refusal(r) ELSE Reply(r)
RightReply ==
  \A r \in Requests : told[r] = "ok" =>
    \/ req[r].got \in {Expected(r), <<Piece(r, "100")>> \o Expected(r)}
    \/ \E i \in 1 .. Len(req[r].got) : req[r].got[i].r = NoReq
    \/ req[r].form = "eof" /\ req[r].got # << >> /\ IsPrefix(req[r].got, Expected(r))

\* No request fails on a network, and with a server, that do nothing wrong.
Innocent == \A r \in Requests : told[r] = "failed" => troubles > 0 \/ Form(r) = "big"

\* evhttp_connection_retry and evhttp_connection_fail_ connect again without
\* sending again what a server has already handed to its program.
NotTwice == \A r \in Requests : handed[r] <= 1

\* What the callback of a request is told is true.
Answers == RightReply /\ Innocent /\ NotTwice

\* Every request that is made comes to an end, and its callback has been called
\* unless the program freed the connection.
Answered == \A r \in Requests : req[r].life = "alive" ~> (req[r].life = "freed" /\ (told[r] = "no" => ~con.live))
==============================================================================
