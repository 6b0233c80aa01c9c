------------------------------ MODULE MsServer ------------------------------
(***************************************************************************)
(* The server from its start on: CThread starts the workers, MsBus is what *)
(* they and the main thread do then.  The main thread listens only when    *)
(* ms_thread_process_init has returned, but by then a worker may not have  *)
(* run yet; and a thread that reads its parameter late runs the event base *)
(* of another worker, if that is not gone with the frame of the call.      *)
(***************************************************************************)
EXTENDS MsBus

CONSTANTS Garbage, Unread,
          StartRepaired    \* Repaired of CThread

VARIABLES
  i, pc, start_func, param, state, func, arg,   \* of CThread
  pbase          \* the base of each pms_thread: "new", "busy" or "spoilt"

Start == INSTANCE CThread WITH NumThreads <- NumWorkers, Repaired <- StartRepaired

ASSUME MsServerAssumption == Start!CThreadConstants

Threads == Start!Threads

start == <<i, pc, start_func, param, state, func, arg>>
all   == <<vars, start, pbase>>

ServerInit == Init /\ Start!Init /\ pbase = [t \in Threads |-> "new"]

\* cpthread_creat and start_routine, up to the call of message_thread_proc
Starting ==
  /\ \/ Start!Clear \/ Start!Params \/ Start!Func \/ Start!Create \/ Start!Return
     \/ \E t \in Threads : Start!ReadFunc(t) \/ Start!ReadParam(t) \/ Start!Crash(t)
  /\ UNCHANGED <<vars, pbase>>

\* message_thread_proc: event_base_dispatch, which does not end.
Enter(t) ==
  /\ Start!Call(t) /\ arg[t] \in Threads /\ pbase[arg[t]] = "new"
  /\ pbase' = [pbase EXCEPT ![arg[t]] = "busy"]
  /\ UNCHANGED vars

\* Faulty: the second thread runs the base as well.
ReenterRuns(t) ==
  /\ Start!Call(t) /\ arg[t] \in Threads /\ pbase[arg[t]] = "busy"
  /\ UNCHANGED <<vars, pbase>>

\* event_base_loop refuses a base that another thread runs, and message_thread_proc
\* frees it all the same; or it does not see the other thread, for nobody has
\* called evthread_use_pthreads and there is no lock.  Either way the base is
\* of no use to anyone.
Reenter(t) ==
  /\ Start!Call(t) /\ arg[t] \in Threads /\ pbase[arg[t]] = "busy"
  /\ pbase' = [pbase EXCEPT ![arg[t]] = "spoilt"]
  /\ UNCHANGED vars

\* The process ends: the assertion of message_thread_proc, or a use of garbage
\* or of a base that two threads had.
Abort(t) ==
  /\ pc # "ended"
  /\ \/ state[t] = "born" /\ func[t] = Start!Proc /\ arg[t] \in {Null, Garbage}
     \/ state[t] \in {"born", "run"} /\ arg[t] \in Threads /\ pbase[arg[t]] = "spoilt"
  /\ pc' = "ended" /\ state' = [u \in Threads |-> "ended"]
  /\ UNCHANGED <<i, start_func, param, func, arg, vars, pbase>>

\* message_base_server: ev_accept_cb, with its way to crash
Listen ==
  /\ i > NumWorkers /\ pc # "ended"
  /\ Accept \/ AcceptorStep \/ Crash
  /\ UNCHANGED <<start, pbase>>

\* The loop of a worker that a thread runs
Work(w) ==
  /\ pbase[w + 1] = "busy" /\ pc # "ended"
  /\ WorkerStep(w) \/ ReadStep(w)
  /\ UNCHANGED <<start, pbase>>

Client == pc # "ended" /\ (\E d \in Fds : ClientCloses(d)) /\ UNCHANGED <<start, pbase>>

ServerNext ==
  \/ Starting \/ Listen \/ Client
  \/ \E t \in Threads : Enter(t) \/ Reenter(t) \/ Abort(t)
  \/ \E w \in Workers : Work(w)

ServerSpec == ServerInit /\ [][ServerNext]_all

---------------------------------------------------------------------------
(* Properties *)

\* A base that is run has one thread in its loop, and one that is spoilt had
\* two; the thread of a later worker never gets the base of an earlier one.
Here(w) == {t \in Threads : state[t] = "run" /\ arg[t] = w}
OneLoop ==
  pc # "ended" => \A w \in Threads :
    /\ Cardinality(Here(w)) = CASE pbase[w] = "new" -> 0 [] pbase[w] = "busy" -> 1 [] OTHER -> 2
    /\ \A t \in Here(w) : t <= w

\* Whenever threads start and whatever parameter they find: every base has one
\* loop, items and descriptors are neither shared nor lost track of, and no byte
\* is written in vain (message_thread_proc, ev_accept_cb, message_notify).
ServerInv ==
  /\ pbase \in [Threads -> {"new", "busy", "spoilt"}]
  /\ Start!Inv /\ OneLoop /\ Inv /\ NoByteInVain
==============================================================================
