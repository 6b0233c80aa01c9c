------------------------------ MODULE CThread ------------------------------
(***************************************************************************)
(* Starting the workers: ms_thread_process_init of cocool/co_message.c     *)
(* calls cpthread_creat of cocool/co_pthread.c once per thread.  What the  *)
(* new thread is to run lies in threadparam, a local variable of           *)
(* cpthread_creat; every call has it at the same place on the stack of the *)
(* main thread, and start_routine reads it on the new thread, whenever     *)
(* that runs.                                                              *)
(*                                                                         *)
(* message_thread_start passes pms_thread where cpthread_creat expects the *)
(* number of parameters that follow (line 405).  With "argc" in Repaired   *)
(* it passes 1, pms_thread; the code is Repaired = {}.                     *)
(***************************************************************************)
EXTENDS Naturals

CONSTANTS NumThreads,   \* MS_PROCESS_NUM
          Garbage,      \* whatever is on the stack or in a register
          Unread,       \* not read by start_routine yet
          Repaired

Threads == 1 .. NumThreads

CThreadConstants == /\ NumThreads \in Nat \ {0}
                    /\ {Garbage, Unread} \cap (Threads \cup {0}) = {}
                    /\ Garbage # Unread
                    /\ Repaired \subseteq {"argc"}

Null   == 0
Proc   == 1                              \* message_thread_proc
Values == Threads \cup {Null, Garbage}   \* t stands for &g_pms_thread[t - 1]

VARIABLES
  i, pc,         \* the main thread: which call of cpthread_creat, and where
  start_func,    \* of threadparam
  param,         \* of threadparam: param[0]
  state,         \* [Threads -> "none", "born", "run", "ended"]
  func, arg      \* [Threads -> ...], what start_routine has read

vars == <<i, pc, start_func, param, state, func, arg>>

Init == /\ i = 1 /\ pc = "clear"
        /\ start_func = Garbage /\ param = Garbage
        /\ state = [t \in Threads |-> "none"]
        /\ func = [t \in Threads |-> Unread] /\ arg = [t \in Threads |-> Unread]

thread == <<state, func, arg>>

---------------------------------------------------------------------------
(* cpthread_creat, on the main thread                                      *)

\* bzero of threadparam
Clear == /\ pc = "clear" /\ i \in Threads
         /\ start_func' = Null /\ param' = Null
         /\ pc' = "params"
         /\ UNCHANGED <<i, thread>>

\* The low byte of a pointer is the number of parameters: none, or so many
\* that va_arg takes what was never passed.
Params == /\ pc = "params"
          /\ param' \in IF "argc" \in Repaired THEN {i} ELSE {Null, Garbage}
          /\ pc' = "func"
          /\ UNCHANGED <<i, start_func, thread>>

Func == /\ pc = "func"
        /\ start_func' = Proc
        /\ pc' = "create"
        /\ UNCHANGED <<i, param, thread>>

\* The result of pthread_create is not looked at.
Create == /\ pc = "create"
          /\ \/ state' = [state EXCEPT ![i] = "born"]
             \/ UNCHANGED state
          /\ pc' = "return"
          /\ UNCHANGED <<i, start_func, param, func, arg>>

\* The frame is gone: other calls may use its place before the next call.
Return == /\ pc = "return"
          /\ \/ UNCHANGED <<start_func, param>>
             \/ start_func' = Garbage /\ param' = Garbage
          /\ i' = i + 1
          /\ pc' = "clear"
          /\ UNCHANGED thread

---------------------------------------------------------------------------
(* start_routine, on thread t                                              *)

ReadFunc(t) == /\ state[t] = "born" /\ func[t] = Unread
               /\ func' = [func EXCEPT ![t] = start_func]
               /\ UNCHANGED <<i, pc, start_func, param, state, arg>>

ReadParam(t) == /\ state[t] = "born" /\ arg[t] = Unread
                /\ arg' = [arg EXCEPT ![t] = param]
                /\ UNCHANGED <<i, pc, start_func, param, state, func>>

\* message_thread_proc begins, with arg[t] as its pms_thread.
Call(t) == /\ state[t] = "born" /\ func[t] = Proc /\ arg[t] # Unread
           /\ state' = [state EXCEPT ![t] = "run"]
           /\ UNCHANGED <<i, pc, start_func, param, func, arg>>

\* A call through NULL or garbage ends the process, also for the others.
Crash(t) == /\ state[t] = "born" /\ func[t] \in {Null, Garbage} /\ arg[t] # Unread
            /\ state' = [u \in Threads |-> "ended"]
            /\ pc' = "ended"
            /\ UNCHANGED <<i, start_func, param, func, arg>>

Next == \/ Clear \/ Params \/ Func \/ Create \/ Return
        \/ \E t \in Threads : ReadFunc(t) \/ ReadParam(t) \/ Call(t) \/ Crash(t)

Spec == Init /\ [][Next]_vars

---------------------------------------------------------------------------
(* Properties                                                              *)

\* Types; the loop ends with the last thread, and a thread runs only what
\* start_routine has read.
TypeOK ==
  /\ i \in 1 .. NumThreads + 1
  /\ pc \in {"clear", "params", "func", "create", "return", "ended"}
  /\ start_func \in {Proc, Null, Garbage} /\ param \in Values
  /\ state \in [Threads -> {"none", "born", "run", "ended"}]
  /\ func \in [Threads -> {Proc, Null, Garbage, Unread}]
  /\ arg \in [Threads -> Values \cup {Unread}]
  /\ \A t \in Threads : state[t] = "run" => func[t] = Proc /\ arg[t] # Unread

\* A thread that reads its parameter before cpthread_creat returns has its
\* own; one that comes late may have that of a later thread, never that of an
\* earlier one.
ParamsInTime ==
  pc # "ended" => \A t \in Threads : /\ arg[t] # Unread /\ i = t => arg[t] = t
                                     /\ arg[t] \in Threads => arg[t] >= t

\* What the threads of cpthread_creat have to start with.
Inv == TypeOK /\ ParamsInTime

\* message_thread_proc asserts that it has a pms_thread (co_message.c:394).
PmsThread == \A t \in Threads : state[t] = "run" => arg[t] # Null
=============================================================================
