------------------------------- MODULE MCEvHttp -------------------------------
(***************************************************************************)
(* What the program asks and how it is answered, one line per case.          *)
(***************************************************************************)
EXTENDS EvHttp, TLC

CONSTANTS a, b

Ask(form, style, chunks) == [form |-> form, style |-> style, chunks |-> chunks]
Plain == [retries |-> 0, rowe |-> FALSE, linger |-> FALSE, auto |-> FALSE]
J(asks, options) == options @@ [asks |-> asks]

MCJobs ==
  {J(a :> Ask("get", "length", FALSE) @@ b :> Ask("get", "stream", TRUE), [Plain EXCEPT !.retries = 1]),
   J(a :> Ask("old", "stream", FALSE) @@ b :> Ask("get", "empty", FALSE), [Plain EXCEPT !.auto = TRUE]),
   J(a :> Ask("expect", "length", TRUE) @@ b :> Ask("get", "closing", FALSE), [Plain EXCEPT !.auto = TRUE]),
   J(a :> Ask("big", "length", FALSE) @@ b :> Ask("post", "stream", FALSE), [Plain EXCEPT !.rowe = TRUE]),
   J(a :> Ask("old", "length", TRUE) @@ b :> Ask("big", "length", FALSE), [Plain EXCEPT !.linger = TRUE, !.retries = 1])}
==============================================================================
