------------------------------- MODULE MCEvDns -------------------------------
(***************************************************************************)
(* Two servers and two uses of a resolver: a request that searches through *)
(* two names beside one more, with all that the program may do to a base   *)
(* and a socket may do to both; and one request that is sent up to twice   *)
(* by each of its issues, with a server that cannot be reached.            *)
(***************************************************************************)
EXTENDS EvDns

CONSTANTS u1, u2, s1, s2

MCNames == [x \in Users |-> IF x = u2 THEN 1 ELSE 2]

Busy == [ask |-> Users, retransmits |-> 1, shaky |-> {s1} \X {"full", "error"},
         calls |-> {"suspend", "free"}]
Patient == [ask |-> {u2}, retransmits |-> 2, shaky |-> {<<s1, "error">>}, calls |-> {}]

BothUses == {Busy, Patient}
BusyOnly == {Busy}
PatientOnly == {Patient}
==============================================================================
