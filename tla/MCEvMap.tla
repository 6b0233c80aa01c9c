------------------------------- MODULE MCEvMap -------------------------------
(***************************************************************************)
(* Two descriptors, one of them with two readers, a writer and an event    *)
(* for both that also waits for the peer to close.                         *)
(***************************************************************************)
EXTENDS EvMap

CONSTANTS reader, reader2, writer, both, other, a, b

MCFd == [e \in Events |-> IF e = other THEN b ELSE a]
MCKinds == [e \in Events |-> CASE e \in {reader, reader2, other} -> {"READ"}
                               [] e = writer -> {"WRITE"}
                               [] OTHER -> {"READ", "WRITE", "CLOSED"}]
==============================================================================
