------------------------------ MODULE MCMmPool ------------------------------
(***************************************************************************)
(* Instances of MmPool for TLC.                                            *)
(***************************************************************************)
EXTENDS MmPool, TLC

\* The object variables of the program are interchangeable.
Symmetry == Permutations(Objs)

(***************************************************************************)
(* For the careful program only: it never looks at the elements of proot   *)
(* above imemFree nor at the elements of buff that were copied, and what   *)
(* is there never gets back into the rest: Free discards the number it     *)
(* takes out, and an expansion only moves such numbers among themselves.   *)
(* States that differ there alone behave alike.                            *)
(*                                                                         *)
(* So do states that differ in the contents of blocks no owner can see:    *)
(* they only show as what a new object starts with, which the properties   *)
(* leave open, and a Store leads from each such contents to the others.    *)
(***************************************************************************)
UsedBuff == {k \in 0 .. buffMask - 1 : \E c \in Objs : obj[c] = InBuff(k)}

Seen == {Elem(c).privData.block : c \in {d \in Live : Elem(d).privData.at = place}}

View == <<imemSize, imemFree, imemUsed, buffMask, binitialized, place, undefined,
          obj, [b \in Seen |-> pmemData[b]],
          [i \in 0 .. imemFree - 1 |-> proot[i]],
          [k \in Cached \cup UsedBuff |-> buff[k]]>>
=============================================================================
