------------------------------- MODULE RbSet -------------------------------
(***************************************************************************)
(* What cocool/co_rbtree.c, with the search and insert cores its header    *)
(* asks the user to write, amounts to: a set of keys, and one call at a    *)
(* time that is about one key.                                             *)
(***************************************************************************)
CONSTANTS Keys, None
VARIABLES
  keys,      \* the keys a search finds
  op,        \* the call: "insert", "erase" or "none"
  arg,       \* its key
  done       \* it has changed the set

SInit == keys = {} /\ op = "none" /\ arg = None /\ done = FALSE

Call(o, k) == /\ op = "none"
              /\ op' = o /\ arg' = k /\ done' = FALSE
              /\ UNCHANGED keys

Returns == op' = "none" /\ arg' = None /\ done' = FALSE

\* Once in a call the set changes, by the key of the call and no other.
Add    == op = "insert" /\ ~done /\ arg \notin keys /\ keys' = keys \cup {arg}
Remove == op = "erase"  /\ ~done /\ arg \in keys    /\ keys' = keys \ {arg}
Change == /\ Add \/ Remove
          /\ Returns \/ (done' = TRUE /\ UNCHANGED <<op, arg>>)

\* A call that changes nothing had nothing to change.
Finish == /\ \/ done
             \/ op = "insert" /\ arg \in keys
             \/ op = "erase" /\ arg \notin keys
          /\ Returns
          /\ UNCHANGED keys

Clear == op = "none" /\ keys' = {} /\ UNCHANGED <<op, arg, done>>

SNext == \/ \E k \in Keys, o \in {"insert", "erase"} : Call(o, k)
         \/ Change \/ Finish \/ Clear
SSpec == SInit /\ [][SNext]_<<keys, op, arg, done>>
=============================================================================
