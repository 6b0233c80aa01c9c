------------------------------ MODULE HashMap ------------------------------
(***************************************************************************)
(* What cocool/co_hash.c promises (co_hash.c:31-34, 213-236): a map from   *)
(* names to data.  Keys are spellings of names, and two keys that differ   *)
(* in upper and lower case spell the same name.  The map keeps the key     *)
(* pointer of the last insert, not a copy.                                 *)
(***************************************************************************)
CONSTANTS Keys,     \* the key strings of the callers
          NameOf,   \* [Keys -> names]
          Data,     \* the data pointers other than NULL
          NoData    \* NULL

VARIABLES map,      \* [names -> [key, data] or NoData]
          asked,    \* the key of the last insert
          ret       \* and what it returned

Names == {NameOf[k] : k \in Keys}

MInit == map = [n \in Names |-> NoData] /\ asked = NoData /\ ret = NoData

Old(k) == IF map[NameOf[k]] = NoData THEN NoData ELSE map[NameOf[k]].data

\* A call has begun: the result of the one before is gone.
Begin == asked' = NoData /\ ret' = NoData /\ UNCHANGED map

\* A new element, or new data and a new key for the old one.
Put(k, d) == /\ map' = [map EXCEPT ![NameOf[k]] = [key |-> k, data |-> d]]
             /\ asked' = k /\ ret' = Old(k)

\* Data NULL removes; nothing happens when there is nothing to remove.
Remove(k) == /\ map' = [map EXCEPT ![NameOf[k]] = NoData]
             /\ asked' = k /\ ret' = Old(k)

\* No memory for a new element: the data comes back, the map is unchanged.
Full(k, d) == /\ map[NameOf[k]] = NoData
              /\ asked' = k /\ ret' = d
              /\ UNCHANGED map

Clear == map' = [n \in Names |-> NoData] /\ asked' = NoData /\ ret' = NoData

MNext == \/ Begin \/ Clear
         \/ \E k \in Keys : Remove(k) \/ \E d \in Data : Put(k, d) \/ Full(k, d)

MSpec == MInit /\ [][MNext]_<<map, asked, ret>>
=============================================================================
