------------------------------ MODULE MmStore ------------------------------
(***************************************************************************)
(* What the memory pool of cocool/co_mmp.c owes the owners of its objects: *)
(* a private piece of memory for each live object (include/co_obtype.h:47, *)
(* "each object's private data").  What an owner writes stays until he     *)
(* writes again or frees the object, whatever the other owners do - until  *)
(* an allocation makes the pool larger and realloc gives it other memory:  *)
(* then the data of all objects that were live before is lost, at once,    *)
(* and what their owners write goes nowhere.                               *)
(***************************************************************************)
CONSTANTS Objs,     \* the object variables of the program
          Values,   \* what a block can hold
          NoData,   \* the data of an object that is not live
          Lost      \* the data of an object whose memory was given back

VARIABLE data       \* [Objs -> Values, NoData or Lost]

SInit == data = [c \in Objs |-> NoData]

\* A new object; its memory holds whatever it held.
Create(c) == /\ data[c] = NoData
             /\ \E v \in Values : data' = [data EXCEPT ![c] = v]

\* A new object in an array at another place.
CreateMoved(c) ==
  /\ data[c] = NoData
  /\ \E v \in Values :
       data' = [d \in Objs |-> IF d = c THEN v
                               ELSE IF data[d] = NoData THEN NoData ELSE Lost]

Write(c) == /\ data[c] \in Values
            /\ \E v \in Values : data' = [data EXCEPT ![c] = v]

Delete(c) == /\ data[c] # NoData
             /\ data' = [data EXCEPT ![c] = NoData]

SNext == \E c \in Objs : Create(c) \/ CreateMoved(c) \/ Write(c) \/ Delete(c)

SSpec == SInit /\ [][SNext]_data
=============================================================================
