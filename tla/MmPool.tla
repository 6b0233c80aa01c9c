------------------------------- MODULE MmPool -------------------------------
(***************************************************************************)
(* One memory pool of cocool/co_mmp.c (the string, int and char pools are  *)
(* three copies of it) and the program that uses it.                       *)
(*                                                                         *)
(* The pool is an array proot of element headers over an array pmemData of *)
(* blocks.  proot[i].iheapIdx names a block; the elements below imemFree   *)
(* are a stack of free blocks.  An allocation takes from buff, a cache of  *)
(* MM_POOL_BUFF elements copied from the top of that stack; a release puts *)
(* the block's number back at proot[imemFree].  Before it takes a block,   *)
(* an allocation looks for one with the same contents above imemFree and   *)
(* returns that element instead.                                           *)
(*                                                                         *)
(* Left out: irefcount and the type pointers, which the pool never reads,  *)
(* and the length of a block (contents are members of Values).             *)
(***************************************************************************)
EXTENDS Integers, FiniteSets

CONSTANTS Objs,            \* the object variables of the program
          Values,          \* what a block can hold
          Zero,            \* a block of zero bytes
          NoData,          \* the data of an object that is not live
          Lost,            \* the data behind a pointer into an array given back
          MM_POOL_BUFF,
          MM_POOL_EXPAND,
          MemSize,         \* MM_POOL_DEFAULT_...SIZE
          MaxSize          \* bound on imemSize: no realloc beyond it

RoundUp(a, b) == ((a + b - 1) \div b) * b    \* MM_POOL_ROUNDUP

InitSize == RoundUp(MemSize, 4)

ASSUME MmPoolAssumption ==
  /\ MM_POOL_BUFF \in Nat \ {0} /\ MM_POOL_EXPAND \in Nat
  /\ MM_POOL_BUFF <= MM_POOL_EXPAND /\ MM_POOL_BUFF <= InitSize
  /\ MemSize \in Nat /\ MaxSize \in Nat /\ InitSize \in Nat
  /\ Zero \in Values /\ NoData \notin Values /\ Lost \notin Values \cup {NoData}
  /\ IsFiniteSet(Objs)

VARIABLES
  proot,         \* [0 .. imemSize-1 -> element headers]
  pmemData,      \* [0 .. imemSize-1 -> Values], the contents of the blocks
  imemSize, imemFree, imemUsed,
  buffMask, buff,
  binitialized,
  place,         \* where pmemData is: one more for each time realloc moved it
  undefined,     \* the last call had undefined behaviour; nothing follows
  obj            \* [Objs -> what the program holds for the object]

pool == <<proot, pmemData, imemSize, imemFree, imemUsed, buffMask, buff,
          binitialized, place>>
vars == <<pool, undefined, obj>>

(***************************************************************************)
(* An element header: the block number iheapIdx and the pointer privData,  *)
(* here the place of the array it points into and the block there.  The    *)
(* two may differ: a release exchanges block numbers, not pointers.        *)
(***************************************************************************)
Element(i, p, b) == [iheapIdx |-> i, privData |-> [at |-> p, block |-> b]]
Wild == -1                    \* the place of an uninitialised pointer

(***************************************************************************)
(* What the program has: nothing, the pointer an allocation returned       *)
(* (into buff or into proot), or a copy made by cocol_dup.                 *)
(***************************************************************************)
None     == [kind |-> "none"]
InBuff(k)  == [kind |-> "buff", slot |-> k]
InRoot(i)  == [kind |-> "proot", slot |-> i]
Copy(e)  == [kind |-> "copy", elem |-> e]

Elem(c) == CASE obj[c].kind = "buff"  -> buff[obj[c].slot]
             [] obj[c].kind = "proot" -> proot[obj[c].slot]
             [] obj[c].kind = "copy"  -> obj[c].elem

Live == {c \in Objs : obj[c] # None}

Init == /\ proot = << >> /\ pmemData = << >>
        /\ imemSize = MemSize /\ imemFree = 0 /\ imemUsed = 0
        /\ buffMask = 0
        /\ buff = [k \in 0 .. MM_POOL_BUFF - 1 |-> Element(0, Wild, 0)]
        /\ binitialized = FALSE
        /\ place = 0
        /\ undefined = FALSE
        /\ obj = [c \in Objs |-> None]

---------------------------------------------------------------------------
(* mm_pool_init, called by cocol_mm_pool_init or by the first allocation.  *)
(* All blocks are free, and mm_pool_init_free_elem fills buff from the top *)
(* of the stack.                                                           *)

InitPool ==
  /\ ~undefined /\ ~binitialized
  /\ proot' = [i \in 0 .. InitSize - 1 |-> Element(i, place, i)]
  /\ pmemData' = [i \in 0 .. InitSize - 1 |-> Zero]
  /\ imemSize' = InitSize
  /\ imemFree' = InitSize - MM_POOL_BUFF
  /\ imemUsed' = MM_POOL_BUFF
  /\ buffMask' = 0
  /\ buff' = [k \in 0 .. MM_POOL_BUFF - 1 |->
                Element(InitSize - 1 - k, place, InitSize - 1 - k)]
  /\ binitialized' = TRUE
  /\ UNCHANGED <<place, undefined, obj>>

(***************************************************************************)
(* The second malloc fails: the pool header, a static variable, is passed  *)
(* to free().  (When the first one fails nothing changes.)                 *)
(***************************************************************************)
InitPoolFails == /\ ~undefined /\ ~binitialized
                 /\ undefined' = TRUE
                 /\ UNCHANGED <<pool, obj>>

---------------------------------------------------------------------------
(* ..._malloc: mm_pool_get_elem                                            *)

\* The used part of proot, and the elements there whose block contains v.
UsedSlots == imemFree .. imemSize - 1
Hits(v)   == {i \in UsedSlots : pmemData[proot[i].iheapIdx] = v}

\* mm_pool_check_elem returns the first of them.
MallocHit(c, v) ==
  /\ Hits(v) # {}
  /\ obj' = [obj EXCEPT ![c] = InRoot(CHOOSE i \in Hits(v) : \A j \in Hits(v) : i <= j)]
  /\ UNCHANGED pool

\* Faulty: the index stays where it is.
MallocBufferedAgain(c) ==
  /\ buffMask < MM_POOL_BUFF
  /\ obj' = [obj EXCEPT ![c] = InBuff(buffMask)]
  /\ UNCHANGED pool

\* mm_pool_get_free_elem hands out the next element of buff.
MallocBuffered(c) ==
  /\ buffMask < MM_POOL_BUFF
  /\ obj' = [obj EXCEPT ![c] = InBuff(buffMask)]
  /\ buffMask' = buffMask + 1
  /\ UNCHANGED <<proot, pmemData, imemSize, imemFree, imemUsed, buff, binitialized, place>>

\* Faulty: privData is copied from proot instead of computed.
RefillCopiesPointer(c, root, free, at) ==
  /\ buff' = [k \in 0 .. MM_POOL_BUFF - 1 |-> root[free - 1 - k]]
  /\ imemFree' = free - MM_POOL_BUFF
  /\ imemUsed' = imemUsed + MM_POOL_BUFF
  /\ buffMask' = 1
  /\ obj' = [obj EXCEPT ![c] = InBuff(0)]

(***************************************************************************)
(* mm_pool_get_free with the array root, the stack height free and the     *)
(* place at of pmemData: refill buff from the top, privData from the block *)
(* number; the first element of it is handed out.                          *)
(***************************************************************************)
Refill(c, root, free, at) ==
  /\ buff' = [k \in 0 .. MM_POOL_BUFF - 1 |->
                LET b == root[free - 1 - k].iheapIdx IN Element(b, at, b)]
  /\ imemFree' = free - MM_POOL_BUFF
  /\ imemUsed' = imemUsed + MM_POOL_BUFF
  /\ buffMask' = 1
  /\ obj' = [obj EXCEPT ![c] = InBuff(0)]

MallocRefill(c) ==
  /\ buffMask = MM_POOL_BUFF
  /\ imemFree >= MM_POOL_BUFF
  /\ Refill(c, proot, imemFree, place)
  /\ UNCHANGED <<proot, pmemData, imemSize, binitialized, place>>

(***************************************************************************)
(* mm_pool_expand: MM_POOL_EXPAND new elements at the end of proot, each   *)
(* given its own number and released at once, so that its number goes to   *)
(* the stack and the number there to the new element; when the stack runs  *)
(* into the new elements, the numbers it displaces move on once more.      *)
(* privData of the new elements and the new blocks are uninitialised.      *)
(* realloc may move pmemData; the pointers into it are not adjusted.       *)
(* (When a realloc fails the allocation returns NULL, and nothing the      *)
(* model shows has changed.)                                               *)
(***************************************************************************)
Expanded ==
  LET f == imemFree
      n == imemSize
      number(i) == IF i \in f .. f + MM_POOL_EXPAND - 1 THEN n + i - f
                   ELSE IF i < n THEN proot[i].iheapIdx
                   ELSE proot[f + ((i - n) % (n - f))].iheapIdx
  IN [i \in 0 .. n + MM_POOL_EXPAND - 1 |->
        IF i < n THEN [proot[i] EXCEPT !.iheapIdx = number(i)]
                 ELSE Element(number(i), Wild, 0)]

MallocExpand(c) ==
  /\ buffMask = MM_POOL_BUFF
  /\ imemFree < MM_POOL_BUFF
  /\ imemSize + MM_POOL_EXPAND <= MaxSize
  /\ place' \in {place, place + 1}
  /\ \E junk \in [imemSize .. imemSize + MM_POOL_EXPAND - 1 -> Values] :
       pmemData' = [b \in 0 .. imemSize + MM_POOL_EXPAND - 1 |->
                      IF b < imemSize THEN pmemData[b] ELSE junk[b]]
  /\ proot' = Expanded
  /\ imemSize' = imemSize + MM_POOL_EXPAND
  /\ Refill(c, Expanded, imemFree + MM_POOL_EXPAND, place')
  /\ UNCHANGED binitialized

Miss(c) == MallocBuffered(c) \/ MallocRefill(c) \/ MallocExpand(c)

(***************************************************************************)
(* The program asks for contents that no block above imemFree has.  There  *)
(* are always such contents: a block has more of them than the pool has    *)
(* blocks, and Values only tells apart those the properties speak of.      *)
(***************************************************************************)
MallocFresh(c) == /\ ~undefined /\ binitialized
                  /\ obj[c] = None
                  /\ Miss(c)
                  /\ UNCHANGED undefined

MallocFound(c) == /\ ~undefined /\ binitialized
                  /\ obj[c] = None
                  /\ \E v \in Values : MallocHit(c, v)
                  /\ UNCHANGED undefined

---------------------------------------------------------------------------
(* ..._init writes through privData.  A pointer into an array that realloc *)
(* has given back, or an uninitialised one, hits memory outside the model. *)

Store(c) ==
  /\ ~undefined /\ binitialized
  /\ obj[c] # None
  /\ LET p == Elem(c).privData IN
       \/ /\ p.at = place
          /\ \E v \in Values : pmemData' = [pmemData EXCEPT ![p.block] = v]
       \/ /\ p.at # place
          /\ UNCHANGED pmemData
  /\ UNCHANGED <<proot, imemSize, imemFree, imemUsed, buffMask, buff,
                 binitialized, place, undefined, obj>>

\* ..._dup into the program's own header.
Dup(c) == /\ ~undefined
          /\ obj[c].kind \in {"buff", "proot"}
          /\ obj' = [obj EXCEPT ![c] = Copy(Elem(c))]
          /\ UNCHANGED <<pool, undefined>>

(***************************************************************************)
(* ..._free: mm_pool_free_elem and mm_pool_shit_down exchange the numbers  *)
(* of the element and of proot[imemFree].                                  *)
(***************************************************************************)
Free(c) ==
  LET e == Elem(c) IN
  /\ ~undefined /\ binitialized
  /\ obj[c] # None
  /\ imemFree < imemSize
  /\ LET old  == proot[imemFree].iheapIdx
         root == [proot EXCEPT ![imemFree].iheapIdx = e.iheapIdx]
     IN /\ proot' = IF obj[c].kind = "proot"
                      THEN [root EXCEPT ![obj[c].slot].iheapIdx = old]
                      ELSE root
        /\ buff' = IF obj[c].kind = "buff"
                     THEN [buff EXCEPT ![obj[c].slot].iheapIdx = old]
                     ELSE buff
  /\ imemFree' = imemFree + 1
  /\ imemUsed' = imemUsed - 1
  /\ obj' = [obj EXCEPT ![c] = None]
  /\ UNCHANGED <<pmemData, imemSize, buffMask, binitialized, place, undefined>>

\* The same call with every element on the stack writes behind the array.
FreeBeyond(c) == /\ ~undefined /\ binitialized
                 /\ obj[c] # None
                 /\ imemFree >= imemSize
                 /\ undefined' = TRUE
                 /\ UNCHANGED <<pool, obj>>

---------------------------------------------------------------------------
(* Two programs.  Both initialise the pool first, use an object only       *)
(* between its allocation and its release, and release it once.            *)

\* Every pointer an allocation returned has been copied with ..._dup.
Settled == \A c \in Objs : obj[c].kind \in {"none", "copy"}

\* A careful program: it copies each new header before the next allocation
\* and never asks for contents that the pool still knows.
CarefulNext == \/ InitPool
               \/ \E c \in Objs : \/ Settled /\ MallocFresh(c)
                                  \/ Store(c) \/ Dup(c)
                                  \/ obj[c].kind = "copy" /\ Free(c)

CarefulSpec == Init /\ [][CarefulNext]_vars

\* It copies each new header, but asks for any contents.
SharingNext == \/ InitPool \/ InitPoolFails
               \/ \E c \in Objs : \/ Settled /\ (MallocFresh(c) \/ MallocFound(c))
                                  \/ Store(c) \/ Dup(c) \/ Free(c) \/ FreeBeyond(c)

SharingSpec == Init /\ [][SharingNext]_vars

---------------------------------------------------------------------------
(* Properties                                                              *)

Blocks  == 0 .. imemSize - 1
Pointers == [at : {Wild} \cup (0 .. place), block : Blocks]
Elements == [iheapIdx : Blocks, privData : Pointers]

IsHandle(h) == \/ h = None
               \/ \E k \in 0 .. MM_POOL_BUFF - 1 : h = InBuff(k)
               \/ \E i \in Blocks : h = InRoot(i)
               \/ h.kind = "copy" /\ h.elem \in Elements /\ h = Copy(h.elem)

(***************************************************************************)
(* Types, and the ranges of the counters: buff is refilled only when it is *)
(* used up, and only from a stack high enough.                             *)
(***************************************************************************)
TypeOK ==
  /\ binitialized \in BOOLEAN /\ undefined \in BOOLEAN
  /\ place \in Nat /\ imemSize \in Nat
  /\ imemFree \in 0 .. imemSize
  /\ buffMask \in 0 .. MM_POOL_BUFF
  /\ DOMAIN obj = Objs /\ \A c \in Objs : IsHandle(obj[c])
  /\ binitialized => /\ proot \in [Blocks -> Elements]
                     /\ pmemData \in [Blocks -> Values]
                     /\ buff \in [0 .. MM_POOL_BUFF - 1 -> Elements]
  /\ ~binitialized => Live = {} /\ buffMask = 0

\* The parts of the pool a block can be in.
Cached == buffMask .. MM_POOL_BUFF - 1
FreeAt(b, i)   == i \in 0 .. imemFree - 1 /\ proot[i].iheapIdx = b
CachedAt(b, k) == k \in Cached /\ buff[k].iheapIdx = b
LiveAt(b, c)   == c \in Live /\ Elem(c).iheapIdx = b

IsFree(b)   == \E i \in 0 .. imemFree - 1 : FreeAt(b, i)
IsCached(b) == \E k \in Cached : CachedAt(b, k)
IsLive(b)   == \E c \in Live : LiveAt(b, c)

(***************************************************************************)
(* Every block is on the stack once, or once in the unused part of buff,   *)
(* or belongs to one live object: none is lost, none is handed out twice   *)
(* (co_mmp.c:176-180, 223-241, 114).                                       *)
(***************************************************************************)
OneHome ==
  binitialized =>
    \A b \in Blocks :
      /\ IsFree(b) \/ IsCached(b) \/ IsLive(b)
      /\ ~(IsFree(b) /\ IsCached(b)) /\ ~(IsFree(b) /\ IsLive(b))
      /\ ~(IsCached(b) /\ IsLive(b))
      /\ \A i, j \in 0 .. imemFree - 1 : FreeAt(b, i) /\ FreeAt(b, j) => i = j
      /\ \A k, l \in Cached : CachedAt(b, k) /\ CachedAt(b, l) => k = l
      /\ \A c, d \in Live : LiveAt(b, c) /\ LiveAt(b, d) => c = d

(***************************************************************************)
(* A program that releases what it allocated never pushes beyond the top   *)
(* of proot (co_mmp.c:114): each element above the stack stands for a live *)
(* object or an unused element of buff.                                    *)
(***************************************************************************)
Accounted == binitialized => imemUsed = Cardinality(Live) + MM_POOL_BUFF - buffMask
RoomToFree == Live # {} => imemFree < imemSize

\* Pointers into buff point to the part handed out, and there is one at most.
HandedOut == /\ \A c \in Objs : obj[c].kind # "proot"
             /\ \A c \in Objs : obj[c].kind = "buff" => obj[c].slot < buffMask
             /\ \A c, d \in Objs : obj[c].kind = "buff" /\ obj[d].kind = "buff" => c = d

(***************************************************************************)
(* privData and iheapIdx of an element that is or will be used name one    *)
(* block: of the array as it is, for what waits in buff, and for a live    *)
(* object of the array as it was when the object was allocated - never of  *)
(* none, and never another block (co_mmp.c:176-180, 223-241).              *)
(***************************************************************************)
Agree(e, at) == e.privData = [at |-> at, block |-> e.iheapIdx]
PointersAgree == binitialized => /\ \A k \in Cached : Agree(buff[k], place)
                                 /\ \A c \in Live : \E at \in 0 .. place : Agree(Elem(c), at)

\* The pool between any two calls: blocks, counters and pointers agree.
Inv == TypeOK /\ OneHome /\ Accounted /\ RoomToFree /\ HandedOut /\ PointersAgree

\* What the owner of an object reads through privData.
Data(c) == IF obj[c] = None THEN NoData
           ELSE IF Elem(c).privData.at # place THEN Lost
           ELSE pmemData[Elem(c).privData.block]

Objects == INSTANCE MmStore WITH data <- [c \in Objs |-> Data(c)]

(***************************************************************************)
(* The objects of a careful program have memory of their own: the          *)
(* allocations, writes and releases of one leave the data of the others    *)
(* alone (include/co_obtype.h:47), but for an allocation at which realloc  *)
(* moves pmemData (co_mmp.c:138): that one takes the data of all others,   *)
(* whose pointers are not adjusted, and no later call gives it back or     *)
(* lets their owners write into the memory of another object.              *)
(***************************************************************************)
ImplementsStore == Objects!SSpec

\* Live objects of a program do not share a block unless they hold the same
\* data on purpose: the block of a live object is not free for reuse.
NotFreed == \A c \in Live : ~IsFree(Elem(c).iheapIdx)

\* The data pointer of a live object points into the pool.
PointerValid == \A c \in Live : Elem(c).privData.at = place
=============================================================================
