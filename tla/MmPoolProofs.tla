---------------------------- MODULE MmPoolProofs ----------------------------
(***************************************************************************)
(* Theorems about MmPool and a careful program, for every number of        *)
(* objects, sizes and contents, whatever realloc does: where the blocks    *)
(* are, that pointers and block numbers agree, and that every object has   *)
(* memory of its own until realloc moves all of it.                        *)
(***************************************************************************)
EXTENDS MmPool, FiniteSetTheorems, TLAPS

LEMMA Sizes ==
  /\ MM_POOL_BUFF \in Nat /\ MM_POOL_BUFF > 0
  /\ MM_POOL_EXPAND \in Nat /\ MM_POOL_BUFF <= MM_POOL_EXPAND
  /\ InitSize \in Nat /\ MM_POOL_BUFF <= InitSize /\ MemSize \in Nat
  /\ IsFiniteSet(Objs) /\ Zero \in Values /\ NoData \notin Values
BY MmPoolAssumption

Stack     == 0 .. imemFree - 1
Number(c) == Elem(c).iheapIdx

(***************************************************************************)
(* OneHome, with the places of the blocks compared in pairs.               *)
(***************************************************************************)
Homes ==
  binitialized =>
    /\ \A i, j \in Stack : proot[i].iheapIdx = proot[j].iheapIdx => i = j
    /\ \A k, l \in Cached : buff[k].iheapIdx = buff[l].iheapIdx => k = l
    /\ \A c, d \in Live : Number(c) = Number(d) => c = d
    /\ \A i \in Stack : \A k \in Cached : proot[i].iheapIdx # buff[k].iheapIdx
    /\ \A i \in Stack : \A c \in Live : proot[i].iheapIdx # Number(c)
    /\ \A k \in Cached : \A c \in Live : buff[k].iheapIdx # Number(c)
    /\ \A b \in Blocks : \/ \E i \in Stack : proot[i].iheapIdx = b
                         \/ \E k \in Cached : buff[k].iheapIdx = b
                         \/ \E c \in Live : Number(c) = b

Balanced == imemUsed \in Int /\ (binitialized => imemFree + imemUsed = imemSize)

PoolInv == TypeOK /\ Homes /\ Accounted /\ Balanced /\ HandedOut

LEMMA HomesMean == Homes => OneHome
BY DEF Homes, OneHome, IsFree, IsCached, IsLive, FreeAt, CachedAt, LiveAt, Stack, Number

LEMMA LiveFinite == IsFiniteSet(Live) /\ Cardinality(Live) \in Nat
<1>1. Live \in SUBSET Objs BY DEF Live
<1> QED BY <1>1, Sizes, FS_Subset, FS_CardinalityType

\* There is room because the used elements are at least as many as the objects.
LEMMA RoomThere == PoolInv => RoomToFree
<1> SUFFICES ASSUME PoolInv, Live # {} PROVE imemFree < imemSize BY DEF RoomToFree
<1>1. binitialized /\ buffMask \in 0 .. MM_POOL_BUFF /\ imemSize \in Nat /\ imemFree \in Nat
  BY DEF PoolInv, TypeOK
<1>2. Cardinality(Live) # 0 /\ Cardinality(Live) \in Nat BY LiveFinite, FS_EmptySet
<1>3. imemUsed = Cardinality(Live) + MM_POOL_BUFF - buffMask /\ imemFree + imemUsed = imemSize
  BY <1>1 DEF PoolInv, Accounted, Balanced
<1>4. imemUsed \in Int /\ imemUsed >= 1
  <2> HIDE DEF PoolInv
  <2> QED BY <1>1, <1>2, <1>3, Sizes
<1> QED BY <1>1, <1>3, <1>4

\* What a careful program holds, and the element that stands for it.
LEMMA HandleKinds ==
  ASSUME TypeOK, HandedOut, NEW c \in Live
  PROVE  /\ binitialized /\ c \in Objs /\ Elem(c) \in Elements
         /\ \/ /\ obj[c].kind = "buff" /\ obj[c].slot \in 0 .. MM_POOL_BUFF - 1
               /\ obj[c].slot < buffMask /\ Elem(c) = buff[obj[c].slot]
            \/ obj[c].kind = "copy" /\ Elem(c) = obj[c].elem
<1>1. c \in Objs /\ obj[c] # None /\ IsHandle(obj[c]) /\ binitialized
  BY DEF Live, TypeOK
<1>2. obj[c].kind # "proot" BY <1>1 DEF HandedOut
<1>3. CASE \E k \in 0 .. MM_POOL_BUFF - 1 : obj[c] = InBuff(k)
  <2>1. PICK k \in 0 .. MM_POOL_BUFF - 1 : obj[c] = InBuff(k) BY <1>3
  <2>2. obj[c].kind = "buff" /\ obj[c].slot = k BY <2>1 DEF InBuff
  <2>3. Elem(c) = buff[k] BY <2>2 DEF Elem
  <2> QED BY <1>1, <2>2, <2>3 DEF HandedOut, TypeOK
<1>4. CASE obj[c].kind = "copy" /\ obj[c].elem \in Elements
  <2>1. Elem(c) = obj[c].elem BY <1>4 DEF Elem
  <2> QED BY <1>1, <1>4, <2>1
<1>5. \A i : obj[c] # InRoot(i) BY <1>2 DEF InRoot
<1>6. \/ \E k \in 0 .. MM_POOL_BUFF - 1 : obj[c] = InBuff(k)
      \/ obj[c].kind = "copy" /\ obj[c].elem \in Elements
  BY <1>1, <1>5 DEF IsHandle
<1> QED BY <1>3, <1>4, <1>6

\* Blocks that are there stay there.
LEMMA ElementsGrow ==
  ASSUME imemSize \in Nat, imemSize' \in Nat, imemSize <= imemSize',
         place \in Nat, place' \in Nat, place <= place'
  PROVE  /\ Blocks \subseteq Blocks' /\ Elements \subseteq Elements'
         /\ \A h : IsHandle(h) => IsHandle(h)'
<1>1. Blocks \subseteq Blocks'
  <2>1. \A m, n \in Nat : m <= n => 0 .. m - 1 \subseteq 0 .. n - 1 OBVIOUS
  <2>2. Blocks' = 0 .. imemSize' - 1 BY DEF Blocks
  <2> QED BY <2>1, <2>2 DEF Blocks
<1>2. Pointers \subseteq Pointers'
  <2>1. 0 .. place \subseteq 0 .. place' OBVIOUS
  <2> QED BY <1>1, <2>1 DEF Pointers
<1>3. Elements \subseteq Elements' BY <1>1, <1>2 DEF Elements
<1>4. ASSUME NEW h, IsHandle(h) PROVE IsHandle(h)'
  BY <1>1, <1>3, <1>4 DEF IsHandle
<1> QED BY <1>1, <1>3, <1>4

---------------------------------------------------------------------------
(* What the steps of a careful program do to what it holds.                *)

\* A new object stands for an element of buff, and the others are copies.
LEMMA Handed ==
  ASSUME TypeOK, HandedOut, Settled, binitialized, binitialized',
         NEW c \in Objs, obj[c] = None, NEW k \in 0 .. MM_POOL_BUFF - 1, k < buffMask',
         obj' = [obj EXCEPT ![c] = InBuff(k)]
  PROVE  /\ Live' = Live \cup {c} /\ c \notin Live
         /\ Cardinality(Live') = Cardinality(Live) + 1
         /\ \A d \in Live : d # c /\ Elem(d)' = Elem(d) /\ obj'[d] = obj[d]
                            /\ obj[d].kind = "copy" /\ Elem(d) = obj[d].elem
         /\ Elem(c)' = buff'[k]
         /\ HandedOut'
<1>1. \A d \in Objs : obj'[d] = IF d = c THEN InBuff(k) ELSE obj[d] BY DEF TypeOK
<1>2. InBuff(k) # None /\ InBuff(k).kind = "buff" /\ InBuff(k).slot = k BY DEF InBuff, None
<1>3. Live' = Live \cup {c} /\ c \notin Live BY <1>1, <1>2 DEF Live
<1>4. Cardinality(Live') = Cardinality(Live) + 1 BY <1>3, LiveFinite, FS_AddElement
<1>5. ASSUME NEW d \in Live
      PROVE  /\ d # c /\ Elem(d)' = Elem(d) /\ obj'[d] = obj[d]
             /\ obj[d].kind = "copy" /\ Elem(d) = obj[d].elem
  <2>1. d \in Objs /\ d # c /\ obj'[d] = obj[d] BY <1>1, <1>3 DEF Live
  <2>2. obj[d].kind = "copy" BY <2>1, HandleKinds DEF Settled
  <2>3. Elem(d) = obj[d].elem /\ Elem(d)' = obj'[d].elem BY <2>1, <2>2 DEF Elem
  <2> QED BY <2>1, <2>2, <2>3
<1>6. Elem(c)' = buff'[k] BY <1>1, <1>2 DEF Elem
<1>7. \A d \in Objs : d # c => obj'[d].kind \in {"none", "copy"} BY <1>1 DEF Settled
<1>8. HandedOut' BY <1>1, <1>2, <1>7 DEF HandedOut
<1> QED BY <1>3, <1>4, <1>5, <1>6, <1>8

\* A stack of height g below r, with buff used up.
Stacked(r, g, n) ==
  /\ \A i \in 0 .. g - 1 : r[i].iheapIdx \in 0 .. n - 1
  /\ \A i, j \in 0 .. g - 1 : r[i].iheapIdx = r[j].iheapIdx => i = j
  /\ \A c, d \in Live : Number(c) = Number(d) => c = d
  /\ \A i \in 0 .. g - 1 : \A c \in Live : r[i].iheapIdx # Number(c)
  /\ \A b \in 0 .. n - 1 : \/ \E i \in 0 .. g - 1 : r[i].iheapIdx = b
                           \/ \E c \in Live : Number(c) = b

LEMMA RefillHomes ==
  ASSUME TypeOK, HandedOut, Settled, binitialized, binitialized',
         NEW c \in Objs, obj[c] = None,
         NEW g \in Nat, g >= MM_POOL_BUFF, NEW at, Stacked(proot', g, imemSize'),
         Refill(c, proot', g, at)
  PROVE  Homes' /\ HandedOut'
<1> DEFINE num(i) == proot'[i].iheapIdx
<1>1. /\ \A k \in 0 .. MM_POOL_BUFF - 1 : buff'[k].iheapIdx = num(g - 1 - k)
      /\ imemFree' = g - MM_POOL_BUFF /\ buffMask' = 1
      /\ obj' = [obj EXCEPT ![c] = InBuff(0)]
  BY Sizes DEF Refill, Element
<1>2. 0 \in 0 .. MM_POOL_BUFF - 1 /\ 0 < buffMask' BY <1>1, Sizes
<1>3. /\ Live' = Live \cup {c} /\ c \notin Live /\ Elem(c)' = buff'[0] /\ HandedOut'
      /\ \A d \in Live : Elem(d)' = Elem(d)
  BY <1>1, <1>2, Handed
<1>4. Number(c)' = num(g - 1) /\ \A d \in Live : Number(d)' = Number(d)
  BY <1>1, <1>2, <1>3, Sizes DEF Number
<1>5. Stack' = 0 .. (g - MM_POOL_BUFF) - 1 /\ Cached' = 1 .. MM_POOL_BUFF - 1
      /\ Blocks' = 0 .. imemSize' - 1
  BY <1>1 DEF Stack, Cached, Blocks
<1> HIDE DEF num
<1>6. g - 1 \in 0 .. g - 1
      /\ \A i \in Stack' : i \in 0 .. g - 1 /\ i < g - MM_POOL_BUFF
  BY <1>5, Sizes
<1>7. \A k \in Cached' : /\ g - 1 - k \in 0 .. g - 1 /\ g - 1 - k >= g - MM_POOL_BUFF
                         /\ g - 1 - k # g - 1 /\ buff'[k].iheapIdx = num(g - 1 - k)
  <2> SUFFICES ASSUME NEW k \in 1 .. MM_POOL_BUFF - 1
               PROVE  /\ g - 1 - k \in 0 .. g - 1 /\ g - 1 - k >= g - MM_POOL_BUFF
                      /\ g - 1 - k # g - 1 /\ buff'[k].iheapIdx = num(g - 1 - k)
    BY <1>5
  <2>1. k \in 0 .. MM_POOL_BUFF - 1 BY Sizes
  <2> QED BY <1>1, <2>1, Sizes
<1>8. /\ \A i, j \in 0 .. g - 1 : num(i) = num(j) => i = j
      /\ \A d, e \in Live : Number(d) = Number(e) => d = e
      /\ \A i \in 0 .. g - 1 : \A d \in Live : num(i) # Number(d)
      /\ \A b \in 0 .. imemSize' - 1 : \/ \E i \in 0 .. g - 1 : num(i) = b
                                       \/ \E d \in Live : Number(d) = b
  BY DEF Stacked, num
<1>9. \A i, j \in Stack' : num(i) = num(j) => i = j BY <1>6, <1>8
<1>10. \A k, l \in Cached' : buff'[k].iheapIdx = buff'[l].iheapIdx => k = l
  <2> SUFFICES ASSUME NEW k \in Cached', NEW l \in Cached', buff'[k].iheapIdx = buff'[l].iheapIdx
               PROVE  k = l
    OBVIOUS
  <2>1. g - 1 - k = g - 1 - l BY <1>7, <1>8
  <2> QED BY <1>5, <2>1, Sizes
<1>11. \A d, e \in Live' : Number(d)' = Number(e)' => d = e BY <1>3, <1>4, <1>6, <1>8
<1>12. \A i \in Stack' : \A k \in Cached' : num(i) # buff'[k].iheapIdx
  <2> SUFFICES ASSUME NEW i \in Stack', NEW k \in Cached', num(i) = buff'[k].iheapIdx
               PROVE  FALSE
    OBVIOUS
  <2>1. i = g - 1 - k BY <1>6, <1>7, <1>8
  <2> QED BY <1>5, <1>6, <1>7, <2>1, Sizes
<1>13. \A i \in Stack' : \A d \in Live' : num(i) # Number(d)'
  <2>1. \A i \in Stack' : i # g - 1 BY <1>5, Sizes
  <2> QED BY <1>3, <1>4, <1>6, <1>8, <2>1
<1>14. \A k \in Cached' : \A d \in Live' : buff'[k].iheapIdx # Number(d)'
  BY <1>3, <1>4, <1>6, <1>7, <1>8
<1>15. ASSUME NEW b \in Blocks'
       PROVE  \/ \E i \in Stack' : num(i) = b
              \/ \E k \in Cached' : buff'[k].iheapIdx = b
              \/ \E d \in Live' : Number(d)' = b
  <2>1. CASE \E d \in Live : Number(d) = b BY <1>3, <1>4, <2>1
  <2>2. ASSUME NEW i \in 0 .. g - 1, num(i) = b
        PROVE  \/ \E j \in Stack' : num(j) = b
               \/ \E k \in Cached' : buff'[k].iheapIdx = b
               \/ \E d \in Live' : Number(d)' = b
    <3>1. CASE i = g - 1 BY <1>3, <1>4, <2>2, <3>1
    <3>2. CASE i < g - MM_POOL_BUFF
      <4>1. i \in Stack' BY <1>5, <3>2, Sizes
      <4> QED BY <2>2, <4>1
    <3>3. CASE i # g - 1 /\ i >= g - MM_POOL_BUFF
      <4>1. g - 1 - i \in Cached' /\ g - 1 - (g - 1 - i) = i BY <1>5, <3>3, Sizes
      <4>2. buff'[g - 1 - i].iheapIdx = num(i) BY <1>7, <4>1
      <4> QED BY <2>2, <4>1, <4>2
    <3> QED BY <3>1, <3>2, <3>3, Sizes
  <2> QED BY <1>5, <1>8, <2>1, <2>2
<1> QED BY <1>3, <1>9, <1>10, <1>11, <1>12, <1>13, <1>14, <1>15 DEF Homes, num

---------------------------------------------------------------------------
(* The steps                                                               *)

LEMMA InitPoolStep ==
  ASSUME PoolInv, InitPool
  PROVE  PoolInv'
<1> USE Sizes DEF PoolInv
<1>1. Live = {} /\ obj' = obj /\ Live' = {} BY DEF InitPool, TypeOK, Live
<1>2. /\ proot' = [i \in 0 .. InitSize - 1 |-> Element(i, place, i)]
      /\ buff' = [k \in 0 .. MM_POOL_BUFF - 1 |->
                    Element(InitSize - 1 - k, place, InitSize - 1 - k)]
      /\ pmemData' = [i \in 0 .. InitSize - 1 |-> Zero]
      /\ imemSize' = InitSize /\ imemFree' = InitSize - MM_POOL_BUFF
      /\ imemUsed' = MM_POOL_BUFF /\ buffMask' = 0 /\ binitialized' = TRUE
      /\ UNCHANGED <<place, undefined, obj>>
  BY DEF InitPool
<1>3. \A i \in 0 .. InitSize - 1 : Element(i, place, i) \in Elements'
  BY <1>2 DEF Element, Elements, Pointers, Blocks, TypeOK
<1>4. \A k \in 0 .. MM_POOL_BUFF - 1 : InitSize - 1 - k \in 0 .. InitSize - 1 OBVIOUS
<1>5. TypeOK'
  <2>1. Blocks' = 0 .. InitSize - 1 BY <1>2 DEF Blocks
  <2>2. /\ proot' \in [Blocks' -> Elements'] /\ pmemData' \in [Blocks' -> Values]
        /\ buff' \in [0 .. MM_POOL_BUFF - 1 -> Elements']
    BY <1>2, <1>3, <1>4, <2>1
  <2>3. \A c \in Objs : IsHandle(obj[c])' BY <1>1 DEF Live, IsHandle
  <2>4. imemFree' \in 0 .. imemSize' /\ buffMask' \in 0 .. MM_POOL_BUFF BY <1>2
  <2> QED BY <1>1, <1>2, <2>2, <2>3, <2>4 DEF TypeOK
<1>6. Homes'
  <2>1. \A i \in 0 .. InitSize - 1 : proot'[i].iheapIdx = i BY <1>2 DEF Element
  <2>2. \A k \in 0 .. MM_POOL_BUFF - 1 : buff'[k].iheapIdx = InitSize - 1 - k
    BY <1>2 DEF Element
  <2>3. /\ Stack' = 0 .. InitSize - MM_POOL_BUFF - 1 /\ Cached' = 0 .. MM_POOL_BUFF - 1
        /\ Blocks' = 0 .. InitSize - 1
    BY <1>2 DEF Stack, Cached, Blocks
  <2>4. ASSUME NEW b \in Blocks'
        PROVE  \/ \E i \in Stack' : proot'[i].iheapIdx = b
               \/ \E k \in Cached' : buff'[k].iheapIdx = b
    <3>1. CASE b < InitSize - MM_POOL_BUFF BY <2>1, <2>3, <3>1
    <3>2. CASE b >= InitSize - MM_POOL_BUFF
      <4>1. InitSize - 1 - b \in Cached' /\ InitSize - 1 - (InitSize - 1 - b) = b
        BY <2>3, <3>2
      <4> QED BY <2>2, <2>3, <4>1
    <3> QED BY <2>3, <3>1, <3>2
  <2> QED BY <1>1, <2>1, <2>2, <2>3, <2>4 DEF Homes
<1>7. Accounted' /\ Balanced' BY <1>1, <1>2, FS_EmptySet DEF Accounted, Balanced
<1>8. HandedOut' BY <1>1 DEF HandedOut, Live, None
<1> QED BY <1>5, <1>6, <1>7, <1>8

\* Types after an allocation, given those of the arrays.
LEMMA HandleTypes ==
  ASSUME TypeOK, NEW c \in Objs, NEW k \in 0 .. MM_POOL_BUFF - 1,
         obj' = [obj EXCEPT ![c] = InBuff(k)],
         imemSize' \in Nat, imemSize <= imemSize', place' \in Nat, place <= place'
  PROVE  DOMAIN obj' = Objs /\ \A d \in Objs : IsHandle(obj[d])'
<1>1. \A h : IsHandle(h) => IsHandle(h)' BY ElementsGrow DEF TypeOK
<1>2. IsHandle(InBuff(k))' BY DEF IsHandle
<1>3. \A d \in Objs : obj'[d] = IF d = c THEN InBuff(k) ELSE obj[d] BY DEF TypeOK
<1>4. ASSUME NEW d \in Objs PROVE IsHandle(obj[d])'
  <2>1. PICK h : h = obj'[d] OBVIOUS
  <2>2. IsHandle(h)' BY <1>1, <1>2, <1>3, <2>1 DEF TypeOK
  <2> QED BY <2>1, <2>2 DEF IsHandle
<1> QED BY <1>4 DEF TypeOK

LEMMA BufferedStep ==
  ASSUME PoolInv, NEW c \in Objs, obj[c] = None, Settled, binitialized, MallocBuffered(c),
         UNCHANGED undefined
  PROVE  PoolInv'
<1> USE Sizes
<1>1. /\ buffMask \in 0 .. MM_POOL_BUFF - 1 /\ buffMask' = buffMask + 1
      /\ obj' = [obj EXCEPT ![c] = InBuff(buffMask)] /\ buffMask < buffMask'
      /\ UNCHANGED <<proot, pmemData, imemSize, imemFree, imemUsed, buff, binitialized, place>>
  BY DEF MallocBuffered, PoolInv, TypeOK
<1>2. /\ Live' = Live \cup {c} /\ c \notin Live /\ Elem(c)' = buff'[buffMask] /\ HandedOut'
      /\ Cardinality(Live') = Cardinality(Live) + 1
      /\ \A d \in Live : Elem(d)' = Elem(d)
  BY <1>1, Handed DEF PoolInv
<1>3. TypeOK'
  <2>1. DOMAIN obj' = Objs /\ \A d \in Objs : IsHandle(obj[d])'
    <3>1. /\ imemSize' \in Nat /\ imemSize <= imemSize' /\ place' \in Nat /\ place <= place'
          /\ TypeOK
      BY <1>1 DEF PoolInv, TypeOK
    <3> QED BY <1>1, <3>1, HandleTypes
  <2>2. Blocks' = Blocks /\ Elements' = Elements BY <1>1 DEF Blocks, Elements, Pointers
  <2>3. buffMask' \in 0 .. MM_POOL_BUFF BY <1>1
  <2> QED BY <1>1, <2>1, <2>2, <2>3 DEF PoolInv, TypeOK
<1>4. Homes'
  <2>1. /\ Stack' = Stack /\ Blocks' = Blocks /\ Cached' = Cached \ {buffMask}
        /\ buffMask \in Cached
    BY <1>1 DEF Stack, Blocks, Cached
  <2>2. Number(c)' = buff[buffMask].iheapIdx /\ \A d \in Live : Number(d)' = Number(d)
    BY <1>1, <1>2 DEF Number
  <2>3. \A d, e \in Live' : Number(d)' = Number(e)' => d = e
    BY <1>2, <2>1, <2>2 DEF PoolInv, Homes
  <2>4. \A i \in Stack' : \A d \in Live' : proot'[i].iheapIdx # Number(d)'
    BY <1>1, <1>2, <2>1, <2>2 DEF PoolInv, Homes
  <2>5. \A k \in Cached' : \A d \in Live' : buff'[k].iheapIdx # Number(d)'
    BY <1>1, <1>2, <2>1, <2>2 DEF PoolInv, Homes
  <2>6. ASSUME NEW b \in Blocks'
        PROVE  \/ \E i \in Stack' : proot'[i].iheapIdx = b
               \/ \E k \in Cached' : buff'[k].iheapIdx = b
               \/ \E d \in Live' : Number(d)' = b
    <3>1. \/ \E i \in Stack : proot[i].iheapIdx = b
          \/ \E k \in Cached : buff[k].iheapIdx = b
          \/ \E d \in Live : Number(d) = b
      BY <2>1 DEF PoolInv, Homes
    <3>2. CASE \E k \in Cached : buff[k].iheapIdx = b BY <1>1, <1>2, <2>1, <2>2, <3>2
    <3> QED BY <1>1, <1>2, <2>1, <2>2, <3>1, <3>2
  <2> QED BY <1>1, <2>1, <2>3, <2>4, <2>5, <2>6 DEF PoolInv, Homes
<1>5. Accounted' /\ Balanced'
  <2>1. Cardinality(Live) \in Nat BY LiveFinite
  <2>2. imemUsed = Cardinality(Live) + MM_POOL_BUFF - buffMask BY DEF PoolInv, Accounted
  <2> QED BY <1>1, <1>2, <2>1, <2>2 DEF PoolInv, Balanced, Accounted
<1> QED BY <1>2, <1>3, <1>4, <1>5 DEF PoolInv

\* What a refill does to the counters, whatever the array.
LEMMA RefillCounts ==
  ASSUME PoolInv, Settled, binitialized, binitialized', NEW c \in Objs, obj[c] = None,
         buffMask = MM_POOL_BUFF,
         NEW r, NEW g \in Nat, NEW at, Refill(c, r, g, at), imemSize' = imemSize + (g - imemFree)
  PROVE  Accounted' /\ Balanced'
<1> USE Sizes
<1>1. /\ imemFree' = g - MM_POOL_BUFF /\ imemUsed' = imemUsed + MM_POOL_BUFF
      /\ buffMask' = 1 /\ obj' = [obj EXCEPT ![c] = InBuff(0)]
  BY DEF Refill
<1>2. Cardinality(Live') = Cardinality(Live) + 1
  <2>1. 0 \in 0 .. MM_POOL_BUFF - 1 /\ 0 < buffMask' BY <1>1
  <2> QED BY <1>1, <2>1, Handed DEF PoolInv
<1>3. Cardinality(Live) \in Nat /\ imemUsed = Cardinality(Live) + MM_POOL_BUFF - buffMask
  BY LiveFinite DEF PoolInv, Accounted
<1>4. imemFree \in Nat /\ imemSize \in Nat /\ imemFree + imemUsed = imemSize /\ imemUsed \in Int
  BY DEF PoolInv, Balanced, TypeOK
<1>5. Accounted' BY <1>1, <1>2, <1>3 DEF Accounted
<1>6. imemFree' + imemUsed' = imemSize' /\ imemUsed' \in Int
  <2>1. (g - MM_POOL_BUFF) + (imemUsed + MM_POOL_BUFF) = imemSize + (g - imemFree) BY <1>4
  <2> QED BY <1>1, <1>4, <2>1
<1> QED BY <1>5, <1>6 DEF Balanced

LEMMA RefillStep ==
  ASSUME PoolInv, NEW c \in Objs, obj[c] = None, Settled, binitialized, MallocRefill(c),
         UNCHANGED undefined
  PROVE  PoolInv'
<1> USE Sizes
<1>1. /\ buffMask = MM_POOL_BUFF /\ imemFree >= MM_POOL_BUFF /\ imemFree \in Nat
      /\ Refill(c, proot', imemFree, place)
      /\ UNCHANGED <<proot, pmemData, imemSize, binitialized, place>>
  BY DEF MallocRefill, PoolInv, TypeOK
<1>2. /\ proot \in [Blocks -> Elements] /\ imemSize \in Nat /\ imemFree <= imemSize
      /\ \A i \in Stack : i \in Blocks
  BY DEF PoolInv, TypeOK, Stack, Blocks
<1>3. Cached = {} BY <1>1 DEF Cached
<1>4. Stacked(proot', imemFree, imemSize')
  <2>1. \A i \in Stack : proot[i].iheapIdx \in Blocks BY <1>2 DEF Elements
  <2> QED BY <1>1, <1>3, <2>1 DEF PoolInv, Homes, Stacked, Stack, Blocks
<1>5. Homes' /\ HandedOut' BY <1>1, <1>4, RefillHomes DEF PoolInv
<1>6. Accounted' /\ Balanced'
  <2>1. imemSize' = imemSize + (imemFree - imemFree) BY <1>1, <1>2
  <2> QED BY <1>1, <1>2, <2>1, RefillCounts
<1>7. TypeOK'
  <2>1. /\ obj' = [obj EXCEPT ![c] = InBuff(0)] /\ buffMask' = 1 /\ imemFree' = imemFree - MM_POOL_BUFF
        /\ buff' = [k \in 0 .. MM_POOL_BUFF - 1 |->
                      LET b == proot'[imemFree - 1 - k].iheapIdx IN Element(b, place, b)]
    BY <1>1 DEF Refill
  <2>2. 0 \in 0 .. MM_POOL_BUFF - 1 OBVIOUS
  <2>3. DOMAIN obj' = Objs /\ \A d \in Objs : IsHandle(obj[d])'
    <3>1. /\ imemSize' \in Nat /\ imemSize <= imemSize' /\ place' \in Nat /\ place <= place'
          /\ TypeOK
      BY <1>1 DEF PoolInv, TypeOK
    <3> QED BY <2>1, <2>2, <3>1, HandleTypes
  <2>4. buff' \in [0 .. MM_POOL_BUFF - 1 -> Elements]
    <3>1. \A k \in 0 .. MM_POOL_BUFF - 1 : imemFree - 1 - k \in Blocks BY <1>1, <1>2 DEF Blocks
    <3>2. \A b \in Blocks : Element(b, place, b) \in Elements
      BY DEF Element, Elements, Pointers, PoolInv, TypeOK
    <3>3. \A i \in Blocks : proot[i].iheapIdx \in Blocks BY <1>2 DEF Elements
    <3> QED BY <1>1, <2>1, <3>1, <3>2, <3>3
  <2>5. imemFree' \in 0 .. imemSize /\ buffMask' \in 0 .. MM_POOL_BUFF BY <1>1, <1>2, <2>1
  <2> QED BY <1>1, <2>1, <2>3, <2>4, <2>5 DEF PoolInv, TypeOK, Blocks, Elements, Pointers
<1> QED BY <1>5, <1>6, <1>7 DEF PoolInv

\* mm_pool_expand leaves the stack as it is and puts the new blocks on it.
LEMMA ExpandedStack ==
  ASSUME TypeOK, binitialized, imemFree < MM_POOL_BUFF,
         imemSize' = imemSize + MM_POOL_EXPAND, place' \in Nat, place <= place'
  PROVE  /\ Expanded \in [Blocks' -> Elements']
         /\ \A i \in Stack : Expanded[i].iheapIdx = proot[i].iheapIdx
         /\ \A i \in imemFree .. imemFree + MM_POOL_EXPAND - 1 :
              Expanded[i].iheapIdx = imemSize + i - imemFree
<1> DEFINE f == imemFree
           n == imemSize
           E == MM_POOL_EXPAND
           number(i) == IF i \in f .. f + E - 1 THEN n + i - f
                        ELSE IF i < n THEN proot[i].iheapIdx
                        ELSE proot[f + ((i - n) % (n - f))].iheapIdx
           root(i) == IF i < n THEN [proot[i] EXCEPT !.iheapIdx = number(i)]
                      ELSE Element(number(i), Wild, 0)
<1>1. Expanded = [i \in 0 .. n + E - 1 |-> root(i)] BY DEF Expanded
<1>2. f \in Nat /\ n \in Nat /\ f <= n /\ E \in Nat /\ E > 0 /\ f < E /\ place \in Nat
  BY Sizes DEF TypeOK
<1>3. proot \in [0 .. n - 1 -> Elements] /\ Blocks = 0 .. n - 1 BY DEF TypeOK, Blocks
<1>4. Blocks' = 0 .. n + E - 1
  <2>1. Blocks' = 0 .. imemSize' - 1 BY DEF Blocks
  <2> QED BY <1>2, <2>1
<1>5. \A i \in 0 .. n - 1 : proot[i].iheapIdx \in 0 .. n - 1 BY <1>3 DEF Elements
<1>6. \A e \in Elements, x \in Blocks' : [e EXCEPT !.iheapIdx = x] \in [iheapIdx : Blocks', privData : Pointers]
                                        /\ [e EXCEPT !.iheapIdx = x].iheapIdx = x
  BY DEF Elements
<1> HIDE DEF f, n, E
<1>7. ASSUME NEW i \in 0 .. n + E - 1 PROVE number(i) \in 0 .. n + E - 1
  <2>1. CASE i \in f .. f + E - 1 BY <1>2, <2>1
  <2>2. CASE i \notin f .. f + E - 1 /\ i < n BY <1>2, <1>5, <2>2
  <2>3. CASE i \notin f .. f + E - 1 /\ i >= n
    <3>1. n - f > 0 /\ n - f \in Nat /\ i - n \in Nat BY <1>2, <2>3
    <3>2. \A a, m \in Nat : m > 0 => a % m \in 0 .. m - 1 OBVIOUS
    <3>3. (i - n) % (n - f) \in 0 .. n - f - 1 BY <3>1, <3>2
    <3>4. f + ((i - n) % (n - f)) \in 0 .. n - 1 BY <1>2, <3>3
    <3>5. proot[f + ((i - n) % (n - f))].iheapIdx \in 0 .. n - 1 BY <1>5, <3>4
    <3>6. \A x \in 0 .. n - 1 : x \in 0 .. n + E - 1 BY <1>2
    <3>7. ~(i < n) BY <1>2, <2>3
    <3> QED BY <2>3, <3>5, <3>6, <3>7
  <2> QED BY <1>2, <2>1, <2>2, <2>3
<1> HIDE DEF number
<1>8. Pointers \subseteq Pointers' /\ [at |-> Wild, block |-> 0] \in Pointers'
  <2>1. Pointers' = [at : {Wild} \cup (0 .. place'), block : Blocks'] BY DEF Pointers
  <2>2. 0 \in Blocks' /\ Blocks \subseteq Blocks' BY <1>2, <1>3, <1>4
  <2>3. 0 .. place \subseteq 0 .. place' BY <1>2
  <2> QED BY <2>1, <2>2, <2>3 DEF Pointers
<1>9. ASSUME NEW i \in 0 .. n + E - 1 PROVE root(i) \in Elements' /\ root(i).iheapIdx = number(i)
  <2>1. Elements' = [iheapIdx : Blocks', privData : Pointers'] BY DEF Elements
  <2>2. CASE i < n
    <3>1. i \in 0 .. n - 1 BY <1>2, <2>2
    <3>2. proot[i] \in Elements BY <1>3, <3>1
    <3> QED BY <1>4, <1>6, <1>7, <1>8, <2>1, <2>2, <3>2
  <2>3. CASE ~(i < n) BY <1>4, <1>7, <1>8, <2>1, <2>3 DEF Element
  <2> QED BY <2>2, <2>3
<1> HIDE DEF root
<1>10. Expanded \in [Blocks' -> Elements'] BY <1>1, <1>4, <1>9
<1>11. \A i \in 0 .. n + E - 1 : Expanded[i].iheapIdx = number(i) BY <1>1, <1>9
<1>12. \A i \in 0 .. f - 1 : number(i) = proot[i].iheapIdx /\ i \in 0 .. n + E - 1
  BY <1>2 DEF number
<1>13. \A i \in f .. f + E - 1 : number(i) = n + i - f /\ i \in 0 .. n + E - 1
  BY <1>2 DEF number
<1> QED BY <1>10, <1>11, <1>12, <1>13 DEF Stack, f, n, E

LEMMA ExpandStep ==
  ASSUME PoolInv, NEW c \in Objs, obj[c] = None, Settled, binitialized, MallocExpand(c),
         UNCHANGED undefined
  PROVE  PoolInv'
<1> USE Sizes
<1> DEFINE g == imemFree + MM_POOL_EXPAND
           n == imemSize + MM_POOL_EXPAND
<1>1. /\ buffMask = MM_POOL_BUFF /\ imemFree < MM_POOL_BUFF
      /\ proot' = Expanded /\ imemSize' = n /\ binitialized'
      /\ Refill(c, proot', g, place') /\ place' \in {place, place + 1}
      /\ \E junk \in [imemSize .. n - 1 -> Values] :
           pmemData' = [b \in 0 .. n - 1 |-> IF b < imemSize THEN pmemData[b] ELSE junk[b]]
  <2>1. /\ buffMask = MM_POOL_BUFF /\ imemFree < MM_POOL_BUFF /\ proot' = Expanded
        /\ imemSize' = n /\ Refill(c, Expanded, g, place') /\ binitialized' = binitialized
    BY DEF MallocExpand
  <2>2. place' \in {place, place + 1} BY DEF MallocExpand
  <2>3. \E junk \in [imemSize .. n - 1 -> Values] :
           pmemData' = [b \in 0 .. n - 1 |-> IF b < imemSize THEN pmemData[b] ELSE junk[b]]
    <3>1. imemSize + MM_POOL_EXPAND - 1 = n - 1 BY DEF PoolInv, TypeOK
    <3>2. \E junk \in [imemSize .. imemSize + MM_POOL_EXPAND - 1 -> Values] :
            pmemData' = [b \in 0 .. imemSize + MM_POOL_EXPAND - 1 |->
                           IF b < imemSize THEN pmemData[b] ELSE junk[b]]
      BY DEF MallocExpand
    <3> HIDE DEF n
    <3> QED BY <3>1, <3>2
  <2>4. Refill(c, proot', g, place') BY <2>1
  <2> HIDE DEF g, n
  <2> QED BY <2>1, <2>2, <2>3, <2>4
<1>2. /\ imemFree \in Nat /\ imemSize \in Nat /\ imemFree <= imemSize /\ place \in Nat
      /\ place' \in Nat /\ place <= place'
  BY <1>1 DEF PoolInv, TypeOK
<1>3. g \in Nat /\ n \in Nat /\ g >= MM_POOL_BUFF /\ imemSize <= n /\ g <= n BY <1>2
<1>4. Cached = {} BY <1>1 DEF Cached
<1>5. /\ proot' \in [Blocks' -> Elements']
      /\ \A i \in Stack : proot'[i].iheapIdx = proot[i].iheapIdx
      /\ \A i \in imemFree .. g - 1 : proot'[i].iheapIdx = imemSize + i - imemFree
  BY <1>1, <1>2, ExpandedStack DEF PoolInv
<1>6. Blocks' = 0 .. n - 1 /\ Blocks = 0 .. imemSize - 1
  <2>1. Blocks' = 0 .. imemSize' - 1 /\ Blocks = 0 .. imemSize - 1 BY DEF Blocks
  <2> QED BY <1>1, <2>1
<1>7. Stacked(proot', g, n)
  <2>1. \A i \in Stack : i \in Blocks /\ i \in Nat /\ i < imemFree
    BY <1>2, <1>6 DEF Stack
  <2>2. \A i \in Stack : proot[i].iheapIdx \in 0 .. imemSize - 1
    BY <1>6, <2>1 DEF PoolInv, TypeOK, Elements
  <2>3. \A i \in 0 .. g - 1 : i \in Stack \/ i \in imemFree .. g - 1 BY <1>2 DEF Stack
  <2>4. \A d \in Live : Number(d) \in 0 .. imemSize - 1
    BY <1>6, HandleKinds DEF PoolInv, Number, Elements
  <2>5. \A i \in imemFree .. g - 1 : /\ proot'[i].iheapIdx = imemSize + i - imemFree
                                     /\ imemSize + i - imemFree \in imemSize .. n - 1
    BY <1>2, <1>5
  <2>6. \A x \in 0 .. imemSize - 1 : x \in 0 .. n - 1 /\ x \notin imemSize .. n - 1 BY <1>2
  <2>7. \A x \in imemSize .. n - 1 : x \in 0 .. n - 1 BY <1>2
  <2>8. ASSUME NEW i \in 0 .. g - 1, NEW j \in 0 .. g - 1, proot'[i].iheapIdx = proot'[j].iheapIdx
        PROVE  i = j
    <3>1. CASE i \in Stack /\ j \in Stack BY <1>5, <2>8, <3>1 DEF PoolInv, Homes
    <3>2. CASE i \in imemFree .. g - 1 /\ j \in imemFree .. g - 1
      <4>1. imemSize + i - imemFree = imemSize + j - imemFree BY <2>5, <2>8, <3>2
      <4> QED BY <1>2, <4>1
    <3>3. CASE i \in Stack /\ j \in imemFree .. g - 1 BY <1>5, <2>2, <2>5, <2>6, <2>8, <3>3
    <3>4. CASE i \in imemFree .. g - 1 /\ j \in Stack BY <1>5, <2>2, <2>5, <2>6, <2>8, <3>4
    <3> QED BY <2>3, <3>1, <3>2, <3>3, <3>4
  <2>9. ASSUME NEW i \in 0 .. g - 1, NEW d \in Live PROVE proot'[i].iheapIdx # Number(d)
    <3>1. CASE i \in Stack BY <1>5, <3>1 DEF PoolInv, Homes
    <3>2. CASE i \in imemFree .. g - 1 BY <2>4, <2>5, <2>6, <3>2
    <3> QED BY <2>3, <3>1, <3>2
  <2>10. ASSUME NEW b \in 0 .. n - 1
         PROVE  \/ \E i \in 0 .. g - 1 : proot'[i].iheapIdx = b
                \/ \E d \in Live : Number(d) = b
    <3>1. CASE b < imemSize
      <4>1. b \in Blocks BY <1>2, <1>6, <3>1
      <4>2. (\E i \in Stack : proot[i].iheapIdx = b) \/ (\E d \in Live : Number(d) = b)
        BY <1>4, <4>1 DEF PoolInv, Homes
      <4>3. \A i \in Stack : i \in 0 .. g - 1 BY <1>2 DEF Stack
      <4> QED BY <1>5, <4>2, <4>3
    <3>2. CASE b >= imemSize
      <4>1. imemFree + (b - imemSize) \in imemFree .. g - 1
            /\ imemFree + (b - imemSize) \in 0 .. g - 1
            /\ imemSize + (imemFree + (b - imemSize)) - imemFree = b
        BY <1>2, <3>2
      <4> QED BY <1>5, <4>1
    <3> QED BY <1>2, <3>1, <3>2
  <2>11. \A i \in 0 .. g - 1 : proot'[i].iheapIdx \in 0 .. n - 1
    BY <1>5, <2>2, <2>3, <2>5, <2>6, <2>7
  <2> HIDE DEF g, n
  <2> QED BY <2>8, <2>9, <2>10, <2>11 DEF PoolInv, Homes, Stacked
<1>8. Homes' /\ HandedOut'
  <2>1. Stacked(proot', g, imemSize') BY <1>1, <1>7
  <2> HIDE DEF g
  <2> QED BY <1>1, <1>3, <2>1, RefillHomes DEF PoolInv
<1>9. Accounted' /\ Balanced'
  <2>1. imemSize' = imemSize + (g - imemFree) BY <1>1, <1>2
  <2> HIDE DEF g
  <2> QED BY <1>1, <1>3, <2>1, RefillCounts
<1>10. TypeOK'
  <2>1. /\ obj' = [obj EXCEPT ![c] = InBuff(0)] /\ buffMask' = 1 /\ imemFree' = g - MM_POOL_BUFF
        /\ buff' = [k \in 0 .. MM_POOL_BUFF - 1 |->
                      LET b == proot'[g - 1 - k].iheapIdx IN Element(b, place', b)]
    BY <1>1 DEF Refill
  <2>2. 0 \in 0 .. MM_POOL_BUFF - 1 OBVIOUS
  <2>3. DOMAIN obj' = Objs /\ \A d \in Objs : IsHandle(obj[d])'
    <3>1. TypeOK /\ imemSize' \in Nat /\ imemSize <= imemSize' BY <1>1, <1>3 DEF PoolInv
    <3> QED BY <1>2, <2>1, <2>2, <3>1, HandleTypes
  <2>4. buff' \in [0 .. MM_POOL_BUFF - 1 -> Elements']
    <3>1. \A k \in 0 .. MM_POOL_BUFF - 1 : g - 1 - k \in 0 .. n - 1 BY <1>3
    <3>2. Elements' = [iheapIdx : Blocks', privData : [at : {Wild} \cup (0 .. place'), block : Blocks']]
      BY DEF Elements, Pointers
    <3>3. place' \in 0 .. place' BY <1>2
    <3>4. \A b \in Blocks' : Element(b, place', b) \in Elements' BY <3>2, <3>3 DEF Element
    <3>5. \A i \in 0 .. n - 1 : proot'[i].iheapIdx \in Blocks' BY <1>5, <1>6, <3>2
    <3> HIDE DEF g, n
    <3> QED BY <2>1, <3>1, <3>4, <3>5
  <2>5. imemFree' \in 0 .. imemSize' /\ buffMask' \in 0 .. MM_POOL_BUFF BY <1>1, <1>3, <2>1
  <2>6. pmemData' \in [Blocks' -> Values]
    <3>1. PICK junk \in [imemSize .. n - 1 -> Values] :
            pmemData' = [b \in 0 .. n - 1 |-> IF b < imemSize THEN pmemData[b] ELSE junk[b]]
      BY <1>1
    <3>2. \A b \in 0 .. n - 1 : IF b < imemSize THEN b \in 0 .. imemSize - 1
                                ELSE b \in imemSize .. n - 1
      BY <1>2
    <3>3. \A b \in 0 .. imemSize - 1 : pmemData[b] \in Values BY <1>6 DEF PoolInv, TypeOK
    <3>4. \A b \in imemSize .. n - 1 : junk[b] \in Values OBVIOUS
    <3> HIDE DEF n
    <3> QED BY <1>6, <3>1, <3>2, <3>3, <3>4
  <2>7. undefined' \in BOOLEAN /\ imemSize' \in Nat /\ binitialized' \in BOOLEAN
    BY <1>1, <1>3 DEF PoolInv, TypeOK, MallocExpand
  <2> HIDE DEF g, n
  <2> QED BY <1>1, <1>2, <1>5, <2>3, <2>4, <2>5, <2>6, <2>7 DEF TypeOK
<1> QED BY <1>8, <1>9, <1>10 DEF PoolInv

\* What an object stands for stays when nothing it points to changes.
LEMMA StoreStep ==
  ASSUME PoolInv, NEW c \in Objs, Store(c)
  PROVE  PoolInv'
<1>1. /\ UNCHANGED <<proot, imemSize, imemFree, imemUsed, buffMask, buff, binitialized, place,
                     undefined, obj>>
      /\ pmemData' = pmemData
         \/ \E b : \E v \in Values : pmemData' = [pmemData EXCEPT ![b] = v]
  BY DEF Store
<1>2. pmemData \in [Blocks -> Values] => pmemData' \in [Blocks -> Values] BY <1>1
<1>3. Live' = Live /\ Cached' = Cached /\ Stack' = Stack /\ Blocks' = Blocks
      /\ Elements' = Elements
  BY <1>1 DEF Live, Cached, Stack, Blocks, Elements, Pointers
<1>4. \A d : Elem(d)' = Elem(d) /\ Number(d)' = Number(d) BY <1>1 DEF Elem, Number
<1>5. \A d \in Objs : IsHandle(obj[d])' = IsHandle(obj[d]) BY <1>1, <1>3 DEF IsHandle
<1>6. TypeOK' BY <1>1, <1>2, <1>3, <1>5 DEF PoolInv, TypeOK
<1>7. Homes' BY <1>1, <1>3, <1>4 DEF PoolInv, Homes
<1> QED BY <1>1, <1>3, <1>6, <1>7 DEF PoolInv, Accounted, Balanced, HandedOut

LEMMA DupStep ==
  ASSUME PoolInv, NEW c \in Objs, Dup(c)
  PROVE  /\ PoolInv' /\ Live' = Live
         /\ \A d \in Live : Elem(d)' = Elem(d)
<1>1. /\ UNCHANGED pool /\ undefined' = undefined /\ obj[c].kind \in {"buff", "proot"}
      /\ obj' = [obj EXCEPT ![c] = Copy(Elem(c))]
  BY DEF Dup
<1>2. \A d \in Objs : obj'[d] = IF d = c THEN Copy(Elem(c)) ELSE obj[d]
  BY <1>1 DEF PoolInv, TypeOK
<1>3. Copy(Elem(c)) # None /\ Copy(Elem(c)).kind = "copy" /\ Copy(Elem(c)).elem = Elem(c)
  BY DEF Copy, None
<1>4. c \in Live BY <1>1 DEF Live, None
<1>5. Live' = Live BY <1>2, <1>3, <1>4 DEF Live
<1>6. Elem(c)' = Elem(c) BY <1>2, <1>3 DEF Elem
<1>7. \A d \in Objs : d # c => Elem(d)' = Elem(d) BY <1>1, <1>2 DEF Elem, pool
<1>8. \A d \in Live : Elem(d)' = Elem(d) BY <1>6, <1>7 DEF Live
<1>9. Elem(c) \in Elements BY <1>4, HandleKinds DEF PoolInv
<1>10. Cached' = Cached /\ Stack' = Stack /\ Blocks' = Blocks /\ Elements' = Elements
  BY <1>1 DEF pool, Cached, Stack, Blocks, Elements, Pointers
<1>11. ASSUME NEW d \in Objs PROVE IsHandle(obj[d])'
  <2>1. CASE d = c BY <1>2, <1>3, <1>9, <1>10, <2>1 DEF IsHandle
  <2>2. CASE d # c
    <3>1. IsHandle(obj[d]) /\ obj'[d] = obj[d] BY <1>2, <2>2 DEF PoolInv, TypeOK
    <3> QED BY <1>10, <3>1 DEF IsHandle
  <2> QED BY <2>1, <2>2
<1>12. TypeOK'
  <2>1. DOMAIN obj' = Objs BY <1>1 DEF PoolInv, TypeOK
  <2> QED BY <1>1, <1>5, <1>10, <1>11, <2>1 DEF PoolInv, TypeOK, pool
<1>13. Homes' BY <1>1, <1>5, <1>8, <1>10 DEF PoolInv, Homes, Number, pool
<1>14. HandedOut' BY <1>1, <1>2, <1>3 DEF PoolInv, HandedOut, pool
<1> QED BY <1>1, <1>5, <1>8, <1>12, <1>13, <1>14 DEF PoolInv, Accounted, Balanced, pool

LEMMA FreeStep ==
  ASSUME PoolInv, NEW c \in Objs, obj[c].kind = "copy", Free(c)
  PROVE  /\ PoolInv' /\ Live' = Live \ {c}
         /\ \A d \in Live' : Elem(d)' = Elem(d)
<1> USE Sizes
<1>1. c \in Live /\ binitialized /\ imemFree < imemSize BY DEF Free, Live
<1>2. Elem(c) \in Elements /\ imemFree \in Nat /\ imemSize \in Nat /\ imemUsed \in Int
  BY <1>1, HandleKinds DEF PoolInv, TypeOK, Balanced
<1>3. proot \in [Blocks -> Elements] /\ imemFree \in Blocks
  BY <1>1, <1>2 DEF PoolInv, TypeOK, Blocks
<1>4. /\ proot' = [proot EXCEPT ![imemFree].iheapIdx = Number(c)]
      /\ buff' = buff /\ imemFree' = imemFree + 1 /\ imemUsed' = imemUsed - 1
      /\ obj' = [obj EXCEPT ![c] = None]
      /\ UNCHANGED <<pmemData, imemSize, buffMask, binitialized, place, undefined>>
  BY DEF Free, Number
<1>5. \A d \in Objs : obj'[d] = IF d = c THEN None ELSE obj[d] BY <1>4 DEF PoolInv, TypeOK
<1>6. Live' = Live \ {c} /\ Cardinality(Live') = Cardinality(Live) - 1
  <2>1. Live' = Live \ {c} BY <1>5 DEF Live
  <2> QED BY <1>1, <2>1, LiveFinite, FS_RemoveElement
<1>7. \A d \in Live' : d \in Live /\ Elem(d)' = Elem(d) /\ Number(d)' = Number(d)
  <2> SUFFICES ASSUME NEW d \in Live'
               PROVE  d \in Live /\ Elem(d)' = Elem(d) /\ Number(d)' = Number(d)
    OBVIOUS
  <2>1. d \in Live /\ d # c /\ obj'[d] = obj[d] BY <1>5, <1>6 DEF Live
  <2>2. obj[d].kind \in {"buff", "copy"} BY <2>1, HandleKinds DEF PoolInv
  <2>3. Elem(d)' = Elem(d) BY <1>4, <2>1, <2>2 DEF Elem
  <2> QED BY <2>1, <2>3 DEF Number
<1>8. Blocks' = Blocks /\ Elements' = Elements /\ Cached' = Cached
  BY <1>4 DEF Blocks, Elements, Pointers, Cached
<1>9. \A i \in Blocks : proot'[i].iheapIdx = IF i = imemFree THEN Number(c) ELSE proot[i].iheapIdx
  BY <1>3, <1>4 DEF Elements
<1>10. proot' \in [Blocks -> Elements]
  <2>1. Number(c) \in Blocks BY <1>2 DEF Number, Elements
  <2>2. [proot[imemFree] EXCEPT !.iheapIdx = Number(c)] \in Elements BY <1>3, <2>1 DEF Elements
  <2> QED BY <1>3, <1>4, <2>2
<1>11. TypeOK'
  <2>1. ASSUME NEW d \in Objs PROVE IsHandle(obj[d])'
    <3>1. CASE d = c BY <1>5, <3>1 DEF IsHandle
    <3>2. CASE d # c
      <4>1. IsHandle(obj[d]) /\ obj'[d] = obj[d] BY <1>5, <3>2 DEF PoolInv, TypeOK
      <4> QED BY <1>8, <4>1 DEF IsHandle
    <3> QED BY <3>1, <3>2
  <2>2. DOMAIN obj' = Objs /\ imemFree' \in 0 .. imemSize'
    BY <1>1, <1>2, <1>4 DEF PoolInv, TypeOK
  <2> QED BY <1>1, <1>4, <1>8, <1>10, <2>1, <2>2 DEF PoolInv, TypeOK
<1>12. Homes'
  <2>1. \A i \in Stack' : i \in Blocks /\ (i = imemFree \/ i \in Stack)
    BY <1>1, <1>2, <1>4 DEF Stack, Blocks
  <2>2. imemFree \notin Stack /\ imemFree \in Stack' /\ \A i \in Stack : i \in Stack'
    BY <1>2, <1>4 DEF Stack
  <2>3. \A i \in Stack' : proot'[i].iheapIdx = IF i = imemFree THEN Number(c) ELSE proot[i].iheapIdx
    BY <1>9, <2>1
  <2>4. \A i, j \in Stack' : proot'[i].iheapIdx = proot'[j].iheapIdx => i = j
    BY <1>1, <2>1, <2>3 DEF PoolInv, Homes
  <2>5. \A i \in Stack' : \A k \in Cached' : proot'[i].iheapIdx # buff'[k].iheapIdx
    BY <1>1, <1>4, <1>8, <2>1, <2>3 DEF PoolInv, Homes
  <2>6. \A i \in Stack' : \A d \in Live' : proot'[i].iheapIdx # Number(d)'
    BY <1>1, <1>6, <1>7, <2>1, <2>3 DEF PoolInv, Homes
  <2>7. ASSUME NEW b \in Blocks'
        PROVE  \/ \E i \in Stack' : proot'[i].iheapIdx = b
               \/ \E k \in Cached' : buff'[k].iheapIdx = b
               \/ \E d \in Live' : Number(d)' = b
    <3>1. \/ \E i \in Stack : proot[i].iheapIdx = b
          \/ \E k \in Cached : buff[k].iheapIdx = b
          \/ \E d \in Live : Number(d) = b
      BY <1>1, <1>8 DEF PoolInv, Homes
    <3>2. CASE Number(c) = b BY <2>2, <2>3, <3>2
    <3>3. CASE \E d \in Live : Number(d) = b /\ d # c BY <1>6, <1>7, <3>3
    <3>4. CASE \E i \in Stack : proot[i].iheapIdx = b BY <2>2, <2>3, <3>4
    <3>5. CASE \E k \in Cached : buff[k].iheapIdx = b BY <1>4, <1>8, <3>5
    <3> QED BY <3>1, <3>2, <3>3, <3>4, <3>5
  <2>8. /\ \A k, l \in Cached' : buff'[k].iheapIdx = buff'[l].iheapIdx => k = l
        /\ \A d, e \in Live' : Number(d)' = Number(e)' => d = e
        /\ \A k \in Cached' : \A d \in Live' : buff'[k].iheapIdx # Number(d)'
    BY <1>1, <1>4, <1>6, <1>7, <1>8 DEF PoolInv, Homes
  <2> QED BY <2>4, <2>5, <2>6, <2>7, <2>8 DEF Homes
<1>13. Accounted' /\ Balanced'
  <2>1. Cardinality(Live) \in Nat BY LiveFinite
  <2>2. imemUsed = Cardinality(Live) + MM_POOL_BUFF - buffMask /\ imemFree + imemUsed = imemSize
    BY <1>1 DEF PoolInv, Accounted, Balanced
  <2>3. buffMask \in Int BY DEF PoolInv, TypeOK
  <2>4. imemUsed' = Cardinality(Live') + MM_POOL_BUFF - buffMask'
    BY <1>2, <1>4, <1>6, <2>1, <2>2, <2>3
  <2>5. imemFree' + imemUsed' = imemSize' /\ imemUsed' \in Int BY <1>2, <1>4, <2>2
  <2> QED BY <2>4, <2>5 DEF Accounted, Balanced
<1>14. HandedOut' BY <1>4, <1>5 DEF PoolInv, HandedOut, None
<1> QED BY <1>6, <1>7, <1>11, <1>12, <1>13, <1>14 DEF PoolInv

---------------------------------------------------------------------------
(* The theorems                                                            *)

LEMMA PoolInit == Init => PoolInv
<1> SUFFICES ASSUME Init PROVE PoolInv OBVIOUS
<1>1. Live = {} /\ \A c \in Objs : obj[c] = None BY DEF Init, Live
<1>2. ~binitialized BY DEF Init
<1>3. TypeOK
  <2>1. \A c \in Objs : IsHandle(obj[c]) BY <1>1 DEF IsHandle
  <2>2. DOMAIN obj = Objs /\ imemFree \in 0 .. imemSize /\ buffMask \in 0 .. MM_POOL_BUFF
    BY Sizes DEF Init
  <2> QED BY <1>1, <1>2, <2>1, <2>2, Sizes DEF Init, TypeOK
<1>4. HandedOut BY <1>1 DEF HandedOut, None
<1> QED BY <1>2, <1>3, <1>4 DEF PoolInv, Homes, Accounted, Balanced, Init

LEMMA PoolStep == PoolInv /\ [CarefulNext]_vars => PoolInv'
<1> SUFFICES ASSUME PoolInv, [CarefulNext]_vars PROVE PoolInv' OBVIOUS
<1>1. CASE InitPool BY <1>1, InitPoolStep
<1>2. ASSUME NEW c \in Objs, Settled, MallocFresh(c) PROVE PoolInv'
  BY <1>2, BufferedStep, RefillStep, ExpandStep DEF MallocFresh, Miss
<1>3. ASSUME NEW c \in Objs, Store(c) PROVE PoolInv' BY <1>3, StoreStep
<1>4. ASSUME NEW c \in Objs, Dup(c) PROVE PoolInv' BY <1>4, DupStep
<1>5. ASSUME NEW c \in Objs, obj[c].kind = "copy", Free(c) PROVE PoolInv' BY <1>5, FreeStep
<1>6. CASE UNCHANGED vars
  <2>1. UNCHANGED pool /\ UNCHANGED <<undefined, obj>> BY <1>6 DEF vars
  <2>2. Blocks' = Blocks /\ Elements' = Elements BY <2>1 DEF pool, Blocks, Elements, Pointers
  <2>3. Live' = Live /\ Stack' = Stack /\ Cached' = Cached BY <2>1 DEF pool, Live, Stack, Cached
  <2>4. \A d : Elem(d)' = Elem(d) /\ Number(d)' = Number(d) BY <2>1 DEF pool, Elem, Number
  <2>5. \A d : IsHandle(obj[d])' = IsHandle(obj[d]) BY <2>1, <2>2 DEF IsHandle
  <2>6. TypeOK' BY <2>1, <2>2, <2>3, <2>5 DEF PoolInv, TypeOK, pool
  <2>7. Homes' BY <2>1, <2>2, <2>3, <2>4 DEF PoolInv, Homes, pool
  <2> QED BY <2>1, <2>3, <2>6, <2>7 DEF PoolInv, Accounted, Balanced, HandedOut, pool
<1> QED BY <1>1, <1>2, <1>3, <1>4, <1>5, <1>6 DEF CarefulNext

(***************************************************************************)
(* The blocks, wherever realloc puts them: none is lost, none is handed    *)
(* out twice, the counters account for every object, and a release finds   *)
(* room on the stack (mm_pool_get_free_elem, mm_pool_expand,               *)
(* mm_pool_shit_down).                                                     *)
(***************************************************************************)
THEOREM BlocksConserved ==
  CarefulSpec => [](TypeOK /\ OneHome /\ Accounted /\ RoomToFree /\ HandedOut)
<1>1. PoolInv => TypeOK /\ OneHome /\ Accounted /\ RoomToFree /\ HandedOut
  BY HomesMean, RoomThere DEF PoolInv
<1> QED BY <1>1, PoolInit, PoolStep, PTL DEF CarefulSpec

\* A pointer is computed when the block is put into buff, from its number.
LEMMA AgreeInit == Init => PointersAgree
BY DEF Init, PointersAgree

LEMMA Place == PoolInv => place \in Nat
BY DEF PoolInv, TypeOK

\* What agreed still does where only the stack and the contents change.
LEMMA AgreeKept ==
  ASSUME PoolInv, PointersAgree, binitialized' = binitialized, place' = place,
         \A k \in Cached' : k \in Cached /\ buff'[k] = buff[k],
         Live' \subseteq Live, \A c \in Live' : Elem(c)' = Elem(c)
  PROVE  PointersAgree'
<1>1. ASSUME binitialized, NEW k \in Cached' PROVE Agree(buff'[k], place')
  BY <1>1 DEF PointersAgree
<1>2. ASSUME binitialized, NEW c \in Live' PROVE \E at \in 0 .. place' : Agree(Elem(c)', at)
  BY <1>2 DEF PointersAgree
<1> QED BY <1>1, <1>2 DEF PointersAgree, Agree

\* A refill computes the pointers into the array where it is now; those that
\* were handed out before keep the place they had.
LEMMA RefillAgrees ==
  ASSUME PoolInv, PointersAgree, Settled, binitialized, binitialized', NEW c \in Objs, obj[c] = None,
         NEW r, NEW g, Refill(c, r, g, place'), place' \in {place, place + 1}
  PROVE  PointersAgree'
<1> USE Sizes
<1>1. /\ \A k \in 0 .. MM_POOL_BUFF - 1 :
            buff'[k].privData = [at |-> place', block |-> buff'[k].iheapIdx]
      /\ buffMask' = 1 /\ obj' = [obj EXCEPT ![c] = InBuff(0)]
  BY DEF Refill, Element
<1>2. 0 \in 0 .. MM_POOL_BUFF - 1 /\ 0 < buffMask' BY <1>1
<1>3. /\ Live' = Live \cup {c} /\ Elem(c)' = buff'[0]
      /\ \A d \in Live : Elem(d)' = Elem(d)
  BY <1>1, <1>2, Handed DEF PoolInv
<1>4. \A k \in Cached' : k \in 0 .. MM_POOL_BUFF - 1 BY <1>1 DEF Cached
<1>5. \A k \in Cached' : Agree(buff'[k], place') BY <1>1, <1>4 DEF Agree
<1>6. place \in Nat /\ place' \in 0 .. place' /\ \A p \in 0 .. place : p \in 0 .. place'
  BY Place
<1>7. ASSUME NEW d \in Live' PROVE \E at \in 0 .. place' : Agree(Elem(d)', at)
  <2>1. CASE d \in Live
    <3>1. PICK at \in 0 .. place : Agree(Elem(d), at) BY <2>1 DEF PointersAgree
    <3> QED BY <1>3, <1>6, <2>1, <3>1
  <2>2. CASE d = c
    <3>1. Agree(buff'[0], place') BY <1>1, <1>2 DEF Agree
    <3> QED BY <1>3, <1>6, <2>2, <3>1
  <2> QED BY <1>3, <2>1, <2>2
<1> QED BY <1>5, <1>7 DEF PointersAgree, Agree

LEMMA AgreeStep ==
  ASSUME PoolInv, PointersAgree, [CarefulNext]_vars
  PROVE  PointersAgree'
<1> USE Sizes
<1>1. CASE InitPool
  <2>1. /\ buff' = [k \in 0 .. MM_POOL_BUFF - 1 |->
                      Element(InitSize - 1 - k, place, InitSize - 1 - k)]
        /\ buffMask' = 0 /\ UNCHANGED <<obj, place>> /\ ~binitialized
    BY <1>1 DEF InitPool
  <2>2. Live' = {} BY <2>1 DEF PoolInv, TypeOK, Live
  <2>3. Cached' = 0 .. MM_POOL_BUFF - 1 BY <2>1 DEF Cached
  <2> QED BY <2>1, <2>2, <2>3 DEF PointersAgree, Agree, Element
<1>2. ASSUME NEW c \in Objs, Settled, MallocFresh(c) PROVE PointersAgree'
  <2>1. obj[c] = None /\ binitialized BY <1>2 DEF MallocFresh
  <2>2. CASE MallocBuffered(c)
    <3>1. /\ buffMask \in 0 .. MM_POOL_BUFF - 1 /\ buffMask < buffMask'
          /\ obj' = [obj EXCEPT ![c] = InBuff(buffMask)] /\ buffMask' = buffMask + 1
          /\ UNCHANGED <<buff, binitialized, place>>
      BY <2>2 DEF MallocBuffered, PoolInv, TypeOK
    <3>2. /\ Live' = Live \cup {c} /\ Elem(c)' = buff'[buffMask]
          /\ \A d \in Live : Elem(d)' = Elem(d)
      BY <1>2, <2>1, <3>1, Handed DEF PoolInv
    <3>3. buffMask \in Cached /\ \A k \in Cached' : k \in Cached BY <3>1 DEF Cached
    <3>4. \A k \in Cached' : Agree(buff'[k], place')
      BY <2>1, <3>1, <3>3 DEF PointersAgree
    <3>5. place \in 0 .. place BY Place
    <3>6. \A d \in Live' : \E at \in 0 .. place : Agree(Elem(d)', at)
      BY <2>1, <3>1, <3>2, <3>3, <3>5 DEF PointersAgree
    <3> QED BY <3>1, <3>4, <3>6 DEF PointersAgree, Agree
  <2>3. CASE MallocRefill(c)
    <3>1. binitialized' /\ place' = place /\ Refill(c, proot, imemFree, place')
      BY <2>1, <2>3 DEF MallocRefill
    <3> QED BY <1>2, <2>1, <3>1, RefillAgrees
  <2>4. CASE MallocExpand(c)
    <3>1. /\ binitialized' /\ place' \in {place, place + 1}
          /\ Refill(c, Expanded, imemFree + MM_POOL_EXPAND, place')
      BY <2>1, <2>4 DEF MallocExpand
    <3> QED BY <1>2, <2>1, <3>1, RefillAgrees
  <2> QED BY <1>2, <2>2, <2>3, <2>4 DEF MallocFresh, Miss
<1>3. ASSUME NEW c \in Objs, Store(c) PROVE PointersAgree'
  <2>1. UNCHANGED <<proot, buff, buffMask, binitialized, place, obj>> BY <1>3 DEF Store
  <2>2. Cached' = Cached /\ Live' = Live /\ \A d \in Objs : Elem(d)' = Elem(d)
    BY <2>1 DEF Elem, Live, Cached
  <2> QED BY <2>1, <2>2, AgreeKept DEF Live
<1>4. ASSUME NEW c \in Objs, Dup(c) PROVE PointersAgree'
  <2>1. UNCHANGED <<buff, buffMask, binitialized, place>> BY <1>4 DEF Dup, pool
  <2>2. Cached' = Cached BY <2>1 DEF Cached
  <2> QED BY <1>4, <2>1, <2>2, DupStep, AgreeKept
<1>5. ASSUME NEW c \in Objs, obj[c].kind = "copy", Free(c) PROVE PointersAgree'
  <2>1. UNCHANGED <<buff, buffMask, binitialized, place>> BY <1>5 DEF Free
  <2>2. Cached' = Cached BY <2>1 DEF Cached
  <2> QED BY <1>5, <2>1, <2>2, FreeStep, AgreeKept
<1>6. CASE UNCHANGED vars
  <2>1. UNCHANGED <<proot, buff, buffMask, binitialized, place, obj>> BY <1>6 DEF vars, pool
  <2>2. Cached' = Cached /\ Live' = Live /\ \A d \in Objs : Elem(d)' = Elem(d)
    BY <2>1 DEF Elem, Live, Cached
  <2> QED BY <2>1, <2>2, AgreeKept DEF Live
<1> QED BY <1>1, <1>2, <1>3, <1>4, <1>5, <1>6 DEF CarefulNext

(***************************************************************************)
(* Every pointer names the block whose number is beside it, in the array   *)
(* as it was when the object was allocated: the program writes into the    *)
(* block it will release or, after realloc moved the blocks, into none     *)
(* (mm_pool_get_free, mm_pool_expand, cocol_dup).                          *)
(***************************************************************************)
THEOREM PoolIsSound == CarefulSpec => []Inv
<1>1. PoolInv /\ PointersAgree /\ [CarefulNext]_vars => PointersAgree' BY AgreeStep
<1>2. PoolInv /\ PointersAgree => Inv BY HomesMean, RoomThere DEF PoolInv, Inv
<1> QED BY <1>1, <1>2, PoolInit, PoolStep, AgreeInit, PTL DEF CarefulSpec

---------------------------------------------------------------------------
(* The refinement: an allocation creates, Store writes, Free deletes.      *)

\* The pointer of a live object names the block of its number.
LEMMA PointsHome ==
  ASSUME PointersAgree, binitialized, NEW c \in Live
  PROVE  Elem(c).privData.at \in 0 .. place /\ Elem(c).privData.block = Number(c)
<1>1. PICK at \in 0 .. place : Elem(c).privData = [at |-> at, block |-> Number(c)]
  BY DEF PointersAgree, Agree, Number
<1> HIDE DEF Number
<1> QED BY <1>1

\* It points into the array where that is now.
Valid(c) == Elem(c).privData.at = place

\* What the owner of a live object reads: the block of its number, or nothing.
LEMMA DataOf ==
  ASSUME PoolInv, PointersAgree, NEW c \in Live
  PROVE  /\ Number(c) \in Blocks
         /\ Data(c) = IF Valid(c) THEN pmemData[Number(c)] ELSE Lost
         /\ pmemData[Number(c)] \in Values /\ Data(c) # NoData
<1>1. binitialized /\ Elem(c) \in Elements BY HandleKinds DEF PoolInv
<1>2. Elem(c).privData.block = Number(c) BY <1>1, PointsHome
<1>3. Number(c) \in Blocks BY <1>1 DEF Number, Elements
<1>4. Data(c) = IF Valid(c) THEN pmemData[Number(c)] ELSE Lost BY <1>2 DEF Data, Live, Valid
<1>5. pmemData[Number(c)] \in Values BY <1>1, <1>3 DEF PoolInv, TypeOK
<1> QED BY <1>3, <1>4, <1>5, MmPoolAssumption

LEMMA DataHeld == PoolInv /\ PointersAgree => \A e \in Live : Valid(e) => Data(e) \in Values
BY DataOf

\* An allocation hands out an element of buff, with a pointer that is valid.
LEMMA FreshHandle ==
  ASSUME PoolInv, PointersAgree, Settled, NEW c \in Objs, MallocFresh(c)
  PROVE  /\ Live' = Live \cup {c} /\ c \notin Live
         /\ \A d \in Live : d # c /\ Elem(d)' = Elem(d)
         /\ Valid(c)'
<1> USE Sizes
<1>1. binitialized /\ obj[c] = None BY DEF MallocFresh
<1>2. binitialized' /\ \E k \in 0 .. MM_POOL_BUFF - 1 :
                          /\ k < buffMask' /\ obj' = [obj EXCEPT ![c] = InBuff(k)]
                          /\ buff'[k].privData.at = place'
  <2>1. CASE MallocBuffered(c)
    <3>1. /\ buffMask \in 0 .. MM_POOL_BUFF - 1 /\ buffMask < buffMask'
          /\ UNCHANGED <<buff, place, binitialized>> /\ obj' = [obj EXCEPT ![c] = InBuff(buffMask)]
      BY <2>1 DEF MallocBuffered, PoolInv, TypeOK
    <3>2. buffMask \in Cached BY <3>1 DEF Cached
    <3>3. buff[buffMask].privData = [at |-> place, block |-> buff[buffMask].iheapIdx]
      BY <1>1, <3>2 DEF PointersAgree, Agree
    <3>4. buff[buffMask].privData.at = place BY <3>3
    <3>5. buff' = buff /\ place' = place BY <3>1
    <3>6. buff'[buffMask].privData.at = place' BY <3>4, <3>5
    <3> QED BY <1>1, <3>1, <3>6
  <2>2. CASE MallocRefill(c) \/ MallocExpand(c)
    <3>1. \E r, g : binitialized' /\ Refill(c, r, g, place')
      <4>1. CASE MallocRefill(c)
        <5>1. binitialized' /\ place' = place /\ Refill(c, proot, imemFree, place)
          BY <1>1, <4>1 DEF MallocRefill
        <5> QED BY <5>1
      <4>2. CASE MallocExpand(c) BY <1>1, <4>2 DEF MallocExpand
      <4> QED BY <2>2, <4>1, <4>2
    <3>2. PICK r, g : binitialized' /\ Refill(c, r, g, place') BY <3>1
    <3>3. 0 \in 0 .. MM_POOL_BUFF - 1 /\ buffMask' = 1 /\ obj' = [obj EXCEPT ![c] = InBuff(0)]
          /\ buff'[0].privData.at = place'
      BY <3>2 DEF Refill, Element
    <3> QED BY <3>2, <3>3, 0 < 1
  <2> QED BY <2>1, <2>2 DEF MallocFresh, Miss
<1>3. PICK k \in 0 .. MM_POOL_BUFF - 1 : /\ k < buffMask' /\ obj' = [obj EXCEPT ![c] = InBuff(k)]
                                         /\ buff'[k].privData.at = place'
  BY <1>2
<1>4. /\ Live' = Live \cup {c} /\ c \notin Live /\ Elem(c)' = buff'[k]
      /\ \A d \in Live : d # c /\ Elem(d)' = Elem(d)
  BY <1>1, <1>2, <1>3, Handed DEF PoolInv
<1>5. Valid(c)' BY <1>3, <1>4 DEF Valid
<1> QED BY <1>4, <1>5

\* An allocation: the new object has some contents; the others keep theirs, or
\* all of them lose them.
LEMMA CreateRefines ==
  ASSUME PoolInv, PointersAgree, PoolInv', PointersAgree', Settled, NEW c \in Objs,
         MallocFresh(c)
  PROVE  Objects!Create(c) \/ Objects!CreateMoved(c)
<1> USE Sizes
<1>1. binitialized /\ obj[c] = None /\ place \in Nat BY Place DEF MallocFresh
<1>2. /\ Live' = Live \cup {c} /\ c \notin Live /\ Valid(c)'
      /\ \A d \in Live : d # c /\ Elem(d)' = Elem(d)
  BY FreshHandle
<1>3. \A b \in Blocks : pmemData'[b] = pmemData[b]
  <2>1. CASE UNCHANGED pmemData BY <2>1
  <2>2. CASE MallocExpand(c)
    <3>1. PICK junk : pmemData' = [b \in 0 .. imemSize + MM_POOL_EXPAND - 1 |->
                                     IF b < imemSize THEN pmemData[b] ELSE junk[b]]
      BY <2>2 DEF MallocExpand
    <3>2. imemSize \in Nat BY DEF PoolInv, TypeOK
    <3>3. \A b \in Blocks : b \in 0 .. imemSize + MM_POOL_EXPAND - 1 /\ b < imemSize
      BY <3>2 DEF Blocks
    <3> QED BY <3>1, <3>3
  <2> QED BY <2>1, <2>2 DEF MallocFresh, Miss, MallocBuffered, MallocRefill
<1>4. place' \in {place, place + 1}
  BY DEF MallocFresh, Miss, MallocBuffered, MallocRefill, MallocExpand
<1>5. ASSUME NEW d \in Live PROVE Data(d)' = IF place' = place THEN Data(d) ELSE Lost
  <2>1. Number(d) \in Blocks /\ Data(d) = IF Valid(d) THEN pmemData[Number(d)] ELSE Lost
    BY DataOf
  <2>2. Elem(d).privData.at \in 0 .. place /\ Elem(d).privData.block = Number(d)
    BY <1>1, PointsHome
  <2>3. d \in Live' /\ Elem(d)' = Elem(d) BY <1>2
  <2>4. Data(d)' = IF Elem(d).privData.at # place' THEN Lost ELSE pmemData'[Number(d)]
    BY <2>2, <2>3 DEF Data, Live
  <2>5. CASE place' = place BY <1>3, <2>1, <2>4, <2>5 DEF Valid
  <2>6. CASE place' = place + 1
    <3>1. Elem(d).privData.at # place' BY <1>1, <2>2, <2>6
    <3>2. place' # place BY <1>1, <2>6
    <3> QED BY <2>4, <3>1, <3>2
  <2> QED BY <1>4, <2>5, <2>6
<1>6. Data(c)' \in Values
  <2>1. (\A e \in Live : Valid(e) => Data(e) \in Values)'
    <3>1. (PoolInv /\ PointersAgree => \A e \in Live : Valid(e) => Data(e) \in Values)'
      BY DataHeld, PTL
    <3> QED BY <3>1
  <2> QED BY <1>2, <2>1
<1>7. Data(c) = NoData BY <1>1 DEF Data
<1>8. \A d \in Objs : d \notin Live /\ d # c => Data(d)' = NoData /\ Data(d) = NoData
  BY <1>2 DEF Data, Live
<1>9. CASE place' = place
  <2>1. \A d \in Objs : d # c => Data(d)' = Data(d) BY <1>5, <1>8, <1>9
  <2> QED BY <1>6, <1>7, <2>1 DEF Objects!Create
<1>10. CASE place' # place
  <2>1. ASSUME NEW d \in Objs, d # c
        PROVE  Data(d)' = IF Data(d) = NoData THEN NoData ELSE Lost
    <3>1. CASE d \in Live BY <1>5, <1>10, <3>1, DataOf
    <3>2. CASE d \notin Live BY <1>8, <2>1, <3>2
    <3> QED BY <3>1, <3>2
  <2> QED BY <1>6, <1>7, <2>1 DEF Objects!CreateMoved
<1> QED BY <1>9, <1>10

\* A write through a valid pointer; through another one nothing changes.
LEMMA WriteRefines ==
  ASSUME PoolInv, PointersAgree, NEW c \in Objs, Store(c)
  PROVE  Objects!Write(c) \/ \A d \in Objs : Data(d)' = Data(d)
<1>1. /\ c \in Live /\ binitialized
      /\ UNCHANGED <<proot, buff, buffMask, binitialized, place, obj>>
  BY DEF Store, Live
<1>2. Elem(c).privData.block = Number(c) BY <1>1, PointsHome
<1>3. \A d \in Objs : Elem(d)' = Elem(d) /\ obj'[d] = obj[d] BY <1>1 DEF Elem
<1>4. CASE UNCHANGED pmemData
  <2>1. \A d \in Objs : Data(d)' = Data(d) BY <1>1, <1>3, <1>4 DEF Data
  <2> QED BY <2>1
<1>5. CASE ~UNCHANGED pmemData
  <2>1. Valid(c) /\ \E v \in Values : pmemData' = [pmemData EXCEPT ![Number(c)] = v]
    BY <1>2, <1>5 DEF Store, Valid
  <2>2. PICK v \in Values : pmemData' = [pmemData EXCEPT ![Number(c)] = v] BY <2>1
  <2>3. pmemData \in [Blocks -> Values] BY <1>1 DEF PoolInv, TypeOK
  <2>4. ASSUME NEW d \in Objs PROVE Data(d)' = IF d = c THEN v ELSE Data(d)
    <3>1. CASE d \notin Live BY <1>1, <1>3, <3>1 DEF Data, Live
    <3>2. CASE d \in Live
      <4>1. Number(d) \in Blocks /\ Data(d) = IF Valid(d) THEN pmemData[Number(d)] ELSE Lost
        BY <3>2, DataOf
      <4>2. Elem(d).privData.block = Number(d) BY <1>1, <3>2, PointsHome
      <4>3. Data(d)' = IF Valid(d) THEN pmemData'[Number(d)] ELSE Lost
        BY <1>1, <1>3, <3>2, <4>2 DEF Data, Live, Valid
      <4>4. d # c => Number(d) # Number(c) BY <1>1, <3>2 DEF PoolInv, Homes
      <4>5. CASE d = c BY <2>1, <2>2, <2>3, <4>1, <4>3, <4>5
      <4>6. CASE d # c
        <5>1. pmemData'[Number(d)] = pmemData[Number(d)] BY <2>2, <2>3, <4>1, <4>4, <4>6
        <5> QED BY <4>1, <4>3, <4>6, <5>1
      <4> QED BY <4>5, <4>6
    <3> QED BY <3>1, <3>2
  <2>5. Data(c) \in Values BY <1>1, <2>1, DataHeld
  <2>6. [d \in Objs |-> Data(d)]' = [[d \in Objs |-> Data(d)] EXCEPT ![c] = v] BY <2>4
  <2> QED BY <2>5, <2>6 DEF Objects!Write
<1> QED BY <1>4, <1>5

LEMMA DeleteRefines ==
  ASSUME PoolInv, PointersAgree, NEW c \in Objs, obj[c].kind = "copy", Free(c)
  PROVE  Objects!Delete(c)
<1>1. c \in Live /\ pmemData' = pmemData /\ place' = place BY DEF Free, Live
<1>2. Live' = Live \ {c} /\ \A d \in Live' : Elem(d)' = Elem(d) BY FreeStep
<1>3. \A d \in Objs : d \notin Live' => Data(d)' = NoData BY DEF Data, Live
<1>4. \A d \in Objs : d \notin Live => Data(d) = NoData BY DEF Data, Live
<1>5. \A d \in Live' : Data(d)' = Data(d) BY <1>1, <1>2 DEF Data, Live
<1>6. \A d \in Objs : Data(d)' = IF d = c THEN NoData ELSE Data(d)
  BY <1>1, <1>2, <1>3, <1>4, <1>5
<1>7. Data(c) # NoData BY <1>1, DataOf
<1> QED BY <1>6, <1>7 DEF Objects!Delete

LEMMA StepRefines ==
  ASSUME PoolInv, PointersAgree, PoolInv', PointersAgree', [CarefulNext]_vars
  PROVE  [Objects!SNext]_([c \in Objs |-> Data(c)])
<1>1. CASE InitPool
  <2>1. Live = {} /\ Live' = {} BY <1>1 DEF InitPool, PoolInv, TypeOK, Live
  <2> QED BY <2>1 DEF Data, Live
<1>2. ASSUME NEW c \in Objs, Settled, MallocFresh(c) PROVE Objects!SNext
  BY <1>2, CreateRefines DEF Objects!SNext
<1>3. ASSUME NEW c \in Objs, Store(c)
      PROVE  Objects!SNext \/ \A d \in Objs : Data(d)' = Data(d)
  BY <1>3, WriteRefines DEF Objects!SNext
<1>4. ASSUME NEW c \in Objs, Dup(c) PROVE \A d \in Objs : Data(d)' = Data(d)
  <2>1. Live' = Live /\ \A d \in Live : Elem(d)' = Elem(d) BY <1>4, DupStep
  <2>2. pmemData' = pmemData /\ place' = place BY <1>4 DEF Dup, pool
  <2> QED BY <2>1, <2>2 DEF Data, Live
<1>5. ASSUME NEW c \in Objs, obj[c].kind = "copy", Free(c) PROVE Objects!SNext
  BY <1>5, DeleteRefines DEF Objects!SNext
<1>6. CASE UNCHANGED vars
  <2>1. \A d \in Objs : Data(d)' = Data(d) BY <1>6 DEF vars, pool, Data, Elem
  <2> QED BY <2>1
<1> QED BY <1>1, <1>2, <1>3, <1>4, <1>5, <1>6 DEF CarefulNext

(***************************************************************************)
(* The pool gives each owner private memory (include/co_obtype.h:47): what *)
(* one object does, no other object sees, for every number of objects and  *)
(* every size, but for an expansion at which realloc moves the blocks: it  *)
(* takes the data of all objects that are live, and nothing brings them    *)
(* into the memory of each other afterwards.                               *)
(***************************************************************************)
THEOREM MemoryIsPrivate == CarefulSpec => ImplementsStore
<1>1. Init => Objects!SInit BY DEF Init, Objects!SInit, Data
<1>2. PoolInv /\ PointersAgree /\ [CarefulNext]_vars => PointersAgree' BY AgreeStep
<1>3. /\ PoolInv /\ PointersAgree /\ PoolInv' /\ PointersAgree' /\ [CarefulNext]_vars
      => [Objects!SNext]_([c \in Objs |-> Data(c)])
  BY StepRefines
<1> QED BY <1>1, <1>2, <1>3, PoolInit, PoolStep, AgreeInit, PTL
        DEF CarefulSpec, ImplementsStore, Objects!SSpec
=============================================================================
