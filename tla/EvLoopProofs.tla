---------------------------- MODULE EvLoopProofs ----------------------------
(***************************************************************************)
(* Theorems about EvLoop, for every set of events, every number of         *)
(* priorities and every time: the queues, the heap and the list of an event*)
(* base agree with the flags of its events, the loop is woken for what     *)
(* another thread gives it, a deleted event stays deleted, and no callback *)
(* starts before a more important one.                                     *)
(***************************************************************************)
EXTENDS EvLoop, FiniteSetTheorems, WellFoundedInduction, TLAPS

\* A set of numbers has a least one: induction, for what follows.
LEMMA LeastOne ==
  ASSUME NEW S \in SUBSET Nat, NEW n \in S
  PROVE  \E m \in S : \A k \in S : m <= k
<1>1. S # {} /\ S \subseteq Nat OBVIOUS
<1>2. PICK m \in S : \A k \in S : ~(<<k, m>> \in OpToRel(<, Nat))
  BY <1>1, WFMin, NatLessThanWellFounded
<1>3. \A k \in S : ~(k < m) BY <1>2 DEF OpToRel
<1> QED BY <1>3

---------------------------------------------------------------------------
(* The heap                                                                *)

LEMMA Halves ==
  ASSUME NEW i \in Nat, i >= 2
  PROVE  /\ i \div 2 \in Nat /\ i \div 2 >= 1 /\ i \div 2 < i
         /\ i = 2 * (i \div 2) \/ i = 2 * (i \div 2) + 1
OBVIOUS

\* The recursive function of ShiftUp: later holes come from earlier ones.
Rises(f, n, h, t, e) ==
  f = [j \in 1 .. n |-> IF j > 1 /\ t[h[j \div 2]] > t[e]
                        THEN [f[j \div 2] EXCEPT ![j] = h[j \div 2]]
                        ELSE [h EXCEPT ![j] = e]]

LEMMA RiseExists == ASSUME NEW h, NEW t, NEW e, NEW N \in Nat PROVE \E f : Rises(f, N, h, t, e)
<1> DEFINE Bad == {n \in Nat : ~\E f : Rises(f, n, h, t, e)}
<1> SUFFICES ASSUME N \in Bad PROVE FALSE OBVIOUS
<1>1. PICK m \in Bad : \A k \in Bad : m <= k BY LeastOne
<1>2. m \in Nat /\ ~\E f : Rises(f, m, h, t, e) OBVIOUS
<1>3. CASE m = 0
  <2> DEFINE f == [j \in 1 .. 0 |-> h]
  <2>1. Rises(f, 0, h, t, e) BY DEF Rises
  <2> QED BY <1>2, <1>3, <2>1
<1>4. CASE m # 0
  <2>1. m - 1 \in Nat /\ m - 1 \notin Bad BY <1>1, <1>4
  <2>2. PICK g : Rises(g, m - 1, h, t, e) BY <2>1
  <2> DEFINE R(j, x) == IF j > 1 /\ t[h[j \div 2]] > t[e]
                        THEN [x EXCEPT ![j] = h[j \div 2]] ELSE [h EXCEPT ![j] = e]
  <2>3. \A j \in 1 .. m - 1 : g[j] = R(j, g[j \div 2]) BY <2>2 DEF Rises
  <2>4. PICK f : f = [j \in 1 .. m |-> IF j < m THEN g[j] ELSE R(m, g[m \div 2])] OBVIOUS
  <2>5. \A j \in 1 .. m : f[j] = R(j, f[j \div 2])
    <3> SUFFICES ASSUME NEW j \in 1 .. m PROVE f[j] = R(j, f[j \div 2]) OBVIOUS
    <3>1. CASE j = 1
      <4>1. f[1] = [h EXCEPT ![1] = e]
        <5>1. CASE m = 1 BY <2>4, <3>1, <5>1
        <5>2. CASE m # 1
          <6>1. 1 \in 1 .. m - 1 BY <1>4, <2>1, <5>2
          <6>2. f[1] = g[1] BY <2>1, <2>4, <3>1, <6>1
          <6>3. g[1] = R(1, g[1 \div 2])
            <7> HIDE DEF R
            <7> QED BY <2>3, <6>1
          <6>4. ~(1 > 1) OBVIOUS
          <6>5. g[1] = [h EXCEPT ![1] = e] BY <6>3, <6>4
          <6> QED BY <6>2, <6>5
        <5> QED BY <5>1, <5>2
      <4> QED BY <3>1, <4>1
    <3>2. CASE j # 1
      <4>1. j \div 2 \in 1 .. m - 1 BY <2>1, <3>2, Halves
      <4>2. f[j \div 2] = g[j \div 2] BY <2>1, <2>4, <4>1
      <4>3. f[j] = R(j, g[j \div 2])
        <5>1. CASE j = m BY <2>1, <2>4, <5>1
        <5>2. CASE j # m
          <6>1. j \in 1 .. m - 1 BY <2>1, <5>2
          <6> HIDE DEF R
          <6> QED BY <2>3, <2>4, <6>1
        <5> QED BY <5>1, <5>2
      <4> HIDE DEF R
      <4> QED BY <4>2, <4>3
    <3> QED BY <3>1, <3>2
  <2>6. f = [j \in 1 .. m |-> R(j, f[j \div 2])] BY <2>4, <2>5
  <2>7. Rises(f, m, h, t, e) BY <2>6 DEF Rises
  <2> QED BY <1>2, <2>7
<1> QED BY <1>3, <1>4

\* Entry k of f is replaced.
Put(f, k, x) == [f EXCEPT ![k] = x]

LEMMA PutIs ==
  ASSUME NEW f, NEW k, NEW x
  PROVE  Put(f, k, x) = [i \in DOMAIN f |-> IF i = k THEN x ELSE f[i]]
BY DEF Put

LEMMA PutTwice ==
  ASSUME NEW f, NEW j, NEW k, j # k, NEW x, NEW y
  PROVE  Put(Put(f, k, x), j, y) = Put(Put(f, j, y), k, x)
BY PutIs

LEMMA ShiftUpIs ==
  ASSUME NEW h \in Seq(Evs), NEW t, NEW e, NEW k \in 1 .. Len(h)
  PROVE  ShiftUp(h, t, k, e)
           = IF k > 1 /\ t[h[k \div 2]] > t[e]
             THEN Put(ShiftUp(h, t, k \div 2, e), k, h[k \div 2]) ELSE Put(h, k, e)
<1> DEFINE up == CHOOSE f : Rises(f, Len(h), h, t, e)
<1>1. Rises(up, Len(h), h, t, e) BY RiseExists
<1>2. \A j \in 1 .. Len(h) : ShiftUp(h, t, j, e) = up[j] BY DEF ShiftUp, Rises
<1> HIDE DEF up
<1>3. up[k] = IF k > 1 /\ t[h[k \div 2]] > t[e]
              THEN Put(up[k \div 2], k, h[k \div 2]) ELSE Put(h, k, e)
  BY <1>1 DEF Rises, Put
<1>4. k > 1 => k \div 2 \in 1 .. Len(h) BY Halves
<1> QED BY <1>2, <1>3, <1>4

\* What the hole at k leaves: the others are the elements of S, each once.
HoldsBut(h, k, S) ==
  /\ \A i, j \in DOMAIN h \ {k} : h[i] = h[j] => i = j
  /\ \A x \in Evs : x \in S <=> \E i \in DOMAIN h \ {k} : h[i] = x
Holds(h, S) == h \in Seq(Evs) /\ IsInjective(h) /\ Lists(h, S)

LEMMA MoveHole ==
  ASSUME NEW h \in Seq(Evs), NEW S, NEW k \in 1 .. Len(h), NEW j \in 1 .. Len(h), j # k,
         HoldsBut(h, k, S), NEW g, g = Put(h, k, h[j])
  PROVE  /\ g \in Seq(Evs) /\ Len(g) = Len(h) /\ g[k] = h[j] /\ HoldsBut(g, j, S)
         /\ \A i \in 1 .. Len(h) : i # k => g[i] = h[i]
<1>1. g \in Seq(Evs) /\ Len(g) = Len(h) /\ g[k] = h[j] BY DEF Put
<1>2. \A i \in 1 .. Len(h) : i # k => g[i] = h[i] BY DEF Put
<1>3. \A i, l \in DOMAIN g \ {j} : g[i] = g[l] => i = l
  BY <1>1, <1>2 DEF HoldsBut
<1>4. \A x \in Evs : x \in S <=> \E i \in DOMAIN g \ {j} : g[i] = x
  <2> SUFFICES ASSUME NEW x \in Evs
               PROVE  x \in S <=> \E i \in DOMAIN g \ {j} : g[i] = x
    OBVIOUS
  <2>1. ASSUME x \in S PROVE \E i \in DOMAIN g \ {j} : g[i] = x
    <3>1. PICK i \in DOMAIN h \ {k} : h[i] = x BY <2>1 DEF HoldsBut
    <3>2. CASE i = j BY <1>1, <3>1, <3>2
    <3>3. CASE i # j BY <1>1, <1>2, <3>1, <3>3
    <3> QED BY <3>2, <3>3
  <2>2. ASSUME NEW i \in DOMAIN g \ {j}, g[i] = x PROVE x \in S
    <3>1. CASE i = k BY <1>1, <2>2, <3>1 DEF HoldsBut
    <3>2. CASE i # k BY <1>1, <1>2, <2>2, <3>2 DEF HoldsBut
    <3> QED BY <3>1, <3>2
  <2> QED BY <2>1, <2>2
<1> QED BY <1>1, <1>2, <1>3, <1>4 DEF HoldsBut

LEMMA FillHole ==
  ASSUME NEW h \in Seq(Evs), NEW S, NEW k \in 1 .. Len(h), HoldsBut(h, k, S),
         NEW e \in Evs, e \notin S, NEW g, g = Put(h, k, e)
  PROVE  /\ Holds(g, S \cup {e}) /\ Len(g) = Len(h) /\ g[k] = e
         /\ \A i \in 1 .. Len(h) : i # k => g[i] = h[i]
<1>1. g \in Seq(Evs) /\ Len(g) = Len(h) /\ g[k] = e BY DEF Put
<1>2. \A i \in 1 .. Len(h) : i # k => g[i] = h[i] BY DEF Put
<1>3. \A i \in 1 .. Len(h) : i # k => g[i] # e BY <1>2 DEF HoldsBut
<1>4. IsInjective(g) BY <1>1, <1>2, <1>3 DEF HoldsBut, IsInjective
<1>5. Lists(g, S \cup {e})
  <2> SUFFICES ASSUME NEW x \in Evs
               PROVE  x \in S \cup {e} <=> \E i \in DOMAIN g : g[i] = x
    BY DEF Lists
  <2>1. CASE x = e BY <1>1, <2>1
  <2>2. CASE x # e
    <3>1. ASSUME x \in S PROVE \E i \in DOMAIN g : g[i] = x
      <4>1. PICK i \in DOMAIN h \ {k} : h[i] = x BY <3>1 DEF HoldsBut
      <4> QED BY <1>1, <1>2, <4>1
    <3>2. ASSUME NEW i \in DOMAIN g, g[i] = x PROVE x \in S
      BY <1>1, <1>2, <2>2, <3>2 DEF HoldsBut
    <3> QED BY <2>2, <3>1, <3>2
  <2> QED BY <2>1, <2>2
<1> QED BY <1>1, <1>2, <1>4, <1>5 DEF Holds

\* The holes of ShiftUp are above k: what is at k does not matter to them.
LEMMA ShiftUpAbove ==
  ASSUME NEW h \in Seq(Evs), NEW t, NEW e \in Evs, NEW k \in 1 .. Len(h), NEW x \in Evs,
         NEW g, g = Put(h, k, x), NEW N \in Nat, N \in 1 .. k - 1
  PROVE  ShiftUp(g, t, N, e) = Put(ShiftUp(h, t, N, e), k, x)
<1> DEFINE Bad == {j \in 1 .. k - 1 : ShiftUp(g, t, j, e) # Put(ShiftUp(h, t, j, e), k, x)}
<1> SUFFICES ASSUME N \in Bad PROVE FALSE OBVIOUS
<1>0. Bad \in SUBSET Nat OBVIOUS
<1>1. PICK j \in Bad : \A i \in Bad : j <= i BY <1>0, LeastOne
<1>2. j \in 1 .. k - 1 /\ ShiftUp(g, t, j, e) # Put(ShiftUp(h, t, j, e), k, x) OBVIOUS
<1>3. g \in Seq(Evs) /\ Len(g) = Len(h) /\ \A i \in 1 .. Len(h) : i # k => g[i] = h[i]
  BY DEF Put
<1>4. ShiftUp(g, t, j, e) = IF j > 1 /\ t[g[j \div 2]] > t[e]
                            THEN Put(ShiftUp(g, t, j \div 2, e), j, g[j \div 2])
                            ELSE Put(g, j, e)
  BY <1>2, <1>3, ShiftUpIs
<1>5. ShiftUp(h, t, j, e) = IF j > 1 /\ t[h[j \div 2]] > t[e]
                            THEN Put(ShiftUp(h, t, j \div 2, e), j, h[j \div 2])
                            ELSE Put(h, j, e)
  BY <1>2, ShiftUpIs
<1>6. Put(g, j, e) = Put(Put(h, j, e), k, x) BY <1>2, PutTwice
<1>7. CASE j > 1
  <2>1. j \div 2 \in 1 .. k - 1 /\ j \div 2 < j /\ j \div 2 \in 1 .. Len(h) /\ j \div 2 # k
    BY <1>2, <1>7, Halves
  <2>2. PICK y : y = h[j \div 2] OBVIOUS
  <2>3. g[j \div 2] = y BY <1>3, <2>1, <2>2
  <2>4. j \div 2 \notin Bad BY <1>0, <1>1, <2>1
  <2>5. ShiftUp(g, t, j \div 2, e) = Put(ShiftUp(h, t, j \div 2, e), k, x) BY <2>1, <2>4
  <2>6. Put(ShiftUp(g, t, j \div 2, e), j, y) = Put(Put(ShiftUp(h, t, j \div 2, e), j, y), k, x)
    BY <1>2, <2>5, PutTwice
  <2>7. CASE t[y] > t[e] BY <1>2, <1>4, <1>5, <1>7, <2>2, <2>3, <2>6, <2>7
  <2>8. CASE ~(t[y] > t[e]) BY <1>2, <1>4, <1>5, <1>6, <2>2, <2>3, <2>8
  <2> QED BY <2>7, <2>8
<1>8. CASE ~(j > 1) BY <1>2, <1>4, <1>5, <1>6, <1>8
<1> QED BY <1>7, <1>8

\* In order but for the hole at k, which e may take if it is not too late.
OrderBut(h, t, k) ==
  /\ \A i \in 2 .. Len(h) : i # k /\ i \div 2 # k => t[h[i \div 2]] <= t[h[i]]
  /\ \A i \in 2 .. Len(h) : i \div 2 = k /\ k > 1 => t[h[k \div 2]] <= t[h[i]]
BeforeBelow(h, t, k, e) == \A i \in 2 .. Len(h) : i \div 2 = k => t[e] <= t[h[i]]
AfterAbove(h, t, k, e) == k > 1 => t[h[k \div 2]] <= t[e]

LEMMA FillInOrder ==
  ASSUME NEW t \in [Evs -> Nat], NEW e \in Evs, NEW h \in Seq(Evs), NEW k \in 1 .. Len(h),
         OrderBut(h, t, k), BeforeBelow(h, t, k, e), AfterAbove(h, t, k, e)
  PROVE  IsHeap(Put(h, k, e), t)
<1> DEFINE g == Put(h, k, e)
<1>1. g \in Seq(Evs) /\ Len(g) = Len(h) /\ g[k] = e BY DEF Put
<1>2. \A i \in 1 .. Len(h) : i # k => g[i] = h[i] BY DEF Put
<1> HIDE DEF g
<1>3. ASSUME NEW i \in 2 .. Len(g) PROVE t[g[i \div 2]] <= t[g[i]]
  <2>1. i \in 2 .. Len(h) /\ i \in 1 .. Len(h) /\ i \div 2 \in 1 .. Len(h) /\ i \div 2 # i
    BY <1>1, <1>3, Halves
  <2>2. CASE i = k
    <3>1. g[i \div 2] = h[i \div 2] BY <1>2, <2>1, <2>2
    <3> QED BY <1>1, <2>1, <2>2, <3>1 DEF AfterAbove
  <2>3. CASE i \div 2 = k BY <1>1, <1>2, <2>1, <2>3 DEF BeforeBelow
  <2>4. CASE i # k /\ i \div 2 # k BY <1>2, <2>1, <2>4 DEF OrderBut
  <2> QED BY <2>2, <2>3, <2>4
<1>4. IsHeap(g, t) BY <1>3 DEF IsHeap
<1> QED BY <1>4 DEF g

\* The parent goes down into the hole.
LEMMA HoleUp ==
  ASSUME NEW t \in [Evs -> Nat], NEW e \in Evs, NEW h \in Seq(Evs), NEW k \in 1 .. Len(h),
         k > 1, t[h[k \div 2]] > t[e], OrderBut(h, t, k), BeforeBelow(h, t, k, e),
         NEW g, g = Put(h, k, h[k \div 2])
  PROVE  OrderBut(g, t, k \div 2) /\ BeforeBelow(g, t, k \div 2, e)
<1> DEFINE j == k \div 2
<1>0. j \in 1 .. Len(h) /\ j < k /\ j # k BY Halves
<1>1. g \in Seq(Evs) /\ Len(g) = Len(h) /\ g[k] = h[j] BY <1>0 DEF Put
<1>2. \A i \in 1 .. Len(h) : i # k => g[i] = h[i] BY DEF Put
<1>a. h[j] \in Evs /\ t[h[j]] \in Nat /\ t[e] \in Nat BY <1>0
<1>3. j > 1 => j \div 2 \in 1 .. Len(h) /\ j \div 2 < j /\ g[j \div 2] = h[j \div 2]
  BY <1>0, <1>2, Halves
<1>4. j > 1 => t[h[j \div 2]] <= t[h[j]]
  <2> HAVE j > 1
  <2>1. j \in 2 .. Len(h) /\ j # k /\ j \div 2 # k BY <1>0, <1>3
  <2> QED BY <2>1 DEF OrderBut
<1>5. ASSUME NEW i \in 2 .. Len(h)
      PROVE  /\ i # j /\ i \div 2 # j => t[g[i \div 2]] <= t[g[i]]
             /\ i \div 2 = j => t[h[j]] <= t[g[i]]
  <2>1. i \in 1 .. Len(h) /\ i \div 2 \in 1 .. Len(h) /\ i \div 2 # i BY Halves
  <2>2. t[h[i]] \in Nat /\ t[h[i \div 2]] \in Nat BY <2>1
  <2>3. CASE i = k BY SMTT(30), <1>1, <1>a, <2>1, <2>3
  <2>4. CASE i # k /\ i \div 2 = k
    <3>1. t[h[j]] <= t[h[i]] BY <2>4 DEF OrderBut
    <3>2. g[i] = h[i] /\ g[i \div 2] = h[j] BY <1>1, <1>2, <2>1, <2>4
    <3> QED BY <1>0, <2>4, <3>1, <3>2
  <2>5. CASE i # k /\ i \div 2 # k
    <3>1. t[h[i \div 2]] <= t[h[i]] BY <2>5 DEF OrderBut
    <3>2. g[i] = h[i] /\ g[i \div 2] = h[i \div 2] BY <1>2, <2>1, <2>5
    <3> QED BY <3>1, <3>2
  <2> QED BY <2>3, <2>4, <2>5
<1>6. ASSUME NEW i \in 2 .. Len(h), i \div 2 = j
      PROVE  t[e] <= t[g[i]] /\ (j > 1 => t[g[j \div 2]] <= t[g[i]])
  <2>1. t[h[j]] <= t[g[i]] BY <1>5, <1>6
  <2>2. g[i] \in Evs /\ t[g[i]] \in Nat BY <1>1
  <2>3. j > 1 => t[h[j \div 2]] \in Nat BY <1>3
  <2> QED BY <1>a, <1>3, <1>4, <2>1, <2>2, <2>3
<1> QED BY <1>1, <1>5, <1>6 DEF OrderBut, BeforeBelow

\* What ShiftUp and ShiftDown start with, and what they leave.
RisesFrom(h, t, k, e, S) ==
  k \in 1 .. Len(h) /\ HoldsBut(h, k, S) /\ OrderBut(h, t, k) /\ BeforeBelow(h, t, k, e)
SinksFrom(h, t, k, e, S) ==
  k \in 1 .. Len(h) /\ HoldsBut(h, k, S) /\ OrderBut(h, t, k) /\ AfterAbove(h, t, k, e)
Ordered(r, t, n, S) == Holds(r, S) /\ IsHeap(r, t) /\ Len(r) = n

LEMMA Filled ==
  ASSUME NEW t \in [Evs -> Nat], NEW e \in Evs, NEW S, e \notin S,
         NEW h \in Seq(Evs), NEW k \in 1 .. Len(h), HoldsBut(h, k, S),
         OrderBut(h, t, k), BeforeBelow(h, t, k, e), AfterAbove(h, t, k, e)
  PROVE  Ordered(Put(h, k, e), t, Len(h), S \cup {e})
<1>1. IsHeap(Put(h, k, e), t) BY FillInOrder
<1>2. PICK g : g = Put(h, k, e) OBVIOUS
<1>3. Holds(g, S \cup {e}) /\ Len(g) = Len(h) BY <1>2, FillHole
<1> QED BY <1>1, <1>2, <1>3 DEF Ordered

LEMMA ShiftUpStep ==
  ASSUME NEW t \in [Evs -> Nat], NEW e \in Evs, NEW S, e \notin S,
         NEW h \in Seq(Evs), NEW k \in Nat, RisesFrom(h, t, k, e, S),
         \A g \in Seq(Evs), i \in Nat :
           i < k /\ RisesFrom(g, t, i, e, S) => Ordered(ShiftUp(g, t, i, e), t, Len(g), S \cup {e})
  PROVE  Ordered(ShiftUp(h, t, k, e), t, Len(h), S \cup {e})
<1>1. /\ k \in 1 .. Len(h) /\ HoldsBut(h, k, S) /\ OrderBut(h, t, k)
      /\ BeforeBelow(h, t, k, e)
  BY DEF RisesFrom
<1>2. ShiftUp(h, t, k, e) = IF k > 1 /\ t[h[k \div 2]] > t[e]
                            THEN Put(ShiftUp(h, t, k \div 2, e), k, h[k \div 2])
                            ELSE Put(h, k, e)
  BY <1>1, ShiftUpIs
<1>3. CASE k > 1 /\ t[h[k \div 2]] > t[e]
  <2>1. PICK j : j = k \div 2 OBVIOUS
  <2>2. j \in 1 .. Len(h) /\ j < k /\ j \in 1 .. k - 1 /\ j \in Nat
    BY <1>1, <1>3, <2>1, Halves
  <2>3. PICK x \in Evs : x = h[j] BY <2>2
  <2>4. PICK f : f = Put(h, k, x) OBVIOUS
  <2>5. f \in Seq(Evs) /\ Len(f) = Len(h) /\ HoldsBut(f, j, S)
    BY <1>1, <2>2, <2>3, <2>4, MoveHole
  <2>6. OrderBut(f, t, j) /\ BeforeBelow(f, t, j, e)
    BY <1>1, <1>3, <2>1, <2>3, <2>4, HoleUp
  <2>7. RisesFrom(f, t, j, e, S) BY <2>2, <2>5, <2>6 DEF RisesFrom
  <2>8. Ordered(ShiftUp(f, t, j, e), t, Len(f), S \cup {e}) BY <2>2, <2>5, <2>7
  <2>9. ShiftUp(f, t, j, e) = Put(ShiftUp(h, t, j, e), k, x)
    BY <1>1, <2>2, <2>4, ShiftUpAbove
  <2>10. ShiftUp(h, t, k, e) = Put(ShiftUp(h, t, j, e), k, x) BY <1>2, <1>3, <2>1, <2>3
  <2> QED BY <2>5, <2>8, <2>9, <2>10
<1>4. CASE ~(k > 1 /\ t[h[k \div 2]] > t[e])
  <2>1. AfterAbove(h, t, k, e)
    <3> SUFFICES ASSUME k > 1 PROVE t[h[k \div 2]] <= t[e] BY DEF AfterAbove
    <3>1. PICK j : j = k \div 2 OBVIOUS
    <3>2. j \in 1 .. Len(h) BY <1>1, <3>1, Halves
    <3>3. h[j] \in Evs BY <3>2
    <3>4. t[h[j]] \in Nat /\ t[e] \in Nat BY <3>3
    <3>5. ~(t[h[j]] > t[e]) BY <1>4, <3>1
    <3> QED BY <3>1, <3>4, <3>5
  <2>2. Ordered(Put(h, k, e), t, Len(h), S \cup {e}) BY <1>1, <2>1, Filled
  <2> QED BY <1>2, <1>4, <2>2
<1> QED BY <1>3, <1>4

LEMMA ShiftUpOrders ==
  ASSUME NEW t \in [Evs -> Nat], NEW e \in Evs, NEW S, e \notin S,
         NEW h \in Seq(Evs), NEW k \in Nat, RisesFrom(h, t, k, e, S)
  PROVE  Ordered(ShiftUp(h, t, k, e), t, Len(h), S \cup {e})
<1> DEFINE Wrong(g, i) == RisesFrom(g, t, i, e, S)
                          /\ ~Ordered(ShiftUp(g, t, i, e), t, Len(g), S \cup {e})
           Bad == {i \in Nat : \E g \in Seq(Evs) : Wrong(g, i)}
<1> SUFFICES ASSUME Wrong(h, k) PROVE FALSE OBVIOUS
<1> HIDE DEF Wrong
<1>1. k \in Bad OBVIOUS
<1>2. PICK i \in Bad : \A l \in Bad : i <= l BY <1>1, LeastOne
<1>3. i \in Nat /\ \E g \in Seq(Evs) : Wrong(g, i) OBVIOUS
<1>4. PICK g \in Seq(Evs) : Wrong(g, i) BY <1>3
<1>5. \A f \in Seq(Evs), l \in Nat : l < i => ~Wrong(f, l) BY <1>2, <1>3
<1>6. \A f \in Seq(Evs), l \in Nat :
        l < i /\ RisesFrom(f, t, l, e, S) => Ordered(ShiftUp(f, t, l, e), t, Len(f), S \cup {e})
  BY <1>5 DEF Wrong
<1>7. RisesFrom(g, t, i, e, S) BY <1>4 DEF Wrong
<1>8. Ordered(ShiftUp(g, t, i, e), t, Len(g), S \cup {e}) BY <1>3, <1>6, <1>7, ShiftUpStep
<1> QED BY <1>4, <1>8 DEF Wrong

\* The same for ShiftDown, whose later holes are below the earlier ones.
Sinks(f, m, n, h, t, e) ==
  f = [j \in m .. n |-> IF 2 * j <= n /\ t[e] > t[h[MinChild(h, t, j)]]
                        THEN [f[MinChild(h, t, j)] EXCEPT ![j] = h[MinChild(h, t, j)]]
                        ELSE [h EXCEPT ![j] = e]]

LEMMA Child ==
  ASSUME NEW h \in Seq(Evs), NEW t, NEW j \in Nat, j >= 1, 2 * j <= Len(h)
  PROVE  /\ MinChild(h, t, j) \in j + 1 .. Len(h) /\ MinChild(h, t, j) \div 2 = j
         /\ MinChild(h, t, j) # j
<1>1. PICK n \in Nat : n = Len(h) OBVIOUS
<1>2. PICK c : c = MinChild(h, t, j) OBVIOUS
<1>3. c = 2 * j \/ (2 * j # n /\ c = 2 * j + 1) BY <1>1, <1>2 DEF MinChild
<1>4. c \in Nat /\ c > j /\ c <= n BY <1>1, <1>3
<1>5. c \div 2 = j BY <1>3
<1> QED BY <1>1, <1>2, <1>4, <1>5

LEMMA MinChildFirst ==
  ASSUME NEW t \in [Evs -> Nat], NEW h \in Seq(Evs), NEW k \in 1 .. Len(h),
         2 * k <= Len(h), NEW i \in 2 .. Len(h), i \div 2 = k
  PROVE  t[h[MinChild(h, t, k)]] <= t[h[i]]
<1>1. i = 2 * k \/ i = 2 * k + 1 BY Halves
<1>2. PICK l : l = 2 * k OBVIOUS
<1>3. l \in 1 .. Len(h) /\ (l # Len(h) => l + 1 \in 1 .. Len(h)) BY <1>2
<1>4. PICK x : x = t[h[l]] OBVIOUS
<1>5. x \in Nat BY <1>3, <1>4
<1>6. CASE l = Len(h)
  <2>1. MinChild(h, t, k) = l BY <1>2, <1>6 DEF MinChild
  <2>2. i = l BY <1>1, <1>2, <1>6
  <2> QED BY <1>4, <1>5, <2>1, <2>2
<1>7. CASE l # Len(h)
  <2>1. PICK y : y = t[h[l + 1]] OBVIOUS
  <2>2. y \in Nat BY <1>3, <1>7, <2>1
  <2>3. MinChild(h, t, k) = IF y > x THEN l ELSE l + 1
    BY <1>2, <1>4, <1>7, <2>1 DEF MinChild
  <2>4. t[h[MinChild(h, t, k)]] = IF y > x THEN x ELSE y BY <1>4, <2>1, <2>3
  <2>5. t[h[i]] = x \/ t[h[i]] = y BY <1>1, <1>2, <1>4, <2>1
  <2> QED BY <1>5, <2>2, <2>4, <2>5
<1> QED BY <1>6, <1>7

LEMMA SinkExists ==
  ASSUME NEW h \in Seq(Evs), NEW t, NEW e, NEW N \in Nat, N <= Len(h)
  PROVE  \E f : Sinks(f, Len(h) + 1 - N, Len(h), h, t, e)
<1> DEFINE n == Len(h)
           Bad == {m \in Nat : m <= n /\ ~\E f : Sinks(f, n + 1 - m, n, h, t, e)}
<1> SUFFICES ASSUME N \in Bad PROVE FALSE OBVIOUS
<1>0. n \in Nat OBVIOUS
<1>1. PICK m \in Bad : \A k \in Bad : m <= k BY LeastOne
<1>2. m \in Nat /\ m <= n /\ ~\E f : Sinks(f, n + 1 - m, n, h, t, e) OBVIOUS
<1> HIDE DEF n
<1>3. CASE m = 0
  <2> DEFINE f == [j \in n + 1 .. n |-> h]
  <2>1. Sinks(f, n + 1, n, h, t, e) BY <1>0 DEF Sinks
  <2> QED BY <1>0, <1>2, <1>3, <2>1
<1>4. CASE m # 0
  <2>1. m - 1 \in Nat /\ m - 1 <= n /\ m - 1 < m BY <1>0, <1>2, <1>4
  <2>a. m - 1 \notin Bad
    <3> HIDE DEF Bad
    <3> QED BY <1>1, <1>2, <2>1
  <2>2. PICK g : Sinks(g, n + 1 - (m - 1), n, h, t, e) BY <2>1, <2>a
  <2> DEFINE k == n + 1 - m
             R(j, x) == IF 2 * j <= n /\ t[e] > t[h[MinChild(h, t, j)]]
                        THEN [x EXCEPT ![j] = h[MinChild(h, t, j)]] ELSE [h EXCEPT ![j] = e]
  <2>0. k \in 1 .. n /\ k + 1 = n + 1 - (m - 1) BY <1>0, <1>2, <1>4
  <2> HIDE DEF k
  <2>3. g = [j \in k + 1 .. n |-> R(j, g[MinChild(h, t, j)])] BY <2>0, <2>2 DEF Sinks
  <2> HIDE DEF R
  <2>4. PICK f : f = [j \in k .. n |-> IF j > k THEN g[j] ELSE R(k, g[MinChild(h, t, k)])]
    OBVIOUS
  <2>5. \A j \in k .. n : f[j] = R(j, f[MinChild(h, t, j)])
    <3> SUFFICES ASSUME NEW j \in k .. n PROVE f[j] = R(j, f[MinChild(h, t, j)]) OBVIOUS
    <3>0. j \in Nat /\ j >= 1 /\ k \in Nat BY <1>0, <2>0
    <3>1. f[j] = R(j, g[MinChild(h, t, j)])
      <4>1. CASE j = k BY <1>0, <2>0, <2>4, <4>1
      <4>2. CASE j # k
        <5>1. j \in k + 1 .. n BY <1>0, <2>0, <4>2
        <5>2. f[j] = g[j] BY <1>0, <2>0, <2>4, <5>1
        <5> QED BY <2>3, <5>1, <5>2
      <4> QED BY <4>1, <4>2
    <3>2. CASE 2 * j <= n
      <4>1. MinChild(h, t, j) \in j + 1 .. n BY <3>0, <3>2, Child DEF n
      <4>2. PICK c : c = MinChild(h, t, j) OBVIOUS
      <4>3. c \in k .. n /\ c > k BY <1>0, <2>0, <4>1, <4>2
      <4>4. f[c] = g[c] BY <2>4, <4>3
      <4> QED BY <3>1, <4>2, <4>4
    <3>3. CASE ~(2 * j <= n) BY <3>1, <3>3 DEF R
    <3> QED BY <3>2, <3>3
  <2>6. f = [j \in k .. n |-> R(j, f[MinChild(h, t, j)])] BY <2>4, <2>5
  <2>7. Sinks(f, k, n, h, t, e) BY <2>6 DEF Sinks, R
  <2> QED BY <1>2, <2>7 DEF k
<1> QED BY <1>3, <1>4

LEMMA ShiftDownIs ==
  ASSUME NEW h \in Seq(Evs), NEW t, NEW e, NEW k \in 1 .. Len(h)
  PROVE  ShiftDown(h, t, k, e)
           = IF 2 * k <= Len(h) /\ t[e] > t[h[MinChild(h, t, k)]]
             THEN Put(ShiftDown(h, t, MinChild(h, t, k), e), k, h[MinChild(h, t, k)])
             ELSE Put(h, k, e)
<1> DEFINE down == CHOOSE f : Sinks(f, 1, Len(h), h, t, e)
<1>0. PICK n \in Nat : n = Len(h) /\ n <= Len(h) /\ Len(h) + 1 - n = 1 OBVIOUS
<1>1. Sinks(down, 1, Len(h), h, t, e)
  <2>1. \E f : Sinks(f, Len(h) + 1 - n, Len(h), h, t, e) BY <1>0, SinkExists
  <2> QED BY <1>0, <2>1
<1>2. \A j \in 1 .. Len(h) : ShiftDown(h, t, j, e) = down[j] BY DEF ShiftDown, Sinks
<1> HIDE DEF down
<1>3. down[k] = IF 2 * k <= Len(h) /\ t[e] > t[h[MinChild(h, t, k)]]
                THEN Put(down[MinChild(h, t, k)], k, h[MinChild(h, t, k)]) ELSE Put(h, k, e)
  BY <1>1 DEF Sinks, Put
<1>4. 2 * k <= Len(h) => MinChild(h, t, k) \in 1 .. Len(h) BY Child
<1> QED BY <1>2, <1>3, <1>4

\* The holes of ShiftDown are below k: what is at k does not matter to them.
LEMMA ShiftDownBelow ==
  ASSUME NEW h \in Seq(Evs), NEW t, NEW e \in Evs, NEW k \in 1 .. Len(h), NEW x \in Evs,
         NEW g, g = Put(h, k, x), NEW i \in k + 1 .. Len(h)
  PROVE  ShiftDown(g, t, i, e) = Put(ShiftDown(h, t, i, e), k, x)
<1> DEFINE n == Len(h)
           Bad == {d \in Nat : \E j \in k + 1 .. n :
                     d = n - j /\ ShiftDown(g, t, j, e) # Put(ShiftDown(h, t, j, e), k, x)}
<1> SUFFICES ASSUME ShiftDown(g, t, i, e) # Put(ShiftDown(h, t, i, e), k, x) PROVE FALSE
  OBVIOUS
<1>0. n - i \in Bad OBVIOUS
<1>1. PICK d \in Bad : \A c \in Bad : d <= c BY <1>0, LeastOne
<1>2. PICK j \in k + 1 .. n :
        d = n - j /\ ShiftDown(g, t, j, e) # Put(ShiftDown(h, t, j, e), k, x)
  OBVIOUS
<1>3. g \in Seq(Evs) /\ Len(g) = n /\ \A l \in 1 .. n : l # k => g[l] = h[l] BY DEF Put
<1>4. j \in 1 .. n /\ j \in Nat /\ j >= 1 /\ j # k BY <1>2
<1>5. ShiftDown(g, t, j, e) = IF 2 * j <= n /\ t[e] > t[g[MinChild(g, t, j)]]
                              THEN Put(ShiftDown(g, t, MinChild(g, t, j), e), j,
                                       g[MinChild(g, t, j)])
                              ELSE Put(g, j, e)
  BY <1>3, <1>4, ShiftDownIs
<1>6. ShiftDown(h, t, j, e) = IF 2 * j <= n /\ t[e] > t[h[MinChild(h, t, j)]]
                              THEN Put(ShiftDown(h, t, MinChild(h, t, j), e), j,
                                       h[MinChild(h, t, j)])
                              ELSE Put(h, j, e)
  BY <1>4, ShiftDownIs
<1>7. Put(g, j, e) = Put(Put(h, j, e), k, x) BY <1>4, PutTwice
<1>8. CASE 2 * j <= n
  <2>1. PICK c : c = MinChild(h, t, j) OBVIOUS
  <2>2. c \in k + 1 .. n /\ c \in 1 .. n /\ c > j /\ c # k BY <1>2, <1>4, <1>8, <2>1, Child
  <2>3. MinChild(g, t, j) = c
    <3>1. 2 * j \in 1 .. n /\ 2 * j # k /\ g[2 * j] = h[2 * j] BY <1>2, <1>3, <1>4, <1>8
    <3>2. 2 * j # n => g[2 * j + 1] = h[2 * j + 1] BY <1>2, <1>3, <1>4, <1>8
    <3> QED BY <1>3, <2>1, <3>1, <3>2 DEF MinChild
  <2>4. PICK y : y = h[c] OBVIOUS
  <2>5. g[c] = y BY <1>3, <2>2, <2>4
  <2>6. ShiftDown(g, t, c, e) = Put(ShiftDown(h, t, c, e), k, x)
    <3>1. n - c \in Nat /\ n - c < d /\ d \in Nat BY <1>2, <2>2
    <3>2. n - c \notin Bad
      <4> HIDE DEF Bad
      <4> QED BY <1>1, <3>1
    <3> QED BY <2>2, <3>1, <3>2
  <2>7. Put(ShiftDown(g, t, c, e), j, y) = Put(Put(ShiftDown(h, t, c, e), j, y), k, x)
    BY <1>4, <2>6, PutTwice
  <2>8. CASE t[e] > t[y]
    <3>1. ShiftDown(g, t, j, e) = Put(ShiftDown(g, t, c, e), j, y)
      BY <1>5, <1>8, <2>3, <2>5, <2>8
    <3>2. ShiftDown(h, t, j, e) = Put(ShiftDown(h, t, c, e), j, y)
      BY <1>6, <1>8, <2>1, <2>4, <2>8
    <3> QED BY <1>2, <2>7, <3>1, <3>2
  <2>9. CASE ~(t[e] > t[y])
    <3>1. ShiftDown(g, t, j, e) = Put(g, j, e) BY <1>5, <2>3, <2>5, <2>9
    <3>2. ShiftDown(h, t, j, e) = Put(h, j, e) BY <1>6, <2>1, <2>4, <2>9
    <3> QED BY <1>2, <1>7, <3>1, <3>2
  <2> QED BY <2>8, <2>9
<1>9. CASE ~(2 * j <= n)
  <2>1. ShiftDown(g, t, j, e) = Put(g, j, e) BY <1>5, <1>9
  <2>2. ShiftDown(h, t, j, e) = Put(h, j, e) BY <1>6, <1>9
  <2> QED BY <1>2, <1>7, <2>1, <2>2
<1> QED BY <1>8, <1>9

\* The earlier child goes up into the hole.
LEMMA HoleDown ==
  ASSUME NEW t \in [Evs -> Nat], NEW e \in Evs, NEW h \in Seq(Evs), NEW k \in 1 .. Len(h),
         2 * k <= Len(h), NEW c, c = MinChild(h, t, k), t[e] > t[h[c]],
         OrderBut(h, t, k), AfterAbove(h, t, k, e), NEW g, g = Put(h, k, h[c])
  PROVE  OrderBut(g, t, c) /\ AfterAbove(g, t, c, e)
<1>0. c \in 1 .. Len(h) /\ c > k /\ c \div 2 = k /\ c > 1 BY Child
<1>1. g \in Seq(Evs) /\ Len(g) = Len(h) /\ g[k] = h[c] BY SMTT(30), <1>0 DEF Put
<1>2. \A i \in 1 .. Len(h) : i # k => g[i] = h[i] BY DEF Put
<1>3. h[c] \in Evs /\ t[h[c]] \in Nat /\ t[e] \in Nat BY <1>0
<1>4. AfterAbove(g, t, c, e) BY SMTT(30), <1>0, <1>1, <1>3 DEF AfterAbove
<1>5. \A i \in 2 .. Len(h) : i \div 2 = k => t[h[c]] <= t[h[i]] BY MinChildFirst
<1>6. ASSUME NEW i \in 2 .. Len(h), i # c, i \div 2 # c PROVE t[g[i \div 2]] <= t[g[i]]
  <2>1. i \in 1 .. Len(h) /\ i \div 2 \in 1 .. Len(h) /\ i \div 2 # i BY Halves
  <2>2. CASE i = k
    <3>1. k > 1 /\ t[h[k \div 2]] <= t[h[c]] BY <1>0, <2>2 DEF OrderBut
    <3>2. g[i] = h[c] /\ g[i \div 2] = h[k \div 2] BY <1>1, <1>2, <2>1, <2>2
    <3> QED BY <3>1, <3>2
  <2>3. CASE i # k /\ i \div 2 = k BY <1>1, <1>2, <1>5, <2>1, <2>3
  <2>4. CASE i # k /\ i \div 2 # k BY <1>2, <2>1, <2>4 DEF OrderBut
  <2> QED BY <2>2, <2>3, <2>4
<1>7. ASSUME NEW i \in 2 .. Len(h), i \div 2 = c PROVE t[g[c \div 2]] <= t[g[i]]
  <2>1. i \in 1 .. Len(h) /\ i # k /\ i \div 2 # k BY <1>0, <1>7, Halves
  <2>2. t[h[c]] <= t[h[i]] BY <1>7, <2>1 DEF OrderBut
  <2> QED BY <1>0, <1>1, <1>2, <2>1, <2>2
<1> QED BY <1>1, <1>4, <1>6, <1>7 DEF OrderBut

LEMMA ShiftDownStep ==
  ASSUME NEW t \in [Evs -> Nat], NEW e \in Evs, NEW S, e \notin S,
         NEW h \in Seq(Evs), NEW k \in Nat, SinksFrom(h, t, k, e, S),
         \A g \in Seq(Evs), i \in Nat :
           Len(g) - i < Len(h) - k /\ SinksFrom(g, t, i, e, S)
             => Ordered(ShiftDown(g, t, i, e), t, Len(g), S \cup {e})
  PROVE  Ordered(ShiftDown(h, t, k, e), t, Len(h), S \cup {e})
<1>1. /\ k \in 1 .. Len(h) /\ HoldsBut(h, k, S) /\ OrderBut(h, t, k)
      /\ AfterAbove(h, t, k, e)
  BY DEF SinksFrom
<1>2. ShiftDown(h, t, k, e) = IF 2 * k <= Len(h) /\ t[e] > t[h[MinChild(h, t, k)]]
                              THEN Put(ShiftDown(h, t, MinChild(h, t, k), e), k,
                                       h[MinChild(h, t, k)])
                              ELSE Put(h, k, e)
  BY <1>1, ShiftDownIs
<1>3. PICK c : c = MinChild(h, t, k) OBVIOUS
<1>4. CASE 2 * k <= Len(h) /\ t[e] > t[h[c]]
  <2>1. c \in k + 1 .. Len(h) /\ c \in 1 .. Len(h) /\ c \in Nat /\ c # k
    BY <1>1, <1>3, <1>4, Child
  <2>2. PICK x \in Evs : x = h[c] BY <2>1
  <2>3. PICK f : f = Put(h, k, x) OBVIOUS
  <2>4. f \in Seq(Evs) /\ Len(f) = Len(h) /\ HoldsBut(f, c, S)
    BY <1>1, <2>1, <2>2, <2>3, MoveHole
  <2>5. OrderBut(f, t, c) /\ AfterAbove(f, t, c, e)
    BY <1>1, <1>3, <1>4, <2>2, <2>3, HoleDown
  <2>6. SinksFrom(f, t, c, e, S) BY <2>1, <2>4, <2>5 DEF SinksFrom
  <2>7. Len(f) - c < Len(h) - k BY <2>1, <2>4
  <2>8. Ordered(ShiftDown(f, t, c, e), t, Len(f), S \cup {e}) BY <2>1, <2>4, <2>6, <2>7
  <2>9. ShiftDown(f, t, c, e) = Put(ShiftDown(h, t, c, e), k, x)
    BY <1>1, <2>1, <2>3, ShiftDownBelow
  <2>10. ShiftDown(h, t, k, e) = Put(ShiftDown(h, t, c, e), k, x)
    BY <1>2, <1>3, <1>4, <2>2
  <2> QED BY <2>4, <2>8, <2>9, <2>10
<1>5. CASE ~(2 * k <= Len(h) /\ t[e] > t[h[c]])
  <2>1. BeforeBelow(h, t, k, e)
    <3> SUFFICES ASSUME NEW i \in 2 .. Len(h), i \div 2 = k PROVE t[e] <= t[h[i]]
      BY DEF BeforeBelow
    <3>1. i = 2 * k \/ i = 2 * k + 1 BY Halves
    <3>2. 2 * k <= Len(h) /\ k >= 1 BY <1>1, <3>1
    <3>3. c \in 1 .. Len(h) BY <1>1, <1>3, <3>2, Child
    <3>4. t[e] \in Nat /\ t[h[c]] \in Nat BY <3>3
    <3>5. t[e] <= t[h[c]] BY <1>5, <3>2, <3>4
    <3>6. t[h[c]] <= t[h[i]] BY <1>1, <1>3, <3>2, MinChildFirst
    <3>7. h[i] \in Evs /\ t[h[i]] \in Nat OBVIOUS
    <3> QED BY <3>4, <3>5, <3>6, <3>7
  <2>2. Ordered(Put(h, k, e), t, Len(h), S \cup {e}) BY <1>1, <2>1, Filled
  <2> QED BY <1>2, <1>3, <1>5, <2>2
<1> QED BY <1>4, <1>5

LEMMA ShiftDownOrders ==
  ASSUME NEW t \in [Evs -> Nat], NEW e \in Evs, NEW S, e \notin S,
         NEW h \in Seq(Evs), NEW k \in Nat, SinksFrom(h, t, k, e, S)
  PROVE  Ordered(ShiftDown(h, t, k, e), t, Len(h), S \cup {e})
<1> DEFINE Wrong(g, i) == SinksFrom(g, t, i, e, S)
                          /\ ~Ordered(ShiftDown(g, t, i, e), t, Len(g), S \cup {e})
           Bad == {d \in Nat : \E g \in Seq(Evs), i \in Nat : Wrong(g, i) /\ d = Len(g) - i}
<1> SUFFICES ASSUME Wrong(h, k) PROVE FALSE OBVIOUS
<1>0. \A g \in Seq(Evs), i \in Nat : Wrong(g, i) => Len(g) - i \in Nat BY DEF SinksFrom
<1> HIDE DEF Wrong
<1>1. Len(h) - k \in Bad BY <1>0
<1>2. PICK d \in Bad : \A c \in Bad : d <= c BY <1>1, LeastOne
<1>3. d \in Nat /\ \E g \in Seq(Evs), i \in Nat : Wrong(g, i) /\ d = Len(g) - i OBVIOUS
<1>4. PICK g \in Seq(Evs), i \in Nat : Wrong(g, i) /\ d = Len(g) - i BY <1>3
<1>5. \A f \in Seq(Evs), l \in Nat : Len(f) - l < d => ~Wrong(f, l)
  <2> SUFFICES ASSUME NEW f \in Seq(Evs), NEW l \in Nat, Len(f) - l < d, Wrong(f, l)
               PROVE FALSE
    OBVIOUS
  <2>1. Len(f) - l \in Bad BY <1>0
  <2>2. d <= Len(f) - l BY <1>2, <2>1
  <2> QED BY <1>3, <2>2
<1>6. \A f \in Seq(Evs), l \in Nat :
        Len(f) - l < Len(g) - i /\ SinksFrom(f, t, l, e, S)
          => Ordered(ShiftDown(f, t, l, e), t, Len(f), S \cup {e})
  BY <1>4, <1>5 DEF Wrong
<1>7. SinksFrom(g, t, i, e, S) BY <1>4 DEF Wrong
<1>8. Ordered(ShiftDown(g, t, i, e), t, Len(g), S \cup {e}) BY <1>6, <1>7, ShiftDownStep
<1> QED BY <1>4, <1>8 DEF Wrong

LEMMA Pushed ==
  ASSUME NEW t \in [Evs -> Nat], NEW h, NEW S \in SUBSET Evs, NEW e \in Evs, e \notin S,
         Holds(h, S), IsHeap(h, t)
  PROVE  Holds(HeapPush(h, t, e), S \cup {e}) /\ IsHeap(HeapPush(h, t, e), t)
<1>1. h \in Seq(Evs) /\ IsInjective(h) /\ Lists(h, S) BY DEF Holds
<1>2. PICK n \in Nat : n = Len(h) BY <1>1
<1>3. PICK g : g = Append(h, e) OBVIOUS
<1>4. /\ g \in Seq(Evs) /\ Len(g) = n + 1
      /\ \A i \in 1 .. n : g[i] = h[i]
  BY <1>1, <1>2, <1>3
<1>5. HoldsBut(g, n + 1, S)
  <2>1. DOMAIN g \ {n + 1} = 1 .. n /\ DOMAIN h = 1 .. n BY <1>1, <1>2, <1>4
  <2> QED BY <1>1, <1>4, <2>1 DEF HoldsBut, IsInjective, Lists
<1>6. \A i \in 2 .. n + 1 : i \div 2 # n + 1 BY <1>2, Halves
<1>7. OrderBut(g, t, n + 1)
  <2>1. ASSUME NEW i \in 2 .. n + 1, i # n + 1 PROVE t[g[i \div 2]] <= t[g[i]]
    <3>1. i \in 2 .. n /\ i \in 1 .. n /\ i \div 2 \in 1 .. n BY <1>2, <2>1, Halves
    <3> QED BY <1>2, <1>4, <3>1 DEF IsHeap
  <2> QED BY <1>4, <1>6, <2>1 DEF OrderBut
<1>8. BeforeBelow(g, t, n + 1, e) BY <1>4, <1>6 DEF BeforeBelow
<1>9. RisesFrom(g, t, n + 1, e, S) BY <1>2, <1>4, <1>5, <1>7, <1>8 DEF RisesFrom
<1>10. Ordered(ShiftUp(g, t, n + 1, e), t, Len(g), S \cup {e})
  BY <1>2, <1>4, <1>9, ShiftUpOrders
<1> QED BY <1>2, <1>3, <1>10 DEF Ordered, HeapPush

\* What is left without the last element, and a hole where e was.
LEMMA Erased ==
  ASSUME NEW t \in [Evs -> Nat], NEW h, NEW S \in SUBSET Evs, NEW e \in S,
         Holds(h, S), IsHeap(h, t)
  PROVE  Holds(HeapErase(h, t, e), S \ {e}) /\ IsHeap(HeapErase(h, t, e), t)
<1>1. h \in Seq(Evs) /\ IsInjective(h) /\ Lists(h, S) BY DEF Holds
<1>2. PICK n \in Nat : n = Len(h) /\ DOMAIN h = 1 .. n BY <1>1
<1>3. PICK k : k = CHOOSE j \in 1 .. n : h[j] = e OBVIOUS
<1>4. k \in 1 .. n /\ h[k] = e
  <2>1. \E j \in 1 .. n : h[j] = e BY <1>1, <1>2 DEF Lists
  <2> QED BY <1>3, <2>1
<1>5. PICK r : r = SubSeq(h, 1, n - 1) OBVIOUS
<1>6. r \in Seq(Evs) /\ Len(r) = n - 1 /\ \A i \in 1 .. n - 1 : r[i] = h[i]
  BY <1>1, <1>2, <1>4, <1>5
<1>7. DOMAIN r = 1 .. n - 1 BY <1>6
<1>8. \A i, j \in 1 .. n : h[i] = h[j] => i = j BY <1>1, <1>2 DEF IsInjective
<1>9. \A x \in Evs : x \in S <=> \E i \in 1 .. n : h[i] = x BY <1>1, <1>2 DEF Lists
<1>10. \A i \in 2 .. n : t[h[i \div 2]] <= t[h[i]] BY <1>2 DEF IsHeap
<1>11. \A i \in 2 .. n - 1 : t[r[i \div 2]] <= t[r[i]]
  <2> SUFFICES ASSUME NEW i \in 2 .. n - 1 PROVE t[r[i \div 2]] <= t[r[i]] OBVIOUS
  <2>1. i \in 2 .. n /\ i \in 1 .. n - 1 /\ i \div 2 \in 1 .. n - 1 BY <1>2, Halves
  <2> QED BY <1>6, <1>10, <2>1
<1>12. CASE k = n
  <2>0. k = n /\ ~(k < n) BY <1>2, <1>12
  <2>1. HeapErase(h, t, e)
          = CASE k = n -> r
              [] k < n /\ k > 1 /\ t[h[k \div 2]] > t[h[n]] -> ShiftUp(r, t, k, h[n])
              [] OTHER -> ShiftDown(r, t, k, h[n])
    BY <1>2, <1>3, <1>5 DEF HeapErase
  <2>a. HeapErase(h, t, e) = r BY <2>0, <2>1
  <2>2. IsHeap(r, t) BY <1>6, <1>11 DEF IsHeap
  <2>3. IsInjective(r) BY <1>6, <1>7, <1>8 DEF IsInjective
  <2>4. Lists(r, S \ {e})
    <3> SUFFICES ASSUME NEW x \in Evs
                 PROVE  x \in S \ {e} <=> \E i \in DOMAIN r : r[i] = x
      BY DEF Lists
    <3>1. ASSUME x \in S \ {e} PROVE \E i \in DOMAIN r : r[i] = x
      <4>1. PICK i \in 1 .. n : h[i] = x BY <1>9, <3>1
      <4>2. i # n BY <1>4, <1>12, <3>1, <4>1
      <4>3. i \in 1 .. n - 1 BY <1>2, <4>1, <4>2
      <4> QED BY <1>6, <1>7, <4>1, <4>3
    <3>2. ASSUME NEW i \in DOMAIN r, r[i] = x PROVE x \in S \ {e}
      <4>1. i \in 1 .. n - 1 /\ i \in 1 .. n /\ i # n BY <1>2, <1>7
      <4>2. h[i] = x BY <1>6, <3>2, <4>1
      <4>3. n \in 1 .. n BY <1>4, <1>12
      <4>4. x # e BY <1>4, <1>8, <1>12, <4>1, <4>2, <4>3
      <4> QED BY <1>9, <4>1, <4>2, <4>4
    <3> QED BY <3>1, <3>2
  <2> QED BY <1>6, <2>a, <2>2, <2>3, <2>4 DEF Holds
<1>13. CASE k # n
  <2>1. PICK last \in Evs : last = h[n] BY <1>1, <1>2, <1>4
  <2>2. k \in 1 .. n - 1 /\ k \in Nat /\ k \in 1 .. Len(r) /\ n \in 1 .. n BY <1>2, <1>4, <1>6, <1>13
  <2>3. last # e /\ last \in S BY <1>4, <1>8, <1>9, <1>13, <2>1, <2>2
  <2>4. PICK T : T = S \ {e, last} OBVIOUS
  <2>5. last \notin T /\ T \cup {last} = S \ {e} BY <2>3, <2>4
  <2>6. HoldsBut(r, k, T)
    <3>1. \A i, j \in DOMAIN r \ {k} : r[i] = r[j] => i = j BY <1>6, <1>7, <1>8
    <3>2. ASSUME NEW x \in Evs PROVE x \in T <=> \E i \in DOMAIN r \ {k} : r[i] = x
      <4>1. ASSUME x \in T PROVE \E i \in DOMAIN r \ {k} : r[i] = x
        <5>1. PICK i \in 1 .. n : h[i] = x BY <1>9, <2>4, <4>1
        <5>2. i # n /\ i # k BY <1>4, <2>1, <2>4, <4>1, <5>1
        <5>3. i \in 1 .. n - 1 BY <1>2, <5>1, <5>2
        <5> QED BY <1>6, <1>7, <5>1, <5>2, <5>3
      <4>2. ASSUME NEW i \in DOMAIN r \ {k}, r[i] = x PROVE x \in T
        <5>1. i \in 1 .. n - 1 /\ i \in 1 .. n /\ i # n /\ i # k BY <1>2, <1>7
        <5>2. h[i] = x BY <1>6, <4>2, <5>1
        <5>3. x # e /\ x # last BY <1>4, <1>8, <2>1, <2>2, <5>1, <5>2
        <5> QED BY <1>9, <2>4, <5>1, <5>2, <5>3
      <4> QED BY <4>1, <4>2
    <3> QED BY <3>1, <3>2 DEF HoldsBut
  <2>7. OrderBut(r, t, k)
    <3>1. ASSUME NEW i \in 2 .. n - 1, i \div 2 = k, k > 1 PROVE t[r[k \div 2]] <= t[r[i]]
      <4>1. k \in 2 .. n - 1 /\ k \in 1 .. n - 1 /\ k \div 2 \in 1 .. n - 1
        BY <1>2, <2>2, <3>1, Halves
      <4>2. r[k \div 2] \in Evs /\ r[k] \in Evs /\ r[i] \in Evs BY SMTT(30), <1>2, <1>6, <1>7, <4>1
      <4>3. t[r[k \div 2]] \in Nat /\ t[r[k]] \in Nat /\ t[r[i]] \in Nat BY <4>2
      <4>4. t[r[k \div 2]] <= t[r[k]] /\ t[r[k]] <= t[r[i]] BY <1>11, <3>1, <4>1
      <4> QED BY <4>3, <4>4
    <3> QED BY <1>6, <1>11, <3>1 DEF OrderBut
  <2>8. t[last] \in Nat OBVIOUS
  <2>9. CASE k > 1 /\ t[h[k \div 2]] > t[h[n]]
    <3>1. HeapErase(h, t, e) = ShiftUp(r, t, k, last)
      BY <1>2, <1>3, <1>5, <1>13, <2>1, <2>2, <2>9 DEF HeapErase
    <3>2. BeforeBelow(r, t, k, last)
      <4> SUFFICES ASSUME NEW i \in 2 .. n - 1, i \div 2 = k PROVE t[last] <= t[r[i]]
        BY <1>6 DEF BeforeBelow
      <4>1. k \div 2 \in 1 .. n - 1 BY <1>2, <2>2, <2>9, Halves
      <4>2. r[k \div 2] = h[k \div 2] /\ r[k \div 2] \in Evs /\ r[i] \in Evs
        BY SMTT(30), <1>2, <1>6, <1>7, <4>1
      <4>3. t[r[k \div 2]] \in Nat /\ t[r[i]] \in Nat BY <4>2
      <4>4. t[r[k \div 2]] <= t[r[i]] BY <1>6, <2>7, <2>9 DEF OrderBut
      <4> QED BY <2>1, <2>8, <2>9, <4>2, <4>3, <4>4
    <3>3. RisesFrom(r, t, k, last, T) BY <2>2, <2>6, <2>7, <3>2 DEF RisesFrom
    <3>4. Ordered(ShiftUp(r, t, k, last), t, Len(r), T \cup {last})
      BY <1>6, <2>2, <2>5, <3>3, ShiftUpOrders
    <3> QED BY <2>5, <3>1, <3>4 DEF Ordered
  <2>10. CASE ~(k > 1 /\ t[h[k \div 2]] > t[h[n]])
    <3>1. HeapErase(h, t, e) = ShiftDown(r, t, k, last)
      BY <1>2, <1>3, <1>5, <1>13, <2>1, <2>2, <2>10 DEF HeapErase
    <3>2. AfterAbove(r, t, k, last)
      <4> SUFFICES ASSUME k > 1 PROVE t[r[k \div 2]] <= t[last] BY DEF AfterAbove
      <4>1. k \div 2 \in 1 .. n - 1 BY <1>2, <2>2, Halves
      <4>2. r[k \div 2] = h[k \div 2] /\ r[k \div 2] \in Evs BY <1>2, <1>6, <1>7, <4>1
      <4>3. t[r[k \div 2]] \in Nat BY <4>2
      <4> QED BY <2>1, <2>8, <2>10, <4>2, <4>3
    <3>3. SinksFrom(r, t, k, last, T) BY <2>2, <2>6, <2>7, <3>2 DEF SinksFrom
    <3>4. Ordered(ShiftDown(r, t, k, last), t, Len(r), T \cup {last})
      BY <1>6, <2>2, <2>5, <3>3, ShiftDownOrders
    <3> QED BY <2>5, <3>1, <3>4 DEF Ordered
  <2> QED BY <2>9, <2>10
<1> QED BY <1>12, <1>13

---------------------------------------------------------------------------
(* The queues                                                              *)

LEMMA Appended ==
  ASSUME NEW s, NEW S \in SUBSET Evs, NEW e \in Evs, e \notin S, Holds(s, S)
  PROVE  Holds(Append(s, e), S \cup {e})
<1>1. s \in Seq(Evs) /\ IsInjective(s) /\ Lists(s, S) BY DEF Holds
<1>2. PICK g : g = Append(s, e) OBVIOUS
<1>3. /\ g \in Seq(Evs) /\ Len(g) = Len(s) + 1 /\ g[Len(s) + 1] = e
      /\ \A i \in 1 .. Len(s) : g[i] = s[i]
  BY <1>1, <1>2
<1>4. \A i \in 1 .. Len(s) : s[i] # e BY <1>1 DEF Lists
<1>5. IsInjective(g) BY <1>1, <1>3, <1>4 DEF IsInjective
<1>6. Lists(g, S \cup {e})
  <2> SUFFICES ASSUME NEW x \in Evs
               PROVE  x \in S \cup {e} <=> \E i \in DOMAIN g : g[i] = x
    BY DEF Lists
  <2>1. ASSUME x \in S PROVE \E i \in DOMAIN g : g[i] = x
    <3>1. PICK i \in 1 .. Len(s) : s[i] = x BY <1>1, <2>1 DEF Lists
    <3> QED BY <1>1, <1>3, <3>1
  <2>2. ASSUME x = e PROVE \E i \in DOMAIN g : g[i] = x BY <1>1, <1>3, <2>2
  <2>3. ASSUME NEW i \in DOMAIN g, g[i] = x PROVE x \in S \cup {e}
    BY <1>1, <1>3, <2>3 DEF Lists
  <2> QED BY <2>1, <2>2, <2>3
<1> QED BY <1>2, <1>3, <1>5, <1>6 DEF Holds

\* The elements behind k move one place to the front.
Closes(s, k, g) ==
  /\ k \in 1 .. Len(s) /\ g \in Seq(Evs) /\ Len(g) = Len(s) - 1
  /\ \A i \in 1 .. Len(g) : g[i] = IF i < k THEN s[i] ELSE s[i + 1]

LEMMA Closed ==
  ASSUME NEW s, NEW S \in SUBSET Evs, Holds(s, S), NEW k, NEW g, Closes(s, k, g)
  PROVE  Holds(g, S \ {s[k]})
<1>1. s \in Seq(Evs) /\ IsInjective(s) /\ Lists(s, S) BY DEF Holds
<1>2. PICK n \in Nat : n = Len(s) /\ DOMAIN s = 1 .. n BY <1>1
<1>3. k \in 1 .. n /\ g \in Seq(Evs) /\ Len(g) = n - 1 BY <1>2 DEF Closes
<1>4. \A i \in 1 .. n - 1 : g[i] = IF i < k THEN s[i] ELSE s[i + 1] BY <1>3 DEF Closes
<1>5. \A i, j \in 1 .. n : s[i] = s[j] => i = j BY <1>1, <1>2 DEF IsInjective
<1>6. DOMAIN g = 1 .. n - 1 BY <1>3
<1>7. IsInjective(g)
  <2> SUFFICES ASSUME NEW i \in 1 .. n - 1, NEW j \in 1 .. n - 1, g[i] = g[j] PROVE i = j
    BY <1>6 DEF IsInjective
  <2>1. PICK a \in 1 .. n : a = IF i < k THEN i ELSE i + 1 OBVIOUS
  <2>2. PICK c \in 1 .. n : c = IF j < k THEN j ELSE j + 1 OBVIOUS
  <2>3. g[i] = s[a] /\ g[j] = s[c] BY <1>4, <2>1, <2>2
  <2>4. a = c BY <1>5, <2>3
  <2> QED BY <1>3, <2>1, <2>2, <2>4
<1>8. Lists(g, S \ {s[k]})
  <2> SUFFICES ASSUME NEW x \in Evs
               PROVE  x \in S \ {s[k]} <=> \E i \in DOMAIN g : g[i] = x
    BY DEF Lists
  <2>1. ASSUME x \in S, x # s[k] PROVE \E i \in DOMAIN g : g[i] = x
    <3>1. PICK i \in 1 .. n : s[i] = x BY <1>1, <1>2, <2>1 DEF Lists
    <3>2. i # k BY <2>1, <3>1
    <3>3. CASE i < k
      <4>1. i \in 1 .. n - 1 BY <1>3, <3>3
      <4>2. g[i] = x BY <1>4, <3>1, <3>3, <4>1
      <4> QED BY <1>6, <4>1, <4>2
    <3>4. CASE i > k
      <4>1. i - 1 \in 1 .. n - 1 /\ ~(i - 1 < k) /\ i - 1 + 1 = i BY <1>3, <3>4
      <4>2. g[i - 1] = x BY <1>4, <3>1, <4>1
      <4> QED BY <1>6, <4>1, <4>2
    <3> QED BY <1>3, <3>2, <3>3, <3>4
  <2>2. ASSUME NEW i \in DOMAIN g, g[i] = x PROVE x \in S /\ x # s[k]
    <3>1. PICK a \in 1 .. n : a = IF i < k THEN i ELSE i + 1 BY <1>6
    <3>a. i \in 1 .. n - 1 /\ a # k BY <1>3, <1>6, <3>1
    <3>b. g[i] = s[a] BY <1>4, <3>a, <3>1
    <3>2. a # k /\ s[a] = x BY <2>2, <3>a, <3>b
    <3>3. x \in S BY <1>1, <1>2, <3>1, <3>2 DEF Lists
    <3> QED BY <1>3, <1>5, <3>1, <3>2, <3>3
  <2> QED BY <2>1, <2>2
<1> QED BY <1>3, <1>7, <1>8 DEF Holds

LEMMA UnlinkCloses ==
  ASSUME NEW s, NEW S \in SUBSET Evs, NEW e \in S, Holds(s, S)
  PROVE  \E k : Closes(s, k, Unlink(s, e)) /\ s[k] = e
<1>1. s \in Seq(Evs) /\ Lists(s, S) BY DEF Holds
<1>2. PICK k : k = CHOOSE j \in DOMAIN s : s[j] = e OBVIOUS
<1>3. k \in DOMAIN s /\ s[k] = e
  <2>1. \E j \in DOMAIN s : s[j] = e BY <1>1 DEF Lists
  <2> QED BY <1>2, <2>1
<1>4. k \in 1 .. Len(s) BY <1>1, <1>3
<1>5. PICK a : a = SubSeq(s, 1, k - 1) OBVIOUS
<1>6. PICK c : c = SubSeq(s, k + 1, Len(s)) OBVIOUS
<1>7. Unlink(s, e) = a \o c BY <1>2, <1>5, <1>6 DEF Unlink, RemoveAt
<1>8. a \in Seq(Evs) /\ Len(a) = k - 1 /\ \A i \in 1 .. k - 1 : a[i] = s[i]
  BY <1>1, <1>4, <1>5
<1>9. c \in Seq(Evs) /\ Len(c) = Len(s) - k /\ \A i \in 1 .. Len(s) - k : c[i] = s[k + i]
  BY <1>1, <1>4, <1>6
<1>10. PICK g : g = a \o c OBVIOUS
<1>c. a \in Seq(Evs) /\ c \in Seq(Evs) BY <1>8, <1>9
<1>a. g \in Seq(Evs) /\ Len(g) = Len(a) + Len(c) BY <1>c, <1>10
<1>b. Len(s) \in Nat /\ k \in Nat BY <1>1, <1>4
<1>11. g \in Seq(Evs) /\ Len(g) = Len(s) - 1 BY <1>8, <1>9, <1>a, <1>b
<1>12. ASSUME NEW i \in 1 .. Len(g) PROVE g[i] = IF i < k THEN s[i] ELSE s[i + 1]
  <2>1. CASE i < k BY <1>1, <1>4, <1>8, <1>9, <1>10, <1>11, <2>1
  <2>2. CASE ~(i < k)
    <3>1. i - (k - 1) \in 1 .. Len(s) - k /\ k + (i - (k - 1)) = i + 1 /\ i > k - 1
      BY <1>1, <1>4, <1>11, <2>2
    <3>2. g[i] = c[i - (k - 1)] BY <1>1, <1>4, <1>8, <1>9, <1>10, <1>11, <3>1
    <3> QED BY <1>9, <2>2, <3>1, <3>2
  <2> QED BY <2>1, <2>2
<1>13. Closes(s, k, g) BY <1>4, <1>11, <1>12 DEF Closes
<1> QED BY <1>3, <1>7, <1>10, <1>13

LEMMA Unlinked ==
  ASSUME NEW s, NEW S \in SUBSET Evs, NEW e \in S, Holds(s, S)
  PROVE  Holds(Unlink(s, e), S \ {e})
BY UnlinkCloses, Closed

LEMMA Tailed ==
  ASSUME NEW s, NEW S \in SUBSET Evs, Holds(s, S), s # << >>
  PROVE  Head(s) \in S /\ Holds(Tail(s), S \ {Head(s)})
<1>1. s \in Seq(Evs) /\ Lists(s, S) BY DEF Holds
<1>2. 1 \in 1 .. Len(s) /\ s[1] \in Evs /\ Head(s) = s[1] BY <1>1
<1>3. s[1] \in S BY <1>1, <1>2 DEF Lists
<1>4. PICK g : g = Tail(s) OBVIOUS
<1>5. g \in Seq(Evs) /\ Len(g) = Len(s) - 1 /\ \A i \in 1 .. Len(g) : g[i] = s[i + 1]
  BY <1>1, <1>2, <1>4
<1>6. Closes(s, 1, g) BY <1>2, <1>5 DEF Closes
<1> QED BY <1>2, <1>3, <1>4, <1>6, Closed

\* e goes behind the first k elements.
Opens(s, k, e, g) ==
  /\ k \in 0 .. Len(s) /\ g \in Seq(Evs) /\ Len(g) = Len(s) + 1
  /\ \A i \in 1 .. Len(g) : g[i] = IF i <= k THEN s[i] ELSE IF i = k + 1 THEN e ELSE s[i - 1]

LEMMA Opened ==
  ASSUME NEW s, NEW S \in SUBSET Evs, NEW e \in Evs, e \notin S, Holds(s, S), NEW k, NEW g,
         Opens(s, k, e, g)
  PROVE  Holds(g, S \cup {e})
<1>1. s \in Seq(Evs) /\ IsInjective(s) /\ Lists(s, S) BY DEF Holds
<1>2. PICK n \in Nat : n = Len(s) /\ DOMAIN s = 1 .. n BY <1>1
<1>3. k \in 0 .. n /\ g \in Seq(Evs) /\ Len(g) = n + 1 BY <1>2 DEF Opens
<1>4. \A i \in 1 .. n + 1 : g[i] = IF i <= k THEN s[i] ELSE IF i = k + 1 THEN e ELSE s[i - 1]
  BY <1>3 DEF Opens
<1>5. \A i, j \in 1 .. n : s[i] = s[j] => i = j BY <1>1, <1>2 DEF IsInjective
<1>6. DOMAIN g = 1 .. n + 1 BY <1>3
<1>7. \A i \in 1 .. n : s[i] \in S /\ s[i] # e BY <1>1, <1>2 DEF Lists
<1>8. ASSUME NEW i \in 1 .. n + 1, i # k + 1
      PROVE  \E a \in 1 .. n : a = (IF i <= k THEN i ELSE i - 1) /\ g[i] = s[a]
  <2>1. PICK a : a = IF i <= k THEN i ELSE i - 1 OBVIOUS
  <2>2. a \in 1 .. n BY <1>3, <1>8, <2>1
  <2>3. g[i] = s[a] BY <1>4, <1>8, <2>1
  <2> QED BY <2>1, <2>2, <2>3
<1>9. k + 1 \in 1 .. n + 1 /\ g[k + 1] = e BY <1>3, <1>4
<1>10. IsInjective(g)
  <2> SUFFICES ASSUME NEW i \in 1 .. n + 1, NEW j \in 1 .. n + 1, g[i] = g[j] PROVE i = j
    BY <1>6 DEF IsInjective
  <2>1. CASE i = k + 1 \/ j = k + 1 BY <1>7, <1>8, <1>9, <2>1
  <2>2. CASE i # k + 1 /\ j # k + 1
    <3>1. PICK a \in 1 .. n : a = (IF i <= k THEN i ELSE i - 1) /\ g[i] = s[a] BY <1>8, <2>2
    <3>2. PICK c \in 1 .. n : c = (IF j <= k THEN j ELSE j - 1) /\ g[j] = s[c] BY <1>8, <2>2
    <3>3. a = c BY <1>5, <3>1, <3>2
    <3> QED BY <1>3, <2>2, <3>1, <3>2, <3>3
  <2> QED BY <2>1, <2>2
<1>11. Lists(g, S \cup {e})
  <2> SUFFICES ASSUME NEW x \in Evs
               PROVE  x \in S \cup {e} <=> \E i \in DOMAIN g : g[i] = x
    BY DEF Lists
  <2>1. ASSUME x \in S PROVE \E i \in DOMAIN g : g[i] = x
    <3>1. PICK i \in 1 .. n : s[i] = x BY <1>1, <1>2, <2>1 DEF Lists
    <3>2. CASE i <= k
      <4>1. i \in 1 .. n + 1 /\ g[i] = s[i] BY <1>3, <1>4, <3>2
      <4> QED BY <1>6, <3>1, <4>1
    <3>3. CASE ~(i <= k)
      <4>1. i + 1 \in 1 .. n + 1 /\ ~(i + 1 <= k) /\ i + 1 # k + 1 /\ i + 1 - 1 = i
        BY <1>3, <3>3
      <4>2. g[i + 1] = s[i] BY <1>4, <4>1
      <4> QED BY <1>6, <3>1, <4>1, <4>2
    <3> QED BY <3>2, <3>3
  <2>2. ASSUME x = e PROVE \E i \in DOMAIN g : g[i] = x BY <1>6, <1>9, <2>2
  <2>3. ASSUME NEW i \in DOMAIN g, g[i] = x PROVE x \in S \cup {e}
    BY <1>6, <1>7, <1>8, <1>9, <2>3
  <2> QED BY <2>1, <2>2, <2>3
<1> QED BY <1>3, <1>10, <1>11 DEF Holds

InTime(s, t) == \A j, k \in DOMAIN s : j < k => t[s[j]] <= t[s[k]]

LEMMA LastOf ==
  ASSUME NEW n \in Nat, NEW S \in SUBSET (1 .. n), S # {}
  PROVE  \E k \in S : \A i \in S : i <= k
<1> DEFINE R == {d \in Nat : \E k \in S : d = n - k}
<1>1. PICK k \in S : TRUE OBVIOUS
<1>2. n - k \in R OBVIOUS
<1>3. PICK d \in R : \A c \in R : d <= c BY <1>2, LeastOne
<1>4. PICK l \in S : d = n - l OBVIOUS
<1>5. \A i \in S : n - l <= n - i
  <2> SUFFICES ASSUME NEW i \in S PROVE n - l <= n - i OBVIOUS
  <2>1. n - i \in R OBVIOUS
  <2> QED BY <1>3, <1>4, <2>1
<1> QED BY <1>5

LEMMA InOrderOpens ==
  ASSUME NEW b, NEW e \in Evs, b.common_list \in Seq(Evs), b.ev_timeout \in [Evs -> Nat],
         InTime(b.common_list, b.ev_timeout)
  PROVE  /\ InTime(InsertInOrder(b, e), b.ev_timeout)
         /\ \E k : Opens(b.common_list, k, e, InsertInOrder(b, e))
<1>1. PICK s \in Seq(Evs) : s = b.common_list OBVIOUS
<1>2. PICK t \in [Evs -> Nat] : t = b.ev_timeout OBVIOUS
<1>3. PICK n \in Nat : n = Len(s) /\ DOMAIN s = 1 .. n OBVIOUS
<1>4. PICK L : L = NotLater(b, e) OBVIOUS
<1>f. L = {k \in 1 .. n : t[s[k]] <= t[e]} BY <1>1, <1>2, <1>3, <1>4 DEF NotLater
<1>0. PICK m : m = CHOOSE j \in L : \A i \in L : i <= j OBVIOUS
<1>5. PICK k : k = IF L = {} THEN 0 ELSE m OBVIOUS
<1>6. L # {} => k \in L /\ \A i \in L : i <= k
  <2> HAVE L # {}
  <2>1. \E j \in L : \A i \in L : i <= j BY <1>f, LastOf
  <2>2. m \in L /\ \A i \in L : i <= m BY <1>0, <2>1
  <2> QED BY <1>5, <2>2
<1>7. k \in 0 .. n BY <1>f, <1>5, <1>6
<1>8. InsertInOrder(b, e) = InsertAt(s, k + 1, e)
  BY <1>0, <1>1, <1>4, <1>5 DEF InsertInOrder
<1>c. PICK l : l = k + 1 OBVIOUS
<1>9. PICK a : a = SubSeq(s, 1, l - 1) OBVIOUS
<1>10. PICK c : c = SubSeq(s, l, Len(s)) OBVIOUS
<1>11. a \in Seq(Evs) /\ Len(a) = k /\ \A i \in 1 .. k : a[i] = s[i] BY <1>3, <1>7, <1>9, <1>c
<1>12. c \in Seq(Evs) /\ Len(c) = n - k /\ \A i \in 1 .. n - k : c[i] = s[k + i]
  BY <1>3, <1>7, <1>10, <1>c
<1>13. PICK f : f = a \o <<e>> OBVIOUS
<1>a. a \in Seq(Evs) BY <1>11
<1>b. c \in Seq(Evs) BY <1>12
<1>14. f \in Seq(Evs) /\ Len(f) = Len(a) + 1 BY <1>a, <1>13
<1>15. /\ Len(f) = k + 1 /\ f[k + 1] = e
       /\ \A i \in 1 .. k : f[i] = s[i]
  <2>1. f[Len(a) + 1] = e /\ \A i \in 1 .. Len(a) : f[i] = a[i] BY <1>a, <1>13
  <2> QED BY <1>11, <1>14, <2>1
<1>16. PICK g : g = f \o c OBVIOUS
<1>d. f \in Seq(Evs) BY <1>14
<1>e. g \in Seq(Evs) /\ Len(g) = Len(f) + Len(c) BY <1>b, <1>d, <1>16
<1>17. /\ \A i \in 1 .. Len(f) : g[i] = f[i]
       /\ \A i \in 1 .. Len(c) : g[Len(f) + i] = c[i]
  BY <1>b, <1>d, <1>16
<1>18. Len(g) = n + 1 /\ DOMAIN g = 1 .. n + 1 BY <1>3, <1>7, <1>12, <1>15, <1>e
<1>19. InsertInOrder(b, e) = g BY <1>8, <1>9, <1>10, <1>13, <1>16, <1>c DEF InsertAt
<1>20. ASSUME NEW i \in 1 .. n + 1
       PROVE  g[i] = IF i <= k THEN s[i] ELSE IF i = k + 1 THEN e ELSE s[i - 1]
  <2>1. CASE i <= k + 1
    <3>1. i \in 1 .. Len(f) BY <1>7, <1>15, <2>1
    <3>2. g[i] = f[i] BY <1>17, <3>1
    <3>3. i <= k => i \in 1 .. k BY <1>7
    <3>4. i <= k => g[i] = s[i] BY <1>15, <3>2, <3>3
    <3>5. ~(i <= k) => i = k + 1 BY <1>7, <2>1
    <3> QED BY <1>15, <3>2, <3>4, <3>5
  <2>2. CASE ~(i <= k + 1)
    <3>1. PICK j : j = i - (k + 1) OBVIOUS
    <3>2. j \in 1 .. n - k /\ Len(f) + j = i /\ k + j = i - 1 BY <1>7, <1>15, <2>2, <3>1
    <3>3. g[i] = c[j] BY <1>12, <1>17, <3>2
    <3>4. c[j] = s[i - 1] BY <1>12, <3>2
    <3> QED BY <1>7, <2>2, <3>3, <3>4
  <2> QED BY <2>1, <2>2
<1>21. Opens(s, k, e, g) BY <1>3, <1>7, <1>e, <1>18, <1>20 DEF Opens
<1>22. \A i \in 1 .. k : t[s[i]] <= t[e]
  <2> SUFFICES ASSUME NEW i \in 1 .. k PROVE t[s[i]] <= t[e] OBVIOUS
  <2>1. k # 0 BY <1>7
  <2>2. k \in L BY <1>5, <1>6, <2>1
  <2>3. k \in 1 .. n /\ i \in 1 .. n /\ t[s[k]] <= t[e] BY <1>f, <1>7, <2>2
  <2>4. t[s[i]] \in Nat /\ t[s[k]] \in Nat /\ t[e] \in Nat BY <1>3, <2>3
  <2>5. i < k => t[s[i]] <= t[s[k]] BY <1>1, <1>2, <1>3, <2>3 DEF InTime
  <2> QED BY <1>7, <2>3, <2>4, <2>5
<1>23. \A i \in 1 .. n : i > k => t[e] <= t[s[i]]
  <2> SUFFICES ASSUME NEW i \in 1 .. n, i > k PROVE t[e] <= t[s[i]] OBVIOUS
  <2>1. i \notin L BY <1>6, <1>7
  <2>2. ~(t[s[i]] <= t[e]) BY <1>f, <2>1
  <2>3. t[s[i]] \in Nat /\ t[e] \in Nat BY <1>3
  <2> QED BY <2>2, <2>3
<1>24. \A i, j \in 1 .. n : i < j => t[s[i]] <= t[s[j]] BY <1>1, <1>2, <1>3 DEF InTime
<1>25. InTime(g, t)
  <2> SUFFICES ASSUME NEW i \in 1 .. n + 1, NEW j \in 1 .. n + 1, i < j
               PROVE  t[g[i]] <= t[g[j]]
    BY <1>18 DEF InTime
  <2>1. CASE i <= k /\ j <= k
    <3>1. i \in 1 .. n /\ j \in 1 .. n BY <1>7, <2>1
    <3> QED BY <1>20, <1>24, <2>1, <3>1
  <2>2. CASE i <= k /\ j = k + 1
    <3>1. i \in 1 .. k BY <1>7, <2>2
    <3>2. g[i] = s[i] /\ g[j] = e BY <1>7, <1>15, <1>20, <2>2
    <3> QED BY <1>22, <3>1, <3>2
  <2>3. CASE i <= k /\ j > k + 1
    <3>1. i \in 1 .. n /\ j - 1 \in 1 .. n /\ i < j - 1 BY <1>7, <2>3
    <3>2. g[i] = s[i] /\ g[j] = s[j - 1] BY <1>7, <1>20, <2>3
    <3> QED BY <1>24, <3>1, <3>2
  <2>4. CASE i = k + 1
    <3>1. j - 1 \in 1 .. n /\ j - 1 > k BY <1>7, <2>4
    <3>2. g[i] = e /\ g[j] = s[j - 1] BY <1>7, <1>20, <2>4
    <3> QED BY <1>23, <3>1, <3>2
  <2>5. CASE i > k + 1
    <3>1. i - 1 \in 1 .. n /\ j - 1 \in 1 .. n /\ i - 1 < j - 1 BY <1>7, <2>5
    <3>2. ~(i <= k) /\ i # k + 1 /\ ~(j <= k) /\ j # k + 1 BY <1>7, <2>5
    <3>3. g[i] = s[i - 1] /\ g[j] = s[j - 1] BY <1>20, <3>2
    <3> QED BY <1>24, <3>1, <3>3
  <2> QED BY <1>7, <2>1, <2>2, <2>3, <2>4, <2>5
<1> QED BY <1>1, <1>2, <1>19, <1>21, <1>25

LEMMA StillInTime ==
  ASSUME NEW s, s \in Seq(Evs), NEW t, InTime(s, t), NEW k, NEW g, Closes(s, k, g)
  PROVE  InTime(g, t)
<1>1. PICK n \in Nat : n = Len(s) /\ DOMAIN s = 1 .. n OBVIOUS
<1>2. k \in 1 .. n /\ DOMAIN g = 1 .. n - 1 BY <1>1 DEF Closes
<1>3. \A i \in 1 .. n - 1 : g[i] = IF i < k THEN s[i] ELSE s[i + 1]
  <2>1. Len(g) = n - 1 BY <1>1 DEF Closes
  <2> QED BY <2>1 DEF Closes
<1> SUFFICES ASSUME NEW i \in 1 .. n - 1, NEW j \in 1 .. n - 1, i < j PROVE t[g[i]] <= t[g[j]]
  BY <1>2 DEF InTime
<1>4. PICK a \in 1 .. n : a = IF i < k THEN i ELSE i + 1 OBVIOUS
<1>5. PICK c \in 1 .. n : c = IF j < k THEN j ELSE j + 1 OBVIOUS
<1>6. g[i] = s[a] /\ g[j] = s[c] /\ a < c BY <1>2, <1>3, <1>4, <1>5
<1> QED BY <1>1, <1>6 DEF InTime

---------------------------------------------------------------------------
(* The fields of a base and the events with each flag                      *)

Flags == {"TIMEOUT", "INSERTED", "ACTIVE", "ACTIVE_LATER"}
Causes == {"TIMEOUT", "READ"}
Ats == 0 .. 2 * MaxTime
Delays == {d \in Durs \cup {NoTimeout} : d <= MaxTime}
Bases ==
  [flags : [Evs -> SUBSET Flags], ev_res : [Evs -> SUBSET Causes], ev_timeout : [Evs -> Ats],
   common : SUBSET Evs, ev_io_timeout : [Evs -> Delays], timeheap : Seq(Evs),
   common_list : Seq(Evs), activequeues : [Prios -> Seq(Evs)], active_later_queue : Seq(Evs),
   n_deferreds_queued : Nat, event_break : BOOLEAN, event_gotterm : BOOLEAN,
   event_continue : BOOLEAN, event_running_priority : Prios \cup {-1},
   current_event : Evs \cup {None}, current_event_waiters : 0 .. 1,
   is_notify_pending : BOOLEAN, notify_fd : BOOLEAN, tv_cache : 0 .. MaxTime]

\* The parts of BaseOk and what goes with them: timers, queues, kinds of events.
TimersOk(b) ==
  /\ Holds(b.timeheap, Flagged(b, "TIMEOUT") \ b.common) /\ IsHeap(b.timeheap, b.ev_timeout)
  /\ Holds(b.common_list, Flagged(b, "TIMEOUT") \cap b.common)
  /\ InTime(b.common_list, b.ev_timeout)
QueuesOk(b) ==
  /\ \A p \in Prios : Holds(b.activequeues[p], {e \in Flagged(b, "ACTIVE") : Prio(e) = p})
  /\ Holds(b.active_later_queue, Flagged(b, "ACTIVE_LATER"))
  /\ Flagged(b, "ACTIVE") \cap Flagged(b, "ACTIVE_LATER") = {}
KindsOk(b) ==
  /\ Flagged(b, "ACTIVE_LATER") \subseteq Deferred
  /\ Flagged(b, "INSERTED") \subseteq IoEvs
  /\ Flagged(b, "TIMEOUT") \cap Deferred = {}
  /\ \A e \in Deferred : b.ev_res[e] = {}
  /\ timeout_event \notin b.common
Elapsed(b, t) ==
  /\ b.tv_cache <= t
  /\ \A e \in Users \ Exits :
       (e \in Flagged(b, "ACTIVE") /\ "TIMEOUT" \in b.ev_res[e]) => b.ev_timeout[e] <= t
Sound(b, t) == b \in Bases /\ TimersOk(b) /\ QueuesOk(b) /\ KindsOk(b) /\ Elapsed(b, t)

\* The fields that a function leaves alone, in groups.
SameTimers(b, c) ==
  /\ c.ev_timeout = b.ev_timeout /\ c.common = b.common
  /\ c.timeheap = b.timeheap /\ c.common_list = b.common_list
  /\ Flagged(c, "TIMEOUT") = Flagged(b, "TIMEOUT")
SameQueues(b, c) ==
  /\ c.activequeues = b.activequeues /\ c.active_later_queue = b.active_later_queue
  /\ Flagged(c, "ACTIVE") = Flagged(b, "ACTIVE")
  /\ Flagged(c, "ACTIVE_LATER") = Flagged(b, "ACTIVE_LATER")
SameKinds(b, c) == c.ev_res = b.ev_res /\ Flagged(c, "INSERTED") = Flagged(b, "INSERTED")
SamePlace(b, c) ==
  /\ c.event_break = b.event_break /\ c.event_gotterm = b.event_gotterm
  /\ c.event_running_priority = b.event_running_priority
  /\ c.current_event = b.current_event /\ c.current_event_waiters = b.current_event_waiters
  /\ c.tv_cache = b.tv_cache
SameTurn(b, c) ==
  /\ SamePlace(b, c) /\ c.event_continue = b.event_continue
  /\ c.is_notify_pending = b.is_notify_pending /\ c.notify_fd = b.notify_fd

LEMMA Events ==
  /\ IsFiniteSet(Evs) /\ None \notin Evs /\ th_notify \in Evs /\ timeout_event \in Evs
  /\ Users \in SUBSET Evs /\ Internal \in SUBSET Evs /\ IoEvs \in SUBSET Evs
  /\ Deferred \in SUBSET Users /\ Persist \in SUBSET Users /\ Exits \in SUBSET Users
  /\ Evs = Users \cup Internal /\ Users \cap Internal = {} /\ th_notify # timeout_event
  /\ Deferred \cap (IoEvs \cup Persist) = {} /\ Exits \cap (IoEvs \cup Persist \cup Deferred) = {}
  /\ NumPri \in Nat /\ MaxTime \in Nat /\ MaxTime >= 1
  /\ \A e \in Evs : Prio(e) \in Prios /\ Prio(e) \in Nat
<1> USE EvLoopAssumption DEF EvLoopAssumption, EvBaseAssumption
<1>1. IsFiniteSet(Evs)
  <2>1. IsFiniteSet({th_notify}) /\ IsFiniteSet({timeout_event}) BY FS_Singleton
  <2>2. Evs = (Users \cup {th_notify}) \cup {timeout_event} BY DEF Evs, Internal
  <2>3. IsFiniteSet(Users \cup {th_notify}) BY <2>1, FS_Union
  <2> QED BY <2>1, <2>2, <2>3, FS_Union
<1>2. None \notin Evs /\ th_notify \in Evs /\ timeout_event \in Evs
  BY DEF Evs, Internal
<1>3. /\ Users \in SUBSET Evs /\ Internal \in SUBSET Evs /\ IoEvs \in SUBSET Evs
      /\ Evs = Users \cup Internal /\ Users \cap Internal = {} /\ th_notify # timeout_event
  BY DEF Evs, Internal, IoEvs
<1>4. Deferred \in SUBSET Users /\ Persist \in SUBSET Users /\ Exits \in SUBSET Users
  OBVIOUS
<1>5. /\ Deferred \cap (IoEvs \cup Persist) = {}
      /\ Exits \cap (IoEvs \cup Persist \cup Deferred) = {}
  BY DEF IoEvs, Internal
<1>6. NumPri \in Nat /\ MaxTime \in Nat /\ MaxTime >= 1 OBVIOUS
<1>7. ASSUME NEW e \in Evs PROVE Prio(e) \in Prios /\ Prio(e) \in Nat
  <2>1. Prio(e) \in Prios
    <3>1. CASE e \in Internal BY <3>1 DEF Prio, Prios
    <3>2. CASE e \notin Internal BY <1>3, <3>2 DEF Prio
    <3> QED BY <3>1, <3>2
  <2> QED BY <2>1 DEF Prios
<1> QED BY <1>1, <1>2, <1>3, <1>4, <1>5, <1>6, <1>7

\* The events with a flag, and what setting and clearing it changes.
With(F, flag) == {e \in Evs : flag \in F[e]}

LEMMA FlaggedIs == ASSUME NEW b, NEW flag PROVE Flagged(b, flag) = With(b.flags, flag)
BY DEF Flagged, With, Has

Flips(F, G, flag, S) ==
  /\ G \in [Evs -> SUBSET Flags] /\ With(G, flag) = S
  /\ \A g : g # flag => With(G, g) = With(F, g)

LEMMA FlagSet ==
  ASSUME NEW F \in [Evs -> SUBSET Flags], NEW e \in Evs, NEW flag \in Flags,
         NEW G, G = [F EXCEPT ![e] = F[e] \cup {flag}]
  PROVE  Flips(F, G, flag, With(F, flag) \cup {e})
<1>1. G \in [Evs -> SUBSET Flags] OBVIOUS
<1>2. \A x \in Evs : G[x] = IF x = e THEN F[e] \cup {flag} ELSE F[x] OBVIOUS
<1> QED BY <1>1, <1>2 DEF With, Flips

LEMMA FlagCleared ==
  ASSUME NEW F \in [Evs -> SUBSET Flags], NEW e \in Evs, NEW flag \in Flags,
         NEW G, G = [F EXCEPT ![e] = F[e] \ {flag}]
  PROVE  Flips(F, G, flag, With(F, flag) \ {e})
<1>1. G \in [Evs -> SUBSET Flags] OBVIOUS
<1>2. \A x \in Evs : G[x] = IF x = e THEN F[e] \ {flag} ELSE F[x] OBVIOUS
<1> QED BY <1>1, <1>2 DEF With, Flips

\* The flags and the two queues of a base are replaced.
PutQueues(b, F, Q, L, n) ==
  [b EXCEPT !.flags = F, !.activequeues = Q, !.active_later_queue = L, !.n_deferreds_queued = n]

NewQueues(b, c, F, Q, L) ==
  /\ c \in Bases /\ c.flags = F /\ c.activequeues = Q /\ c.active_later_queue = L
  /\ c.ev_res = b.ev_res /\ SameTurn(b, c)
  /\ c.ev_timeout = b.ev_timeout /\ c.common = b.common
  /\ c.timeheap = b.timeheap /\ c.common_list = b.common_list

LEMMA QueuesPut ==
  ASSUME NEW b \in Bases, NEW F \in [Evs -> SUBSET Flags], NEW Q \in [Prios -> Seq(Evs)],
         NEW L \in Seq(Evs), NEW n \in Nat, NEW c, c = PutQueues(b, F, Q, L, n)
  PROVE  NewQueues(b, c, F, Q, L)
<1>1. c \in Bases BY DEF PutQueues, Bases
<1>2. /\ c.flags = F /\ c.activequeues = Q /\ c.active_later_queue = L
      /\ c.ev_res = b.ev_res
      /\ c.ev_timeout = b.ev_timeout /\ c.common = b.common
      /\ c.timeheap = b.timeheap /\ c.common_list = b.common_list
  BY DEF PutQueues, Bases
<1>3. SameTurn(b, c) BY DEF PutQueues, Bases, SameTurn, SamePlace
<1> QED BY <1>1, <1>2, <1>3 DEF NewQueues

LEMMA Fields ==
  ASSUME NEW b \in Bases
  PROVE  /\ b.flags \in [Evs -> SUBSET Flags] /\ b.ev_res \in [Evs -> SUBSET Causes]
         /\ b.ev_timeout \in [Evs -> Ats] /\ b.ev_timeout \in [Evs -> Nat]
         /\ b.common \in SUBSET Evs
         /\ b.ev_io_timeout \in [Evs -> Delays] /\ b.timeheap \in Seq(Evs)
         /\ b.common_list \in Seq(Evs) /\ b.activequeues \in [Prios -> Seq(Evs)]
         /\ b.active_later_queue \in Seq(Evs) /\ b.n_deferreds_queued \in Nat
         /\ b.event_break \in BOOLEAN /\ b.event_gotterm \in BOOLEAN
         /\ b.event_continue \in BOOLEAN /\ b.event_running_priority \in Prios \cup {-1}
         /\ b.event_running_priority \in Int
         /\ b.current_event \in Evs \cup {None} /\ b.current_event_waiters \in 0 .. 1
         /\ b.is_notify_pending \in BOOLEAN /\ b.notify_fd \in BOOLEAN
         /\ b.tv_cache \in 0 .. MaxTime
         /\ \A flag : Flagged(b, flag) \in SUBSET Evs
<1>1. b.ev_timeout \in [Evs -> Ats] BY DEF Bases
<1>2. b.ev_timeout \in [Evs -> Nat] BY <1>1, Events DEF Ats
<1>3. \A flag : Flagged(b, flag) \in SUBSET Evs BY DEF Flagged
<1>4. b.event_running_priority \in Int BY Events DEF Bases, Prios
<1> QED BY <1>1, <1>2, <1>3, <1>4 DEF Bases

\* The events with each flag, when only e and one flag change.
OnlyFlag(b, c, flag) ==
  \A g \in Flags : g # flag => Flagged(c, g) = Flagged(b, g)

LEMMA SetOf ==
  ASSUME NEW b \in Bases, NEW e \in Evs, NEW flag \in Flags
  PROVE  \E F \in [Evs -> SUBSET Flags] :
           /\ F = [b.flags EXCEPT ![e] = b.flags[e] \cup {flag}]
           /\ \A c : c.flags = F => /\ Flagged(c, flag) = Flagged(b, flag) \cup {e}
                                    /\ OnlyFlag(b, c, flag)
<1>1. PICK f \in [Evs -> SUBSET Flags] : f = b.flags BY Fields
<1>2. PICK F : F = [f EXCEPT ![e] = f[e] \cup {flag}] OBVIOUS
<1>a. Flips(f, F, flag, With(f, flag) \cup {e}) BY <1>2, FlagSet
<1>3. /\ F \in [Evs -> SUBSET Flags] /\ With(F, flag) = With(f, flag) \cup {e}
      /\ \A g : g # flag => With(F, g) = With(f, g)
  BY <1>a DEF Flips
<1>4. ASSUME NEW c, c.flags = F
      PROVE  Flagged(c, flag) = Flagged(b, flag) \cup {e} /\ OnlyFlag(b, c, flag)
  <2>1. \A g : Flagged(c, g) = With(F, g) /\ Flagged(b, g) = With(f, g)
    BY <1>1, <1>4, FlaggedIs
  <2> QED BY <1>3, <2>1 DEF OnlyFlag
<1> QED BY <1>1, <1>2, <1>3, <1>4

LEMMA ClearedOf ==
  ASSUME NEW b \in Bases, NEW e \in Evs, NEW flag \in Flags
  PROVE  \E F \in [Evs -> SUBSET Flags] :
           /\ F = [b.flags EXCEPT ![e] = b.flags[e] \ {flag}]
           /\ \A c : c.flags = F => /\ Flagged(c, flag) = Flagged(b, flag) \ {e}
                                    /\ OnlyFlag(b, c, flag)
<1>1. PICK f \in [Evs -> SUBSET Flags] : f = b.flags BY Fields
<1>2. PICK F : F = [f EXCEPT ![e] = f[e] \ {flag}] OBVIOUS
<1>a. Flips(f, F, flag, With(f, flag) \ {e}) BY <1>2, FlagCleared
<1>3. /\ F \in [Evs -> SUBSET Flags] /\ With(F, flag) = With(f, flag) \ {e}
      /\ \A g : g # flag => With(F, g) = With(f, g)
  BY <1>a DEF Flips
<1>4. ASSUME NEW c, c.flags = F
      PROVE  Flagged(c, flag) = Flagged(b, flag) \ {e} /\ OnlyFlag(b, c, flag)
  <2>1. \A g : Flagged(c, g) = With(F, g) /\ Flagged(b, g) = With(f, g)
    BY <1>1, <1>4, FlaggedIs
  <2> QED BY <1>3, <2>1 DEF OnlyFlag
<1> QED BY <1>1, <1>2, <1>3, <1>4

LEMMA FourFlags ==
  /\ "TIMEOUT" \in Flags /\ "INSERTED" \in Flags /\ "ACTIVE" \in Flags
  /\ "ACTIVE_LATER" \in Flags
BY DEF Flags

---------------------------------------------------------------------------
(* The functions of the queues                                             *)

LEMMA ActiveInserted ==
  ASSUME NEW b \in Bases, NEW e \in Evs, e \notin Flagged(b, "ACTIVE"),
         e \notin Flagged(b, "ACTIVE_LATER"), QueuesOk(b), NEW c, c = QueueInsertActive(b, e)
  PROVE  /\ c \in Bases /\ SameTimers(b, c) /\ SameKinds(b, c) /\ SameTurn(b, c)
         /\ QueuesOk(c) /\ Flagged(c, "ACTIVE") = Flagged(b, "ACTIVE") \cup {e}
         /\ Flagged(c, "ACTIVE_LATER") = Flagged(b, "ACTIVE_LATER")
<1>1. PICK F \in [Evs -> SUBSET Flags] :
        /\ F = [b.flags EXCEPT ![e] = b.flags[e] \cup {"ACTIVE"}]
        /\ \A d : d.flags = F => /\ Flagged(d, "ACTIVE") = Flagged(b, "ACTIVE") \cup {e}
                                 /\ OnlyFlag(b, d, "ACTIVE")
  BY FourFlags, SetOf
<1>2. PICK p \in Prios : p = Prio(e) BY Events
<1>3. PICK q : q = b.activequeues[p] OBVIOUS
<1>4. PICK s : s = Append(q, e) OBVIOUS
<1>5. PICK Q : Q = [b.activequeues EXCEPT ![p] = s] OBVIOUS
<1>6. q \in Seq(Evs) /\ Holds(q, {x \in Flagged(b, "ACTIVE") : Prio(x) = p})
  BY <1>3, Fields DEF QueuesOk
<1>7. Q \in [Prios -> Seq(Evs)] BY <1>4, <1>5, <1>6, Fields
<1>8. c = [b EXCEPT !.flags = F, !.activequeues = Q]
  BY <1>1, <1>2, <1>3, <1>4, <1>5 DEF QueueInsertActive, Has, Set, Flagged, Bases
<1>9. c = PutQueues(b, F, Q, b.active_later_queue, b.n_deferreds_queued)
  BY <1>8 DEF PutQueues, Bases
<1>a. b.active_later_queue \in Seq(Evs) /\ b.n_deferreds_queued \in Nat BY Fields
<1>b. NewQueues(b, c, F, Q, b.active_later_queue) BY <1>7, <1>9, <1>a, QueuesPut
<1>10. /\ c \in Bases /\ c.flags = F /\ c.activequeues = Q
       /\ c.active_later_queue = b.active_later_queue
       /\ c.ev_res = b.ev_res /\ SameTurn(b, c)
       /\ c.ev_timeout = b.ev_timeout /\ c.common = b.common
       /\ c.timeheap = b.timeheap /\ c.common_list = b.common_list
  BY <1>b DEF NewQueues
<1>11. Flagged(c, "ACTIVE") = Flagged(b, "ACTIVE") \cup {e} /\ OnlyFlag(b, c, "ACTIVE")
  BY <1>1, <1>10
<1>12. /\ Flagged(c, "ACTIVE_LATER") = Flagged(b, "ACTIVE_LATER")
       /\ Flagged(c, "TIMEOUT") = Flagged(b, "TIMEOUT")
       /\ Flagged(c, "INSERTED") = Flagged(b, "INSERTED")
  BY <1>11, FourFlags DEF OnlyFlag
<1>13. QueuesOk(c)
  <2>1. Holds(s, {x \in Flagged(b, "ACTIVE") : Prio(x) = p} \cup {e})
    BY <1>4, <1>6, Fields, Appended
  <2>2. ASSUME NEW r \in Prios
        PROVE  Holds(c.activequeues[r], {x \in Flagged(c, "ACTIVE") : Prio(x) = r})
    <3>1. CASE r = p
      <4>1. {x \in Flagged(c, "ACTIVE") : Prio(x) = p}
              = {x \in Flagged(b, "ACTIVE") : Prio(x) = p} \cup {e}
        BY <1>2, <1>11
      <4>2. c.activequeues[r] = s BY <1>5, <1>10, <3>1, Fields
      <4> QED BY <2>1, <3>1, <4>1, <4>2
    <3>2. CASE r # p
      <4>1. {x \in Flagged(c, "ACTIVE") : Prio(x) = r} = {x \in Flagged(b, "ACTIVE") : Prio(x) = r}
        BY <1>2, <1>11, <3>2
      <4>2. c.activequeues[r] = b.activequeues[r] BY <1>5, <1>10, <3>2, Fields
      <4> QED BY <4>1, <4>2 DEF QueuesOk
    <3> QED BY <3>1, <3>2
  <2>3. Flagged(c, "ACTIVE") \cap Flagged(c, "ACTIVE_LATER") = {} BY <1>11, <1>12 DEF QueuesOk
  <2> QED BY <1>10, <1>12, <2>2, <2>3 DEF QueuesOk
<1> QED BY <1>10, <1>11, <1>12, <1>13 DEF SameTimers, SameKinds

LEMMA ActiveRemoved ==
  ASSUME NEW b \in Bases, NEW e \in Flagged(b, "ACTIVE"), QueuesOk(b),
         NEW c, c = QueueRemoveActive(b, e)
  PROVE  /\ c \in Bases /\ SameTimers(b, c) /\ SameKinds(b, c) /\ SameTurn(b, c)
         /\ QueuesOk(c) /\ Flagged(c, "ACTIVE") = Flagged(b, "ACTIVE") \ {e}
         /\ Flagged(c, "ACTIVE_LATER") = Flagged(b, "ACTIVE_LATER")
<1>0. e \in Evs BY Fields
<1>1. PICK F \in [Evs -> SUBSET Flags] :
        /\ F = [b.flags EXCEPT ![e] = b.flags[e] \ {"ACTIVE"}]
        /\ \A d : d.flags = F => /\ Flagged(d, "ACTIVE") = Flagged(b, "ACTIVE") \ {e}
                                 /\ OnlyFlag(b, d, "ACTIVE")
  BY <1>0, FourFlags, ClearedOf
<1>2. PICK p \in Prios : p = Prio(e) BY <1>0, Events
<1>3. PICK q : q = b.activequeues[p] OBVIOUS
<1>4. PICK s : s = Unlink(q, e) OBVIOUS
<1>5. PICK Q : Q = [b.activequeues EXCEPT ![p] = s] OBVIOUS
<1>6. PICK S \in SUBSET Evs : S = {x \in Flagged(b, "ACTIVE") : Prio(x) = p} BY Fields
<1>c. Holds(q, S) /\ e \in S BY <1>2, <1>3, <1>6 DEF QueuesOk
<1>d. Holds(s, S \ {e}) BY <1>4, <1>c, Unlinked
<1>e. s \in Seq(Evs) BY <1>d DEF Holds
<1>7. Q \in [Prios -> Seq(Evs)] BY <1>5, <1>e, Fields
<1>8. c = [b EXCEPT !.flags = F, !.activequeues = Q]
  BY <1>1, <1>2, <1>3, <1>4, <1>5 DEF QueueRemoveActive, Clear, Bases
<1>9. c = PutQueues(b, F, Q, b.active_later_queue, b.n_deferreds_queued)
  BY <1>8 DEF PutQueues, Bases
<1>a. b.active_later_queue \in Seq(Evs) /\ b.n_deferreds_queued \in Nat BY Fields
<1>b. NewQueues(b, c, F, Q, b.active_later_queue) BY <1>7, <1>9, <1>a, QueuesPut
<1>10. /\ c \in Bases /\ c.flags = F /\ c.activequeues = Q
       /\ c.active_later_queue = b.active_later_queue
       /\ c.ev_res = b.ev_res /\ SameTurn(b, c)
       /\ c.ev_timeout = b.ev_timeout /\ c.common = b.common
       /\ c.timeheap = b.timeheap /\ c.common_list = b.common_list
  BY <1>b DEF NewQueues
<1>11. Flagged(c, "ACTIVE") = Flagged(b, "ACTIVE") \ {e} /\ OnlyFlag(b, c, "ACTIVE")
  BY <1>1, <1>10
<1>12. /\ Flagged(c, "ACTIVE_LATER") = Flagged(b, "ACTIVE_LATER")
       /\ Flagged(c, "TIMEOUT") = Flagged(b, "TIMEOUT")
       /\ Flagged(c, "INSERTED") = Flagged(b, "INSERTED")
  BY <1>11, FourFlags DEF OnlyFlag
<1>13. QueuesOk(c)
  <2>1. ASSUME NEW r \in Prios
        PROVE  Holds(c.activequeues[r], {x \in Flagged(c, "ACTIVE") : Prio(x) = r})
    <3>1. CASE r = p
      <4>1. {x \in Flagged(c, "ACTIVE") : Prio(x) = p} = S \ {e} BY <1>6, <1>11
      <4>2. c.activequeues[r] = s BY <1>5, <1>10, <3>1, Fields
      <4> QED BY <1>d, <3>1, <4>1, <4>2
    <3>2. CASE r # p
      <4>1. {x \in Flagged(c, "ACTIVE") : Prio(x) = r} = {x \in Flagged(b, "ACTIVE") : Prio(x) = r}
        BY <1>2, <1>11, <3>2
      <4>2. c.activequeues[r] = b.activequeues[r] BY <1>5, <1>10, <3>2, Fields
      <4> QED BY <4>1, <4>2 DEF QueuesOk
    <3> QED BY <3>1, <3>2
  <2>2. Flagged(c, "ACTIVE") \cap Flagged(c, "ACTIVE_LATER") = {} BY <1>11, <1>12 DEF QueuesOk
  <2> QED BY <1>10, <1>12, <2>1, <2>2 DEF QueuesOk
<1> QED BY <1>10, <1>11, <1>12, <1>13 DEF SameTimers, SameKinds

LEMMA LaterInserted ==
  ASSUME NEW b \in Bases, NEW e \in Evs, e \notin Flagged(b, "ACTIVE"),
         e \notin Flagged(b, "ACTIVE_LATER"), QueuesOk(b),
         NEW c, c = QueueInsertActiveLater(b, e)
  PROVE  /\ c \in Bases /\ SameTimers(b, c) /\ SameKinds(b, c) /\ SameTurn(b, c)
         /\ QueuesOk(c) /\ Flagged(c, "ACTIVE") = Flagged(b, "ACTIVE")
         /\ Flagged(c, "ACTIVE_LATER") = Flagged(b, "ACTIVE_LATER") \cup {e}
<1>1. PICK F \in [Evs -> SUBSET Flags] :
        /\ F = [b.flags EXCEPT ![e] = b.flags[e] \cup {"ACTIVE_LATER"}]
        /\ \A d : d.flags = F => /\ Flagged(d, "ACTIVE_LATER") = Flagged(b, "ACTIVE_LATER") \cup {e}
                                 /\ OnlyFlag(b, d, "ACTIVE_LATER")
  BY FourFlags, SetOf
<1>2. PICK s : s = Append(b.active_later_queue, e) OBVIOUS
<1>3. Holds(s, Flagged(b, "ACTIVE_LATER") \cup {e}) BY <1>2, Fields, Appended DEF QueuesOk
<1>4. s \in Seq(Evs) BY <1>3 DEF Holds
<1>5. ~Active(b, e) BY DEF Active, Flagged, Has
<1>6. c = [b EXCEPT !.flags = F, !.active_later_queue = s]
  BY <1>1, <1>2, <1>5 DEF QueueInsertActiveLater, Set, Bases
<1>7. c = PutQueues(b, F, b.activequeues, s, b.n_deferreds_queued)
  BY <1>6 DEF PutQueues, Bases
<1>8. b.activequeues \in [Prios -> Seq(Evs)] /\ b.n_deferreds_queued \in Nat BY Fields
<1>9. NewQueues(b, c, F, b.activequeues, s) BY <1>4, <1>7, <1>8, QueuesPut
<1>10. /\ c \in Bases /\ c.flags = F /\ c.activequeues = b.activequeues
       /\ c.active_later_queue = s
       /\ c.ev_res = b.ev_res /\ SameTurn(b, c)
       /\ c.ev_timeout = b.ev_timeout /\ c.common = b.common
       /\ c.timeheap = b.timeheap /\ c.common_list = b.common_list
  BY <1>9 DEF NewQueues
<1>11. /\ Flagged(c, "ACTIVE_LATER") = Flagged(b, "ACTIVE_LATER") \cup {e}
       /\ OnlyFlag(b, c, "ACTIVE_LATER")
  BY <1>1, <1>10
<1>12. /\ Flagged(c, "ACTIVE") = Flagged(b, "ACTIVE")
       /\ Flagged(c, "TIMEOUT") = Flagged(b, "TIMEOUT")
       /\ Flagged(c, "INSERTED") = Flagged(b, "INSERTED")
  BY <1>11, FourFlags DEF OnlyFlag
<1>13. QueuesOk(c) BY <1>3, <1>10, <1>11, <1>12 DEF QueuesOk
<1> QED BY <1>10, <1>11, <1>12, <1>13 DEF SameTimers, SameKinds

LEMMA LaterRemoved ==
  ASSUME NEW b \in Bases, NEW e \in Flagged(b, "ACTIVE_LATER"), QueuesOk(b),
         NEW c, c = QueueRemoveActiveLater(b, e)
  PROVE  /\ c \in Bases /\ SameTimers(b, c) /\ SameKinds(b, c) /\ SameTurn(b, c)
         /\ QueuesOk(c) /\ Flagged(c, "ACTIVE") = Flagged(b, "ACTIVE")
         /\ Flagged(c, "ACTIVE_LATER") = Flagged(b, "ACTIVE_LATER") \ {e}
<1>0. e \in Evs BY Fields
<1>1. PICK F \in [Evs -> SUBSET Flags] :
        /\ F = [b.flags EXCEPT ![e] = b.flags[e] \ {"ACTIVE_LATER"}]
        /\ \A d : d.flags = F => /\ Flagged(d, "ACTIVE_LATER") = Flagged(b, "ACTIVE_LATER") \ {e}
                                 /\ OnlyFlag(b, d, "ACTIVE_LATER")
  BY <1>0, FourFlags, ClearedOf
<1>2. PICK s : s = Unlink(b.active_later_queue, e) OBVIOUS
<1>3. Holds(s, Flagged(b, "ACTIVE_LATER") \ {e}) BY <1>2, Fields, Unlinked DEF QueuesOk
<1>4. s \in Seq(Evs) BY <1>3 DEF Holds
<1>6. c = [b EXCEPT !.flags = F, !.active_later_queue = s]
  BY <1>1, <1>2 DEF QueueRemoveActiveLater, Clear, Bases
<1>7. c = PutQueues(b, F, b.activequeues, s, b.n_deferreds_queued)
  BY <1>6 DEF PutQueues, Bases
<1>8. b.activequeues \in [Prios -> Seq(Evs)] /\ b.n_deferreds_queued \in Nat BY Fields
<1>9. NewQueues(b, c, F, b.activequeues, s) BY <1>4, <1>7, <1>8, QueuesPut
<1>10. /\ c \in Bases /\ c.flags = F /\ c.activequeues = b.activequeues
       /\ c.active_later_queue = s
       /\ c.ev_res = b.ev_res /\ SameTurn(b, c)
       /\ c.ev_timeout = b.ev_timeout /\ c.common = b.common
       /\ c.timeheap = b.timeheap /\ c.common_list = b.common_list
  BY <1>9 DEF NewQueues
<1>11. /\ Flagged(c, "ACTIVE_LATER") = Flagged(b, "ACTIVE_LATER") \ {e}
       /\ OnlyFlag(b, c, "ACTIVE_LATER")
  BY <1>1, <1>10
<1>12. /\ Flagged(c, "ACTIVE") = Flagged(b, "ACTIVE")
       /\ Flagged(c, "TIMEOUT") = Flagged(b, "TIMEOUT")
       /\ Flagged(c, "INSERTED") = Flagged(b, "INSERTED")
  BY <1>11, FourFlags DEF OnlyFlag
<1>13. QueuesOk(c) BY <1>3, <1>10, <1>11, <1>12 DEF QueuesOk
<1> QED BY <1>10, <1>11, <1>12, <1>13 DEF SameTimers, SameKinds

LEMMA MovedFlags ==
  ASSUME NEW b \in Bases, NEW e \in Evs
  PROVE  \E F \in [Evs -> SUBSET Flags] :
           /\ F = [b.flags EXCEPT ![e] = (b.flags[e] \ {"ACTIVE_LATER"}) \cup {"ACTIVE"}]
           /\ \A c : c.flags = F =>
                /\ Flagged(c, "ACTIVE") = Flagged(b, "ACTIVE") \cup {e}
                /\ Flagged(c, "ACTIVE_LATER") = Flagged(b, "ACTIVE_LATER") \ {e}
                /\ Flagged(c, "TIMEOUT") = Flagged(b, "TIMEOUT")
                /\ Flagged(c, "INSERTED") = Flagged(b, "INSERTED")
<1>1. PICK f \in [Evs -> SUBSET Flags] : f = b.flags BY Fields
<1>2. PICK F : F = [f EXCEPT ![e] = (f[e] \ {"ACTIVE_LATER"}) \cup {"ACTIVE"}] OBVIOUS
<1>3. F \in [Evs -> SUBSET Flags] BY <1>2 DEF Flags
<1>4. \A x \in Evs :
        F[x] = IF x = e THEN (f[e] \ {"ACTIVE_LATER"}) \cup {"ACTIVE"} ELSE f[x]
  BY <1>2
<1>5. /\ With(F, "ACTIVE") = With(f, "ACTIVE") \cup {e}
      /\ With(F, "ACTIVE_LATER") = With(f, "ACTIVE_LATER") \ {e}
      /\ With(F, "TIMEOUT") = With(f, "TIMEOUT") /\ With(F, "INSERTED") = With(f, "INSERTED")
  BY <1>4 DEF With
<1>6. ASSUME NEW c, c.flags = F
      PROVE  /\ Flagged(c, "ACTIVE") = Flagged(b, "ACTIVE") \cup {e}
             /\ Flagged(c, "ACTIVE_LATER") = Flagged(b, "ACTIVE_LATER") \ {e}
             /\ Flagged(c, "TIMEOUT") = Flagged(b, "TIMEOUT")
             /\ Flagged(c, "INSERTED") = Flagged(b, "INSERTED")
  <2>1. \A g : Flagged(c, g) = With(F, g) /\ Flagged(b, g) = With(f, g)
    BY <1>1, <1>6, FlaggedIs
  <2> QED BY <1>5, <2>1
<1> QED BY <1>1, <1>2, <1>3, <1>6

LEMMA FirstMadeActive ==
  ASSUME NEW b \in Bases, QueuesOk(b), b.active_later_queue # << >>,
         NEW c, c = MakeFirstActive(b)
  PROVE  /\ c \in Bases /\ SameTimers(b, c) /\ SameKinds(b, c) /\ SameTurn(b, c)
         /\ QueuesOk(c)
         /\ \E e \in Flagged(b, "ACTIVE_LATER") :
              /\ Flagged(c, "ACTIVE") = Flagged(b, "ACTIVE") \cup {e}
              /\ Flagged(c, "ACTIVE_LATER") = Flagged(b, "ACTIVE_LATER") \ {e}
<1>a. Holds(b.active_later_queue, Flagged(b, "ACTIVE_LATER")) BY DEF QueuesOk
<1>b. PICK e : e = Head(b.active_later_queue) OBVIOUS
<1>c. PICK l : l = Tail(b.active_later_queue) OBVIOUS
<1>d. e \in Flagged(b, "ACTIVE_LATER") /\ Holds(l, Flagged(b, "ACTIVE_LATER") \ {e})
  BY <1>a, <1>b, <1>c, Fields, Tailed
<1>0. e \in Evs BY <1>d, Fields
<1>1. PICK F \in [Evs -> SUBSET Flags] :
        /\ F = [b.flags EXCEPT ![e] = (b.flags[e] \ {"ACTIVE_LATER"}) \cup {"ACTIVE"}]
        /\ \A d : d.flags = F =>
             /\ Flagged(d, "ACTIVE") = Flagged(b, "ACTIVE") \cup {e}
             /\ Flagged(d, "ACTIVE_LATER") = Flagged(b, "ACTIVE_LATER") \ {e}
             /\ Flagged(d, "TIMEOUT") = Flagged(b, "TIMEOUT")
             /\ Flagged(d, "INSERTED") = Flagged(b, "INSERTED")
  BY <1>0, MovedFlags
<1>2. PICK p \in Prios : p = Prio(e) BY <1>0, Events
<1>3. PICK q : q = b.activequeues[p] OBVIOUS
<1>4. PICK s : s = Append(q, e) OBVIOUS
<1>5. PICK Q : Q = [b.activequeues EXCEPT ![p] = s] OBVIOUS
<1>6. PICK S \in SUBSET Evs : S = {x \in Flagged(b, "ACTIVE") : Prio(x) = p} BY Fields
<1>e. Holds(q, S) /\ q \in Seq(Evs) BY <1>3, <1>6 DEF QueuesOk, Holds
<1>f. e \notin Flagged(b, "ACTIVE") BY <1>d DEF QueuesOk
<1>g. Holds(s, S \cup {e}) BY <1>0, <1>4, <1>6, <1>e, <1>f, Appended
<1>h. s \in Seq(Evs) /\ l \in Seq(Evs) BY <1>d, <1>g DEF Holds
<1>7. Q \in [Prios -> Seq(Evs)] BY <1>5, <1>h, Fields
<1>i. PICK n \in Nat : n = IF e \in Deferred THEN b.n_deferreds_queued + 1
                           ELSE b.n_deferreds_queued
  BY Fields
<1>8. c = [b EXCEPT !.flags = F, !.activequeues = Q, !.n_deferreds_queued = n,
                    !.active_later_queue = l]
  BY <1>1, <1>2, <1>3, <1>4, <1>5, <1>b, <1>c, <1>i DEF MakeFirstActive, Bases
<1>9. c = PutQueues(b, F, Q, l, n) BY <1>8 DEF PutQueues, Bases
<1>k. NewQueues(b, c, F, Q, l) BY <1>7, <1>9, <1>h, QueuesPut
<1>10. /\ c \in Bases /\ c.flags = F /\ c.activequeues = Q /\ c.active_later_queue = l
       /\ c.ev_res = b.ev_res /\ SameTurn(b, c)
       /\ c.ev_timeout = b.ev_timeout /\ c.common = b.common
       /\ c.timeheap = b.timeheap /\ c.common_list = b.common_list
  BY <1>k DEF NewQueues
<1>11. /\ Flagged(c, "ACTIVE") = Flagged(b, "ACTIVE") \cup {e}
       /\ Flagged(c, "ACTIVE_LATER") = Flagged(b, "ACTIVE_LATER") \ {e}
       /\ Flagged(c, "TIMEOUT") = Flagged(b, "TIMEOUT")
       /\ Flagged(c, "INSERTED") = Flagged(b, "INSERTED")
  BY <1>1, <1>10
<1>13. QueuesOk(c)
  <2>1. ASSUME NEW r \in Prios
        PROVE  Holds(c.activequeues[r], {x \in Flagged(c, "ACTIVE") : Prio(x) = r})
    <3>1. CASE r = p
      <4>1. {x \in Flagged(c, "ACTIVE") : Prio(x) = p} = S \cup {e} BY <1>2, <1>6, <1>11
      <4>2. c.activequeues[r] = s BY <1>5, <1>10, <3>1, Fields
      <4> QED BY <1>g, <3>1, <4>1, <4>2
    <3>2. CASE r # p
      <4>1. {x \in Flagged(c, "ACTIVE") : Prio(x) = r} = {x \in Flagged(b, "ACTIVE") : Prio(x) = r}
        BY <1>2, <1>11, <3>2
      <4>2. c.activequeues[r] = b.activequeues[r] BY <1>5, <1>10, <3>2, Fields
      <4> QED BY <4>1, <4>2 DEF QueuesOk
    <3> QED BY <3>1, <3>2
  <2>2. Flagged(c, "ACTIVE") \cap Flagged(c, "ACTIVE_LATER") = {} BY <1>11 DEF QueuesOk
  <2> QED BY <1>10, <1>11, <1>d, <2>1, <2>2 DEF QueuesOk
<1> QED BY <1>10, <1>11, <1>13, <1>d DEF SameTimers, SameKinds

\* The flags and what the timers are kept in are replaced.
PutTimers(b, F, t, K, h, l) ==
  [b EXCEPT !.flags = F, !.ev_timeout = t, !.common = K, !.timeheap = h, !.common_list = l]

NewTimers(b, c, F, t, K, h, l) ==
  /\ c \in Bases /\ c.flags = F /\ c.ev_timeout = t /\ c.common = K
  /\ c.timeheap = h /\ c.common_list = l
  /\ c.ev_res = b.ev_res /\ SameTurn(b, c)
  /\ c.activequeues = b.activequeues /\ c.active_later_queue = b.active_later_queue

LEMMA TimersPut ==
  ASSUME NEW b \in Bases, NEW F \in [Evs -> SUBSET Flags], NEW t \in [Evs -> Ats],
         NEW K \in SUBSET Evs, NEW h \in Seq(Evs), NEW l \in Seq(Evs),
         NEW c, c = PutTimers(b, F, t, K, h, l)
  PROVE  NewTimers(b, c, F, t, K, h, l)
<1>1. c \in Bases BY DEF PutTimers, Bases
<1>2. /\ c.flags = F /\ c.ev_timeout = t /\ c.common = K
      /\ c.timeheap = h /\ c.common_list = l /\ c.ev_res = b.ev_res
      /\ c.activequeues = b.activequeues /\ c.active_later_queue = b.active_later_queue
  BY DEF PutTimers, Bases
<1>3. SameTurn(b, c) BY DEF PutTimers, Bases, SameTurn, SamePlace
<1> QED BY <1>1, <1>2, <1>3 DEF NewTimers

LEMMA TimeoutInserted ==
  ASSUME NEW b \in Bases, NEW e \in Evs, e \notin Flagged(b, "TIMEOUT"), TimersOk(b),
         NEW c, c = QueueInsertTimeout(b, e)
  PROVE  /\ c \in Bases /\ SameQueues(b, c) /\ SameKinds(b, c) /\ SameTurn(b, c)
         /\ TimersOk(c) /\ Flagged(c, "TIMEOUT") = Flagged(b, "TIMEOUT") \cup {e}
         /\ c.ev_timeout = b.ev_timeout /\ c.common = b.common
<1>1. PICK F \in [Evs -> SUBSET Flags] :
        /\ F = [b.flags EXCEPT ![e] = b.flags[e] \cup {"TIMEOUT"}]
        /\ \A d : d.flags = F => /\ Flagged(d, "TIMEOUT") = Flagged(b, "TIMEOUT") \cup {e}
                                 /\ OnlyFlag(b, d, "TIMEOUT")
  BY FourFlags, SetOf
<1>2. PICK h : h = IF e \in b.common THEN b.timeheap
                   ELSE HeapPush(b.timeheap, b.ev_timeout, e) OBVIOUS
<1>3. PICK l : l = IF e \in b.common THEN InsertInOrder(b, e) ELSE b.common_list OBVIOUS
<1>4. PICK T \in SUBSET Evs : T = Flagged(b, "TIMEOUT") BY Fields
<1>5. /\ Holds(b.timeheap, T \ b.common) /\ IsHeap(b.timeheap, b.ev_timeout)
      /\ Holds(b.common_list, T \cap b.common) /\ InTime(b.common_list, b.ev_timeout)
  BY <1>4 DEF TimersOk
<1>6. Holds(h, (T \cup {e}) \ b.common) /\ IsHeap(h, b.ev_timeout)
  <2>1. CASE e \in b.common
    <3>1. (T \cup {e}) \ b.common = T \ b.common BY <2>1
    <3> QED BY <1>2, <1>5, <2>1, <3>1
  <2>2. CASE e \notin b.common
    <3>1. PICK S \in SUBSET Evs : S = T \ b.common OBVIOUS
    <3>2. (T \cup {e}) \ b.common = S \cup {e} /\ e \notin S BY <1>4, <2>2, <3>1
    <3>3. /\ Holds(HeapPush(b.timeheap, b.ev_timeout, e), S \cup {e})
          /\ IsHeap(HeapPush(b.timeheap, b.ev_timeout, e), b.ev_timeout)
      BY <1>5, <3>1, <3>2, Fields, Pushed
    <3> QED BY <1>2, <2>2, <3>2, <3>3
  <2> QED BY <2>1, <2>2
<1>7. Holds(l, (T \cup {e}) \cap b.common) /\ InTime(l, b.ev_timeout)
  <2>1. CASE e \in b.common
    <3>1. PICK S \in SUBSET Evs : S = T \cap b.common OBVIOUS
    <3>2. (T \cup {e}) \cap b.common = S \cup {e} /\ e \notin S BY <1>4, <2>1, <3>1
    <3>3. /\ InTime(InsertInOrder(b, e), b.ev_timeout)
          /\ \E k : Opens(b.common_list, k, e, InsertInOrder(b, e))
      BY <1>5, Fields, InOrderOpens
    <3>4. PICK k : Opens(b.common_list, k, e, l) BY <1>3, <2>1, <3>3
    <3>5. Holds(l, S \cup {e}) BY <1>5, <3>1, <3>2, <3>4, Opened
    <3> QED BY <1>3, <2>1, <3>2, <3>3, <3>5
  <2>2. CASE e \notin b.common
    <3>1. (T \cup {e}) \cap b.common = T \cap b.common BY <2>2
    <3> QED BY <1>3, <1>5, <2>2, <3>1
  <2> QED BY <2>1, <2>2
<1>8. h \in Seq(Evs) /\ l \in Seq(Evs) BY <1>6, <1>7 DEF Holds
<1>9. c = PutTimers(b, F, b.ev_timeout, b.common, h, l)
  <2>1. PICK d : d = Set(b, e, "TIMEOUT") OBVIOUS
  <2>2. d = [b EXCEPT !.flags = F] BY <1>1, <2>1 DEF Set
  <2>3. d.ev_timeout = b.ev_timeout /\ d.common_list = b.common_list /\ d.timeheap = b.timeheap
    BY <2>2 DEF Bases
  <2>4. InsertInOrder(d, e) = InsertInOrder(b, e) BY <2>3 DEF InsertInOrder, NotLater
  <2>5. c = IF e \in b.common THEN [d EXCEPT !.common_list = InsertInOrder(d, e)]
            ELSE [d EXCEPT !.timeheap = HeapPush(d.timeheap, d.ev_timeout, e)]
    BY <2>1 DEF QueueInsertTimeout
  <2>6. CASE e \in b.common
    <3>1. c = [d EXCEPT !.common_list = l] /\ h = b.timeheap BY <1>2, <1>3, <2>4, <2>5, <2>6
    <3> QED BY <2>2, <3>1 DEF PutTimers, Bases
  <2>7. CASE e \notin b.common
    <3>1. c = [d EXCEPT !.timeheap = h] /\ l = b.common_list BY <1>2, <1>3, <2>3, <2>5, <2>7
    <3> QED BY <2>2, <3>1 DEF PutTimers, Bases
  <2> QED BY <2>6, <2>7
<1>10. NewTimers(b, c, F, b.ev_timeout, b.common, h, l) BY <1>8, <1>9, Fields, TimersPut
<1>11. /\ c \in Bases /\ c.flags = F /\ c.ev_timeout = b.ev_timeout /\ c.common = b.common
       /\ c.timeheap = h /\ c.common_list = l
       /\ c.ev_res = b.ev_res /\ SameTurn(b, c)
       /\ c.activequeues = b.activequeues /\ c.active_later_queue = b.active_later_queue
  BY <1>10 DEF NewTimers
<1>12. Flagged(c, "TIMEOUT") = T \cup {e} /\ OnlyFlag(b, c, "TIMEOUT") BY <1>1, <1>4, <1>11
<1>13. /\ Flagged(c, "ACTIVE") = Flagged(b, "ACTIVE")
       /\ Flagged(c, "ACTIVE_LATER") = Flagged(b, "ACTIVE_LATER")
       /\ Flagged(c, "INSERTED") = Flagged(b, "INSERTED")
  BY <1>12, FourFlags DEF OnlyFlag
<1>14. TimersOk(c) BY <1>6, <1>7, <1>11, <1>12 DEF TimersOk
<1> QED BY <1>4, <1>11, <1>12, <1>13, <1>14 DEF SameQueues, SameKinds

LEMMA TimeoutRemoved ==
  ASSUME NEW b \in Bases, NEW e \in Flagged(b, "TIMEOUT"), TimersOk(b),
         NEW c, c = QueueRemoveTimeout(b, e)
  PROVE  /\ c \in Bases /\ SameQueues(b, c) /\ SameKinds(b, c) /\ SameTurn(b, c)
         /\ TimersOk(c) /\ Flagged(c, "TIMEOUT") = Flagged(b, "TIMEOUT") \ {e}
         /\ c.ev_timeout = b.ev_timeout /\ c.common = b.common
<1>0. e \in Evs BY Fields
<1>1. PICK F \in [Evs -> SUBSET Flags] :
        /\ F = [b.flags EXCEPT ![e] = b.flags[e] \ {"TIMEOUT"}]
        /\ \A d : d.flags = F => /\ Flagged(d, "TIMEOUT") = Flagged(b, "TIMEOUT") \ {e}
                                 /\ OnlyFlag(b, d, "TIMEOUT")
  BY <1>0, FourFlags, ClearedOf
<1>2. PICK h : h = IF e \in b.common THEN b.timeheap
                   ELSE HeapErase(b.timeheap, b.ev_timeout, e) OBVIOUS
<1>3. PICK l : l = IF e \in b.common THEN Unlink(b.common_list, e) ELSE b.common_list OBVIOUS
<1>4. PICK T \in SUBSET Evs : T = Flagged(b, "TIMEOUT") BY Fields
<1>5. /\ Holds(b.timeheap, T \ b.common) /\ IsHeap(b.timeheap, b.ev_timeout)
      /\ Holds(b.common_list, T \cap b.common) /\ InTime(b.common_list, b.ev_timeout)
  BY <1>4 DEF TimersOk
<1>6. Holds(h, (T \ {e}) \ b.common) /\ IsHeap(h, b.ev_timeout)
  <2>1. CASE e \in b.common
    <3>1. (T \ {e}) \ b.common = T \ b.common BY <2>1
    <3> QED BY <1>2, <1>5, <2>1, <3>1
  <2>2. CASE e \notin b.common
    <3>1. PICK S \in SUBSET Evs : S = T \ b.common OBVIOUS
    <3>2. (T \ {e}) \ b.common = S \ {e} /\ e \in S BY <1>4, <2>2, <3>1
    <3>3. /\ Holds(HeapErase(b.timeheap, b.ev_timeout, e), S \ {e})
          /\ IsHeap(HeapErase(b.timeheap, b.ev_timeout, e), b.ev_timeout)
      BY <1>5, <3>1, <3>2, Fields, Erased
    <3> QED BY <1>2, <2>2, <3>2, <3>3
  <2> QED BY <2>1, <2>2
<1>7. Holds(l, (T \ {e}) \cap b.common) /\ InTime(l, b.ev_timeout)
  <2>1. CASE e \in b.common
    <3>1. PICK S \in SUBSET Evs : S = T \cap b.common OBVIOUS
    <3>2. (T \ {e}) \cap b.common = S \ {e} /\ e \in S BY <1>4, <2>1, <3>1
    <3>3. PICK k : Closes(b.common_list, k, l) BY <1>3, <1>5, <2>1, <3>1, <3>2, UnlinkCloses
    <3>4. Holds(l, S \ {e}) BY <1>3, <1>5, <2>1, <3>1, <3>2, Unlinked
    <3>5. InTime(l, b.ev_timeout) BY <1>5, <3>3, Fields, StillInTime
    <3> QED BY <3>2, <3>4, <3>5
  <2>2. CASE e \notin b.common
    <3>1. (T \ {e}) \cap b.common = T \cap b.common BY <2>2
    <3> QED BY <1>3, <1>5, <2>2, <3>1
  <2> QED BY <2>1, <2>2
<1>8. h \in Seq(Evs) /\ l \in Seq(Evs) BY <1>6, <1>7 DEF Holds
<1>9. c = PutTimers(b, F, b.ev_timeout, b.common, h, l)
  <2>1. PICK d : d = Clear(b, e, "TIMEOUT") OBVIOUS
  <2>2. d = [b EXCEPT !.flags = F] BY <1>1, <2>1 DEF Clear
  <2>3. d.ev_timeout = b.ev_timeout /\ d.common_list = b.common_list /\ d.timeheap = b.timeheap
    BY <2>2 DEF Bases
  <2>5. c = IF e \in b.common THEN [d EXCEPT !.common_list = Unlink(d.common_list, e)]
            ELSE [d EXCEPT !.timeheap = HeapErase(d.timeheap, d.ev_timeout, e)]
    BY <2>1 DEF QueueRemoveTimeout
  <2>6. CASE e \in b.common
    <3>1. c = [d EXCEPT !.common_list = l] /\ h = b.timeheap BY <1>2, <1>3, <2>3, <2>5, <2>6
    <3> QED BY <2>2, <3>1 DEF PutTimers, Bases
  <2>7. CASE e \notin b.common
    <3>1. c = [d EXCEPT !.timeheap = h] /\ l = b.common_list BY <1>2, <1>3, <2>3, <2>5, <2>7
    <3> QED BY <2>2, <3>1 DEF PutTimers, Bases
  <2> QED BY <2>6, <2>7
<1>10. NewTimers(b, c, F, b.ev_timeout, b.common, h, l) BY <1>8, <1>9, Fields, TimersPut
<1>11. /\ c \in Bases /\ c.flags = F /\ c.ev_timeout = b.ev_timeout /\ c.common = b.common
       /\ c.timeheap = h /\ c.common_list = l
       /\ c.ev_res = b.ev_res /\ SameTurn(b, c)
       /\ c.activequeues = b.activequeues /\ c.active_later_queue = b.active_later_queue
  BY <1>10 DEF NewTimers
<1>12. Flagged(c, "TIMEOUT") = T \ {e} /\ OnlyFlag(b, c, "TIMEOUT") BY <1>1, <1>4, <1>11
<1>13. /\ Flagged(c, "ACTIVE") = Flagged(b, "ACTIVE")
       /\ Flagged(c, "ACTIVE_LATER") = Flagged(b, "ACTIVE_LATER")
       /\ Flagged(c, "INSERTED") = Flagged(b, "INSERTED")
  BY <1>12, FourFlags DEF OnlyFlag
<1>14. TimersOk(c) BY <1>6, <1>7, <1>11, <1>12 DEF TimersOk
<1> QED BY <1>4, <1>11, <1>12, <1>13, <1>14 DEF SameQueues, SameKinds

PutTime(b, e, at, K) == [b EXCEPT !.ev_timeout[e] = at, !.common = K]

LEMMA TimeSet ==
  ASSUME NEW b \in Bases, NEW e \in Evs, e \notin Flagged(b, "TIMEOUT"), TimersOk(b),
         NEW at \in Ats, NEW K \in SUBSET Evs, K \ {e} = b.common \ {e},
         NEW c, c = PutTime(b, e, at, K)
  PROVE  /\ c \in Bases /\ SameQueues(b, c) /\ SameKinds(b, c) /\ SameTurn(b, c)
         /\ TimersOk(c) /\ Flagged(c, "TIMEOUT") = Flagged(b, "TIMEOUT")
         /\ c.ev_timeout = [b.ev_timeout EXCEPT ![e] = at] /\ c.common = K
<1>1. PICK t \in [Evs -> Ats] : t = [b.ev_timeout EXCEPT ![e] = at] BY Fields
<1>2. c = [b EXCEPT !.ev_timeout = t, !.common = K] BY <1>1 DEF PutTime
<1>3. c = PutTimers(b, b.flags, t, K, b.timeheap, b.common_list)
  BY <1>2 DEF PutTimers, Bases
<1>4. NewTimers(b, c, b.flags, t, K, b.timeheap, b.common_list) BY <1>3, Fields, TimersPut
<1>5. /\ c \in Bases /\ c.flags = b.flags /\ c.ev_timeout = t /\ c.common = K
      /\ c.timeheap = b.timeheap /\ c.common_list = b.common_list
      /\ c.ev_res = b.ev_res /\ SameTurn(b, c)
      /\ c.activequeues = b.activequeues /\ c.active_later_queue = b.active_later_queue
  BY <1>4 DEF NewTimers
<1>6. \A flag : Flagged(c, flag) = Flagged(b, flag) BY <1>5 DEF Flagged, Has
<1>7. PICK T \in SUBSET Evs : T = Flagged(b, "TIMEOUT") BY Fields
<1>8. T \ K = T \ b.common /\ T \cap K = T \cap b.common BY <1>7
<1>9. PICK h \in Seq(Evs) : h = b.timeheap BY Fields
<1>10. PICK l \in Seq(Evs) : l = b.common_list BY Fields
<1>11. \A k \in 1 .. Len(h) : h[k] \in Evs /\ h[k] # e
  BY <1>7, <1>9 DEF TimersOk, Holds, Lists
<1>12. \A k \in DOMAIN l : l[k] \in Evs /\ l[k] # e
  <2>1. Lists(l, T \cap b.common) BY <1>7, <1>10 DEF TimersOk, Holds
  <2> QED BY <1>7, <2>1 DEF Lists
<1>13. \A x \in Evs : x # e => t[x] = b.ev_timeout[x] BY <1>1, Fields
<1>14. IsHeap(h, t)
  <2> SUFFICES ASSUME NEW k \in 2 .. Len(h) PROVE t[h[k \div 2]] <= t[h[k]] BY DEF IsHeap
  <2>1. k \in 1 .. Len(h) /\ k \div 2 \in 1 .. Len(h) BY Halves
  <2>2. b.ev_timeout[h[k \div 2]] <= b.ev_timeout[h[k]] BY <1>9 DEF TimersOk, IsHeap
  <2> QED BY <1>11, <1>13, <2>1, <2>2
<1>15. InTime(l, t)
  <2>1. InTime(l, b.ev_timeout) BY <1>10 DEF TimersOk
  <2> QED BY <1>12, <1>13, <2>1 DEF InTime
<1>16. TimersOk(c) BY <1>5, <1>6, <1>7, <1>8, <1>9, <1>10, <1>14, <1>15 DEF TimersOk
<1> QED BY <1>1, <1>5, <1>6, <1>16 DEF SameQueues, SameKinds

---------------------------------------------------------------------------
(* One field                                                               *)

\* Nothing of what Sound looks at changes.
Alike(b, c) == c \in Bases /\ SameTimers(b, c) /\ SameQueues(b, c) /\ SameKinds(b, c)

LEMMA AlikeIs ==
  ASSUME NEW b \in Bases, NEW c \in Bases, c.flags = b.flags, c.ev_res = b.ev_res,
         c.ev_timeout = b.ev_timeout, c.common = b.common, c.timeheap = b.timeheap,
         c.common_list = b.common_list, c.activequeues = b.activequeues,
         c.active_later_queue = b.active_later_queue
  PROVE  Alike(b, c)
<1>1. \A flag : Flagged(c, flag) = Flagged(b, flag) BY DEF Flagged, Has
<1> QED BY <1>1 DEF Alike, SameTimers, SameQueues, SameKinds

LEMMA ContinueSet ==
  ASSUME NEW b \in Bases, NEW c, c = [b EXCEPT !.event_continue = TRUE]
  PROVE  /\ Alike(b, c) /\ SamePlace(b, c) /\ c.event_continue = TRUE
         /\ c.is_notify_pending = b.is_notify_pending /\ c.notify_fd = b.notify_fd
<1>1. c \in Bases BY DEF Bases
<1>2. Alike(b, c) BY <1>1, AlikeIs DEF Bases
<1>3. SamePlace(b, c) BY DEF Bases, SamePlace
<1> QED BY <1>2, <1>3 DEF Bases

LEMMA NotifySet ==
  ASSUME NEW b \in Bases, NEW c, c = [b EXCEPT !.is_notify_pending = TRUE, !.notify_fd = TRUE]
  PROVE  /\ Alike(b, c) /\ SamePlace(b, c) /\ c.event_continue = b.event_continue
         /\ c.is_notify_pending = TRUE /\ c.notify_fd = TRUE
<1>1. c \in Bases BY DEF Bases
<1>2. Alike(b, c) BY <1>1, AlikeIs DEF Bases
<1>3. SamePlace(b, c) BY DEF Bases, SamePlace
<1> QED BY <1>2, <1>3 DEF Bases

LEMMA CountSet ==
  ASSUME NEW b \in Bases, NEW n \in Nat, NEW c, c = [b EXCEPT !.n_deferreds_queued = n]
  PROVE  Alike(b, c) /\ SameTurn(b, c)
<1>1. c \in Bases BY DEF Bases
<1>2. Alike(b, c) BY <1>1, AlikeIs DEF Bases
<1>3. SameTurn(b, c) BY DEF Bases, SamePlace, SameTurn
<1> QED BY <1>2, <1>3

LEMMA IoTimeoutSet ==
  ASSUME NEW b \in Bases, NEW e \in Evs, NEW tv \in Delays,
         NEW c, c = [b EXCEPT !.ev_io_timeout[e] = tv]
  PROVE  Alike(b, c) /\ SameTurn(b, c)
<1>0. PICK f \in [Evs -> Delays] : f = [b.ev_io_timeout EXCEPT ![e] = tv] BY Fields
<1>a. c = [b EXCEPT !.ev_io_timeout = f] BY <1>0
<1>1. c \in Bases BY <1>a DEF Bases
<1>2. Alike(b, c) BY <1>a, <1>1, AlikeIs DEF Bases
<1>3. SameTurn(b, c) BY <1>a DEF Bases, SamePlace, SameTurn
<1> QED BY <1>2, <1>3

PutRes(b, e, R) == [b EXCEPT !.ev_res[e] = R]

LEMMA ResSet ==
  ASSUME NEW b \in Bases, NEW e \in Evs, NEW R \in SUBSET Causes, NEW c, c = PutRes(b, e, R)
  PROVE  /\ c \in Bases /\ SameTimers(b, c) /\ SameQueues(b, c) /\ SameTurn(b, c)
         /\ c.ev_res = [b.ev_res EXCEPT ![e] = R]
         /\ Flagged(c, "INSERTED") = Flagged(b, "INSERTED")
<1>0. PICK f \in [Evs -> SUBSET Causes] : f = [b.ev_res EXCEPT ![e] = R] BY Fields
<1>a. c = [b EXCEPT !.ev_res = f] BY <1>0 DEF PutRes
<1>1. c \in Bases BY <1>a DEF Bases
<1>2. /\ c.ev_res = f /\ c.flags = b.flags /\ c.ev_timeout = b.ev_timeout
      /\ c.common = b.common /\ c.timeheap = b.timeheap /\ c.common_list = b.common_list
      /\ c.activequeues = b.activequeues /\ c.active_later_queue = b.active_later_queue
  BY <1>a DEF Bases
<1>3. \A flag : Flagged(c, flag) = Flagged(b, flag) BY <1>2 DEF Flagged, Has
<1>4. SameTurn(b, c) BY <1>a DEF Bases, SamePlace, SameTurn
<1> QED BY <1>0, <1>1, <1>2, <1>3, <1>4 DEF SameTimers, SameQueues

LEMMA FlagsPut ==
  ASSUME NEW b \in Bases, NEW F \in [Evs -> SUBSET Flags], NEW c, c = [b EXCEPT !.flags = F]
  PROVE  NewQueues(b, c, F, b.activequeues, b.active_later_queue)
<1>1. c = PutQueues(b, F, b.activequeues, b.active_later_queue, b.n_deferreds_queued)
  BY DEF PutQueues, Bases
<1> QED BY <1>1, Fields, QueuesPut

\* What one of the two operations does to the events that are watched.
Watches(b, c, S) ==
  /\ c \in Bases /\ SameTimers(b, c) /\ SameQueues(b, c) /\ SameTurn(b, c)
  /\ c.ev_res = b.ev_res /\ Flagged(c, "INSERTED") = S

LEMMA WatchesIs ==
  ASSUME NEW b \in Bases, NEW F, NEW c, NewQueues(b, c, F, b.activequeues, b.active_later_queue),
         NEW S, Flagged(c, "INSERTED") = S, OnlyFlag(b, c, "INSERTED")
  PROVE  Watches(b, c, S)
<1>1. /\ c \in Bases /\ c.activequeues = b.activequeues
      /\ c.active_later_queue = b.active_later_queue
      /\ c.ev_res = b.ev_res /\ SameTurn(b, c)
      /\ c.ev_timeout = b.ev_timeout /\ c.common = b.common
      /\ c.timeheap = b.timeheap /\ c.common_list = b.common_list
  BY DEF NewQueues
<1>2. /\ Flagged(c, "ACTIVE_LATER") = Flagged(b, "ACTIVE_LATER")
      /\ Flagged(c, "TIMEOUT") = Flagged(b, "TIMEOUT")
      /\ Flagged(c, "ACTIVE") = Flagged(b, "ACTIVE")
  BY FourFlags DEF OnlyFlag
<1> QED BY <1>1, <1>2 DEF Watches, SameTimers, SameQueues

LEMMA IoInserted ==
  ASSUME NEW b \in Bases, NEW e \in Evs, NEW c, c = Set(b, e, "INSERTED")
  PROVE  Watches(b, c, Flagged(b, "INSERTED") \cup {e})
<1>1. PICK F \in [Evs -> SUBSET Flags] :
        /\ F = [b.flags EXCEPT ![e] = b.flags[e] \cup {"INSERTED"}]
        /\ \A d : d.flags = F => /\ Flagged(d, "INSERTED") = Flagged(b, "INSERTED") \cup {e}
                                 /\ OnlyFlag(b, d, "INSERTED")
  BY FourFlags, SetOf
<1>2. c = [b EXCEPT !.flags = F] BY <1>1 DEF Set
<1>3. NewQueues(b, c, F, b.activequeues, b.active_later_queue) BY <1>2, FlagsPut
<1>4. c.flags = F BY <1>3 DEF NewQueues
<1> QED BY <1>1, <1>3, <1>4, WatchesIs

LEMMA IoCleared ==
  ASSUME NEW b \in Bases, NEW e \in Evs, NEW c, c = Clear(b, e, "INSERTED")
  PROVE  Watches(b, c, Flagged(b, "INSERTED") \ {e})
<1>1. PICK F \in [Evs -> SUBSET Flags] :
        /\ F = [b.flags EXCEPT ![e] = b.flags[e] \ {"INSERTED"}]
        /\ \A d : d.flags = F => /\ Flagged(d, "INSERTED") = Flagged(b, "INSERTED") \ {e}
                                 /\ OnlyFlag(b, d, "INSERTED")
  BY FourFlags, ClearedOf
<1>2. c = [b EXCEPT !.flags = F] BY <1>1 DEF Clear
<1>3. NewQueues(b, c, F, b.activequeues, b.active_later_queue) BY <1>2, FlagsPut
<1>4. c.flags = F BY <1>3 DEF NewQueues
<1> QED BY <1>1, <1>3, <1>4, WatchesIs

---------------------------------------------------------------------------
(* What every function of the base does, whoever calls it                  *)

Busy(b)   == Flagged(b, "ACTIVE") \cup Flagged(b, "ACTIVE_LATER")
Used(b)   == Flagged(b, "TIMEOUT") \cup Flagged(b, "INSERTED") \cup Busy(b)
InHeap(b) == Flagged(b, "TIMEOUT") \ b.common
InList(b) == Flagged(b, "TIMEOUT") \cap b.common

\* CommonSet, in terms of the events that the common list holds.
ListSet(b) ==
  \/ InList(b) = {}
  \/ timeout_event \in Flagged(b, "ACTIVE")
  \/ /\ timeout_event \in Flagged(b, "TIMEOUT")
     /\ \A x \in InList(b) : b.ev_timeout[timeout_event] <= b.ev_timeout[x]
Keeps(b, c) == ListSet(b) => ListSet(c)

\* The notification is only ever given, and only Drained takes it back.
Tells(b, c) ==
  \/ c.is_notify_pending = b.is_notify_pending /\ c.notify_fd = b.notify_fd
  \/ c.is_notify_pending = TRUE /\ c.notify_fd = TRUE

\* An event that is more important than what runs ends the queue that runs.
Continues(b, c) ==
  /\ b.event_continue = TRUE => c.event_continue = TRUE
  /\ \/ c.event_continue = TRUE
     \/ \A f \in Users \ Deferred :
          f \in Flagged(c, "ACTIVE") =>
            f \in Flagged(b, "ACTIVE") \/ Prio(f) >= b.event_running_priority

\* Besides the events T, only internal ones come to be pending or active.
Does(b, c, T) ==
  /\ SamePlace(b, c) /\ Tells(b, c) /\ Continues(b, c)
  /\ Used(c) \subseteq Used(b) \cup T \cup Internal

\* A loop that sleeps is told, or has nothing new to do.
Told(b) == b.is_notify_pending = TRUE => b.notify_fd = TRUE
Quiet(b, c) == Busy(c) \subseteq Busy(b) /\ (InHeap(b) = {} => InHeap(c) = {})
Wakes(b, c) == Told(b) => c.notify_fd = TRUE \/ Quiet(b, c)

LEMMA DoesTwice ==
  ASSUME NEW b, NEW c, NEW d, NEW T, Does(b, c, T), Does(c, d, T)
  PROVE  Does(b, d, T)
<1>1. SamePlace(b, d) BY DEF Does, SamePlace
<1>2. Tells(b, d) BY DEF Does, Tells
<1>3. Continues(b, d) BY DEF Does, SamePlace, Continues
<1>4. Used(d) \subseteq Used(b) \cup T \cup Internal BY DEF Does
<1> QED BY <1>1, <1>2, <1>3, <1>4 DEF Does

LEMMA WakesTwice ==
  ASSUME NEW b, NEW c, NEW d, Wakes(b, c), Wakes(c, d), Tells(b, c), Tells(c, d)
  PROVE  Wakes(b, d)
<1> SUFFICES ASSUME Told(b) PROVE d.notify_fd = TRUE \/ Quiet(b, d) BY DEF Wakes
<1>1. Told(c) BY DEF Told, Tells
<1>2. CASE c.notify_fd = TRUE BY <1>2 DEF Tells
<1>3. CASE Quiet(b, c)
  <2>1. d.notify_fd = TRUE \/ Quiet(c, d) BY <1>1 DEF Wakes
  <2> QED BY <1>3, <2>1 DEF Quiet
<1> QED BY <1>2, <1>3 DEF Wakes

\* A step that only takes events off the lists.
LEMMA DoesLess ==
  ASSUME NEW b, NEW c, SameTurn(b, c), Used(c) \subseteq Used(b),
         Flagged(c, "ACTIVE") \subseteq Flagged(b, "ACTIVE")
  PROVE  Does(b, c, {})
<1>1. SamePlace(b, c) /\ Tells(b, c) /\ Continues(b, c)
  BY DEF SameTurn, Tells, Continues
<1> QED BY <1>1 DEF Does

LEMMA DoesMore ==
  ASSUME NEW b, NEW c, NEW T, Does(b, c, {})
  PROVE  Does(b, c, T)
BY DEF Does

LEMMA SoundAlike ==
  ASSUME NEW b, NEW t, Sound(b, t), NEW c, Alike(b, c), SamePlace(b, c)
  PROVE  /\ Sound(c, t) /\ Keeps(b, c) /\ Used(c) = Used(b) /\ Quiet(b, c)
         /\ Flagged(c, "ACTIVE") = Flagged(b, "ACTIVE")
<1>1. /\ c \in Bases /\ c.ev_timeout = b.ev_timeout /\ c.common = b.common
      /\ c.timeheap = b.timeheap /\ c.common_list = b.common_list
      /\ c.activequeues = b.activequeues /\ c.active_later_queue = b.active_later_queue
      /\ c.ev_res = b.ev_res /\ c.tv_cache = b.tv_cache
      /\ Flagged(c, "TIMEOUT") = Flagged(b, "TIMEOUT")
      /\ Flagged(c, "INSERTED") = Flagged(b, "INSERTED")
      /\ Flagged(c, "ACTIVE") = Flagged(b, "ACTIVE")
      /\ Flagged(c, "ACTIVE_LATER") = Flagged(b, "ACTIVE_LATER")
  BY DEF Alike, SameTimers, SameQueues, SameKinds, SamePlace
<1>2. TimersOk(c) BY <1>1 DEF Sound, TimersOk
<1>3. QueuesOk(c) BY <1>1 DEF Sound, QueuesOk
<1>4. KindsOk(c) BY <1>1 DEF Sound, KindsOk
<1>5. Elapsed(c, t) BY <1>1 DEF Sound, Elapsed
<1>6. Keeps(b, c) BY <1>1 DEF Keeps, ListSet, InList
<1>7. Used(c) = Used(b) /\ Quiet(b, c) BY <1>1 DEF Used, Busy, Quiet, InHeap
<1> QED BY <1>1, <1>2, <1>3, <1>4, <1>5, <1>6, <1>7 DEF Sound

LEMMA Notified ==
  ASSUME NEW b \in Bases, NEW need \in BOOLEAN, NEW c, c = Notify(b, need)
  PROVE  /\ Alike(b, c) /\ SamePlace(b, c) /\ c.event_continue = b.event_continue
         /\ Tells(b, c)
         /\ need = TRUE /\ Told(b) => c.notify_fd = TRUE
<1>1. b.is_notify_pending \in BOOLEAN BY Fields
<1>2. CASE need = FALSE \/ b.is_notify_pending = TRUE
  <2>1. c = b BY <1>2 DEF Notify
  <2>2. Alike(b, c) BY <2>1 DEF Alike, SameTimers, SameQueues, SameKinds
  <2> QED BY <1>2, <2>1, <2>2 DEF SamePlace, Tells, Told
<1>3. CASE need = TRUE /\ b.is_notify_pending = FALSE
  <2>1. c = [b EXCEPT !.is_notify_pending = TRUE, !.notify_fd = TRUE] BY <1>3 DEF Notify
  <2> QED BY <2>1, NotifySet DEF Tells
<1> QED BY <1>1, <1>2, <1>3

LEMMA NotifyDoes ==
  ASSUME NEW b, NEW t, Sound(b, t), NEW need \in BOOLEAN, NEW c, c = Notify(b, need)
  PROVE  /\ Sound(c, t) /\ Keeps(b, c) /\ Does(b, c, {}) /\ Alike(b, c)
         /\ need = TRUE /\ Told(b) => c.notify_fd = TRUE
<1>1. b \in Bases BY DEF Sound
<1>2. /\ Alike(b, c) /\ SamePlace(b, c) /\ c.event_continue = b.event_continue
      /\ Tells(b, c) /\ (need = TRUE /\ Told(b) => c.notify_fd = TRUE)
  BY <1>1, Notified
<1>3. /\ Sound(c, t) /\ Keeps(b, c) /\ Used(c) = Used(b)
      /\ Flagged(c, "ACTIVE") = Flagged(b, "ACTIVE")
  BY <1>2, SoundAlike
<1>4. Continues(b, c) BY <1>2, <1>3 DEF Continues
<1> QED BY <1>2, <1>3, <1>4 DEF Does

\* A deferred callback may start behind an event that is more important.
MayRun(b, e) ==
  e \in Users \ Deferred => b.event_continue = TRUE \/ Prio(e) >= b.event_running_priority
IsElapsed(b, e, t) ==
  e \in Users \ Exits /\ "TIMEOUT" \in b.ev_res[e] => b.ev_timeout[e] <= t

Activated(b, c, e, t, need) ==
  /\ Sound(c, t) /\ Does(b, c, {e}) /\ Keeps(b, c)
  /\ need = TRUE => Wakes(b, c)
  /\ SameTimers(b, c) /\ SameKinds(b, c) /\ Flagged(c, "ACTIVE") = Flagged(b, "ACTIVE") \cup {e}
  /\ Flagged(c, "ACTIVE_LATER") = Flagged(b, "ACTIVE_LATER") \ {e}

LEMMA CallbackActivated ==
  ASSUME NEW b, NEW t, Sound(b, t), NEW e \in Evs, NEW need \in BOOLEAN,
         MayRun(b, e), IsElapsed(b, e, t), NEW c, c = CallbackActivate(b, e, need)
  PROVE  Activated(b, c, e, t, need)
<1>0. /\ b \in Bases /\ TimersOk(b) /\ QueuesOk(b) /\ KindsOk(b) /\ Elapsed(b, t)
  BY DEF Sound
<1>1. CASE e \in Flagged(b, "ACTIVE")
  <2>1. c = b BY <1>1 DEF CallbackActivate, Flagged
  <2>2. /\ SamePlace(b, c) /\ Tells(b, c) /\ Continues(b, c) /\ Keeps(b, c)
        /\ SameTimers(b, c) /\ SameKinds(b, c)
    BY <2>1 DEF SamePlace, Tells, Continues, Keeps, SameTimers, SameKinds
  <2>3. Does(b, c, {e}) /\ Wakes(b, c) BY <2>1, <2>2 DEF Does, Wakes, Quiet
  <2>4. e \notin Flagged(b, "ACTIVE_LATER") BY <1>0, <1>1 DEF QueuesOk
  <2> QED BY <1>1, <2>1, <2>2, <2>3, <2>4 DEF Activated
<1>2. CASE e \notin Flagged(b, "ACTIVE")
  <2>1. PICK d : d = IF Has(b, e, "ACTIVE_LATER") THEN QueueRemoveActiveLater(b, e) ELSE b
    OBVIOUS
  <2>2. /\ d \in Bases /\ SameTimers(b, d) /\ SameKinds(b, d) /\ SameTurn(b, d)
        /\ QueuesOk(d) /\ Flagged(d, "ACTIVE") = Flagged(b, "ACTIVE")
        /\ Flagged(d, "ACTIVE_LATER") = Flagged(b, "ACTIVE_LATER") \ {e}
    <3>1. CASE e \in Flagged(b, "ACTIVE_LATER")
      <4>1. d = QueueRemoveActiveLater(b, e) BY <2>1, <3>1 DEF Flagged
      <4> QED BY <1>0, <3>1, <4>1, LaterRemoved
    <3>2. CASE e \notin Flagged(b, "ACTIVE_LATER")
      <4>1. d = b BY <2>1, <3>2 DEF Flagged
      <4> QED BY <1>0, <3>2, <4>1 DEF SameTimers, SameKinds, SameTurn, SamePlace
    <3> QED BY <3>1, <3>2
  <2>3. PICK f : f = QueueInsertActive(d, e) OBVIOUS
  <2>4. /\ f \in Bases /\ SameTimers(d, f) /\ SameKinds(d, f) /\ SameTurn(d, f)
        /\ QueuesOk(f) /\ Flagged(f, "ACTIVE") = Flagged(d, "ACTIVE") \cup {e}
        /\ Flagged(f, "ACTIVE_LATER") = Flagged(d, "ACTIVE_LATER")
    <3>1. e \notin Flagged(d, "ACTIVE") /\ e \notin Flagged(d, "ACTIVE_LATER") BY <1>2, <2>2
    <3> QED BY <2>2, <2>3, <3>1, ActiveInserted
  <2>5. c = Notify(f, need)
    <3>1. ~Has(b, e, "ACTIVE") BY <1>2 DEF Flagged
    <3> QED BY <2>1, <2>3, <3>1 DEF CallbackActivate
  <2>6. /\ SameTimers(b, f) /\ SameKinds(b, f) /\ SameTurn(b, f)
        /\ Flagged(f, "ACTIVE") = Flagged(b, "ACTIVE") \cup {e}
        /\ Flagged(f, "ACTIVE_LATER") = Flagged(b, "ACTIVE_LATER") \ {e}
    BY <2>2, <2>4 DEF SameTimers, SameKinds, SameTurn, SamePlace
  <2>7. TimersOk(f) BY <1>0, <2>6 DEF TimersOk, SameTimers
  <2>8. KindsOk(f) BY <1>0, <2>6 DEF KindsOk, SameTimers, SameKinds
  <2>9. Elapsed(f, t)
    BY <1>0, <2>6 DEF Elapsed, IsElapsed, SameTimers, SameKinds, SameTurn, SamePlace
  <2>10. Sound(f, t) BY <2>4, <2>7, <2>8, <2>9 DEF Sound
  <2>11. Keeps(b, f) BY <2>6 DEF Keeps, ListSet, InList, SameTimers
  <2>12. Does(b, f, {e})
    <3>1. SamePlace(b, f) /\ Tells(b, f) BY <2>6 DEF SameTurn, Tells
    <3>2. Continues(b, f) BY <2>6 DEF Continues, MayRun, SameTurn
    <3>3. Used(f) \subseteq Used(b) \cup {e} \cup Internal
      BY <2>6 DEF Used, Busy, SameTimers, SameKinds
    <3> QED BY <3>1, <3>2, <3>3 DEF Does
  <2>13. /\ Sound(c, t) /\ Keeps(f, c) /\ Does(f, c, {}) /\ Alike(f, c)
         /\ need = TRUE /\ Told(f) => c.notify_fd = TRUE
    BY <2>5, <2>10, NotifyDoes
  <2>14. Does(b, c, {e}) BY <2>12, <2>13, DoesTwice, DoesMore
  <2>15. need = TRUE => Wakes(b, c)
    <3>1. Told(b) => Told(f) BY <2>6 DEF Told, SameTurn
    <3> QED BY <2>13, <3>1 DEF Wakes
  <2>16. /\ SameTimers(b, c) /\ SameKinds(b, c)
         /\ Flagged(c, "ACTIVE") = Flagged(b, "ACTIVE") \cup {e}
         /\ Flagged(c, "ACTIVE_LATER") = Flagged(b, "ACTIVE_LATER") \ {e}
    BY <2>6, <2>13 DEF Alike, SameTimers, SameKinds, SameQueues
  <2> QED BY <2>11, <2>13, <2>14, <2>15, <2>16 DEF Activated, Keeps
<1> QED BY <1>1, <1>2

Raised(b, c, e, t, need) ==
  /\ Sound(c, t) /\ Does(b, c, {e}) /\ Keeps(b, c)
  /\ need = TRUE => Wakes(b, c)
  /\ SameTimers(b, c) /\ Flagged(c, "ACTIVE") = Flagged(b, "ACTIVE") \cup {e}
MayRaise(b, e, res, t) == e \in Users \ Exits /\ "TIMEOUT" \in res => b.ev_timeout[e] <= t

LEMMA EventActivated ==
  ASSUME NEW b, NEW t, Sound(b, t), NEW e \in Evs \ Deferred, NEW res \in SUBSET Causes,
         NEW need \in BOOLEAN, MayRaise(b, e, res, t),
         NEW c, c = EventActiveNolock(b, e, res, need)
  PROVE  Raised(b, c, e, t, need)
<1>0. /\ b \in Bases /\ TimersOk(b) /\ QueuesOk(b) /\ KindsOk(b) /\ Elapsed(b, t)
  BY DEF Sound
<1>1. PICK R \in SUBSET Causes : R = IF Active(b, e) THEN b.ev_res[e] \cup res ELSE res
  BY <1>0, Fields
<1>2. e \notin Flagged(b, "ACTIVE_LATER") BY <1>0 DEF KindsOk
<1>3. Active(b, e) <=> e \in Flagged(b, "ACTIVE") BY <1>2 DEF Active, Flagged, Has
<1>4. PICK c1 : c1 = PutRes(b, e, R) OBVIOUS
<1>5. /\ c1 \in Bases /\ SameTimers(b, c1) /\ SameQueues(b, c1) /\ SameTurn(b, c1)
      /\ c1.ev_res = [b.ev_res EXCEPT ![e] = R]
      /\ Flagged(c1, "INSERTED") = Flagged(b, "INSERTED")
  BY <1>0, <1>4, ResSet
<1>6. \A x \in Evs : c1.ev_res[x] = IF x = e THEN R ELSE b.ev_res[x] BY <1>0, <1>5, Fields
<1>7. IsElapsed(c1, e, t)
  <2>1. b.ev_timeout = c1.ev_timeout /\ c1.ev_res[e] = R BY <1>5, <1>6 DEF SameTimers
  <2>2. e \in Flagged(b, "ACTIVE") /\ e \in Users \ Exits /\ "TIMEOUT" \in b.ev_res[e]
          => b.ev_timeout[e] <= t
    BY <1>0 DEF Elapsed
  <2> QED BY <1>1, <1>3, <2>1, <2>2 DEF IsElapsed, MayRaise
<1>8. Sound(c1, t)
  <2>1. TimersOk(c1) BY <1>0, <1>5 DEF TimersOk, SameTimers
  <2>2. QueuesOk(c1) BY <1>0, <1>5 DEF QueuesOk, SameQueues
  <2>3. KindsOk(c1)
    <3>1. \A x \in Deferred : c1.ev_res[x] = {} BY <1>0, <1>6, Events DEF KindsOk
    <3> QED BY <1>0, <1>5, <3>1 DEF KindsOk, SameTimers, SameQueues
  <2>4. Elapsed(c1, t)
    <3>1. c1.tv_cache = b.tv_cache /\ c1.ev_timeout = b.ev_timeout
      BY <1>5 DEF SameTimers, SameTurn, SamePlace
    <3>2. ASSUME NEW x \in Users \ Exits, x \in Flagged(c1, "ACTIVE"), "TIMEOUT" \in c1.ev_res[x]
          PROVE  c1.ev_timeout[x] <= t
      <4>1. x \in Evs /\ x \in Flagged(b, "ACTIVE") BY <1>5, <3>2, Events DEF SameQueues
      <4>2. CASE x = e BY <1>7, <3>2, <4>2 DEF IsElapsed
      <4>3. CASE x # e
        <5>1. "TIMEOUT" \in b.ev_res[x] BY <1>6, <3>2, <4>1, <4>3
        <5> QED BY <1>0, <3>1, <4>1, <5>1 DEF Elapsed
      <4> QED BY <4>2, <4>3
    <3> QED BY <1>0, <3>1, <3>2 DEF Elapsed
  <2> QED BY <1>5, <2>1, <2>2, <2>3, <2>4 DEF Sound
<1>9. /\ Does(b, c1, {}) /\ Keeps(b, c1) /\ Quiet(b, c1)
      /\ Flagged(c1, "ACTIVE") = Flagged(b, "ACTIVE")
  <2>1. Used(c1) = Used(b) /\ Flagged(c1, "ACTIVE") = Flagged(b, "ACTIVE")
    BY <1>5 DEF Used, Busy, SameTimers, SameQueues
  <2>2. Does(b, c1, {}) BY <1>5, <2>1, DoesLess
  <2>3. Keeps(b, c1) BY <1>5 DEF Keeps, ListSet, InList, SameTimers, SameQueues
  <2>4. Quiet(b, c1) BY <1>5 DEF Quiet, Busy, InHeap, SameTimers, SameQueues
  <2> QED BY <2>1, <2>2, <2>3, <2>4
<1>10. CASE e \in Flagged(b, "ACTIVE")
  <2>1. c = c1
    <3>1. Has(b, e, "ACTIVE") BY <1>10 DEF Flagged
    <3> QED BY <1>1, <1>4, <3>1 DEF EventActiveNolock, PutRes
  <2>2. Does(b, c, {e}) /\ Wakes(b, c) BY <1>9, <2>1, DoesMore DEF Wakes
  <2> QED BY <1>5, <1>8, <1>9, <1>10, <2>1, <2>2 DEF Raised
<1>11. CASE e \notin Flagged(b, "ACTIVE")
  <2>1. PICK d : d = IF Prio(e) < b.event_running_priority
                     THEN [c1 EXCEPT !.event_continue = TRUE] ELSE c1 OBVIOUS
  <2>2. c = CallbackActivate(d, e, need)
    <3>1. ~Has(b, e, "ACTIVE") BY <1>11 DEF Flagged
    <3> QED BY <1>1, <1>4, <2>1, <3>1 DEF EventActiveNolock, PutRes
  <2>3. Alike(c1, d) /\ SamePlace(c1, d) /\ Tells(c1, d) /\ MayRun(d, e)
        /\ (c1.event_continue = TRUE => d.event_continue = TRUE)
    <3>1. c1.event_running_priority = b.event_running_priority
      BY <1>5 DEF SameTurn, SamePlace
    <3>2. CASE Prio(e) < b.event_running_priority
      <4>1. d = [c1 EXCEPT !.event_continue = TRUE] BY <2>1, <3>2
      <4> QED BY <1>5, <4>1, ContinueSet DEF Tells, MayRun
    <3>3. CASE ~(Prio(e) < b.event_running_priority)
      <4>1. d = c1 BY <2>1, <3>3
      <4>2. Prio(e) >= b.event_running_priority BY <1>0, <3>3, Events, Fields
      <4> QED BY <1>5, <3>1, <4>1, <4>2
          DEF Alike, SameTimers, SameQueues, SameKinds, SamePlace, Tells, MayRun
    <3> QED BY <3>2, <3>3
  <2>4. /\ Sound(d, t) /\ Keeps(c1, d) /\ Used(d) = Used(c1) /\ Quiet(c1, d)
        /\ Flagged(d, "ACTIVE") = Flagged(c1, "ACTIVE")
    BY <1>8, <2>3, SoundAlike
  <2>5. Does(c1, d, {}) BY <2>3, <2>4 DEF Does, Continues
  <2>6. IsElapsed(d, e, t) BY <1>7, <2>3 DEF IsElapsed, Alike, SameTimers, SameKinds
  <2>7. Activated(d, c, e, t, need) BY <2>2, <2>3, <2>4, <2>6, CallbackActivated
  <2>8. /\ Sound(c, t) /\ Does(d, c, {e}) /\ Keeps(d, c) /\ (need = TRUE => Wakes(d, c))
        /\ SameTimers(d, c) /\ Flagged(c, "ACTIVE") = Flagged(d, "ACTIVE") \cup {e}
    BY <2>7 DEF Activated
  <2>9. Does(b, d, {}) BY <1>9, <2>5, DoesTwice
  <2>10. Does(b, c, {e}) BY <2>8, <2>9, DoesMore, DoesTwice
  <2>11. Keeps(b, c) BY <1>9, <2>4, <2>8 DEF Keeps
  <2>12. need = TRUE => Wakes(b, c)
    <3>1. Wakes(b, d) BY <1>9, <2>4 DEF Wakes, Quiet
    <3>2. Tells(b, d) /\ Tells(d, c) BY <2>8, <2>9 DEF Does
    <3> QED BY <2>8, <3>1, <3>2, WakesTwice
  <2>13. SameTimers(b, c) BY <1>5, <2>3, <2>8 DEF Alike, SameTimers
  <2>14. Flagged(c, "ACTIVE") = Flagged(b, "ACTIVE") \cup {e} BY <1>9, <2>4, <2>8
  <2>15. Sound(c, t) BY <2>8
  <2> QED BY <2>10, <2>11, <2>12, <2>13, <2>14, <2>15 DEF Raised
<1> QED BY <1>10, <1>11

LEMMA DeferredScheduled ==
  ASSUME NEW b, NEW t, Sound(b, t), NEW e \in Deferred, NEW need \in BOOLEAN,
         NEW c, c = DeferredSchedule(b, e, need)
  PROVE  /\ Sound(c, t) /\ Does(b, c, {e}) /\ Keeps(b, c)
         /\ need = TRUE => Wakes(b, c)
<1>0. /\ b \in Bases /\ TimersOk(b) /\ QueuesOk(b) /\ KindsOk(b) /\ Elapsed(b, t)
  BY DEF Sound
<1>1. e \in Evs /\ e \in Users BY Events
<1>2. Active(b, e) <=> e \in Busy(b) BY <1>1 DEF Active, Busy, Flagged, Has
<1>3. CASE b.n_deferreds_queued > MaxDeferreds /\ e \in Busy(b)
  <2>1. c = b BY <1>2, <1>3 DEF DeferredSchedule
  <2>2. SamePlace(b, c) /\ Tells(b, c) /\ Continues(b, c) /\ Keeps(b, c)
    BY <2>1 DEF SamePlace, Tells, Continues, Keeps
  <2> QED BY <2>1, <2>2 DEF Does, Wakes, Quiet
<1>4. CASE b.n_deferreds_queued > MaxDeferreds /\ e \notin Busy(b)
  <2>1. PICK d : d = QueueInsertActiveLater(b, e) OBVIOUS
  <2>2. c = Notify(d, need) BY <1>2, <1>4, <2>1 DEF DeferredSchedule
  <2>3. /\ d \in Bases /\ SameTimers(b, d) /\ SameKinds(b, d) /\ SameTurn(b, d)
        /\ QueuesOk(d) /\ Flagged(d, "ACTIVE") = Flagged(b, "ACTIVE")
        /\ Flagged(d, "ACTIVE_LATER") = Flagged(b, "ACTIVE_LATER") \cup {e}
    BY <1>0, <1>1, <1>4, <2>1, LaterInserted DEF Busy
  <2>4. TimersOk(d) BY <1>0, <2>3 DEF TimersOk, SameTimers
  <2>5. KindsOk(d) BY <1>0, <2>3 DEF KindsOk, SameTimers, SameKinds
  <2>6. Elapsed(d, t) BY <1>0, <2>3 DEF Elapsed, SameTimers, SameKinds, SameTurn, SamePlace
  <2>7. Sound(d, t) BY <2>3, <2>4, <2>5, <2>6 DEF Sound
  <2>8. Keeps(b, d) BY <2>3 DEF Keeps, ListSet, InList, SameTimers
  <2>9. Does(b, d, {e})
    <3>1. SamePlace(b, d) /\ Tells(b, d) BY <2>3 DEF SameTurn, Tells
    <3>2. Continues(b, d) BY <2>3 DEF Continues, SameTurn
    <3>3. Used(d) \subseteq Used(b) \cup {e} \cup Internal
      BY <2>3 DEF Used, Busy, SameTimers, SameKinds
    <3> QED BY <3>1, <3>2, <3>3 DEF Does
  <2>10. /\ Sound(c, t) /\ Keeps(d, c) /\ Does(d, c, {})
         /\ (need = TRUE /\ Told(d) => c.notify_fd = TRUE)
    BY <2>2, <2>7, NotifyDoes
  <2>11. Does(b, c, {e}) BY <2>9, <2>10, DoesTwice, DoesMore
  <2>12. need = TRUE => Wakes(b, c)
    <3>1. Told(b) => Told(d) BY <2>3 DEF Told, SameTurn
    <3> QED BY <2>10, <3>1 DEF Wakes
  <2> QED BY <2>8, <2>10, <2>11, <2>12 DEF Keeps
<1>5. CASE ~(b.n_deferreds_queued > MaxDeferreds)
  <2>1. PICK d : d = CallbackActivate(b, e, need) OBVIOUS
  <2>2. MayRun(b, e) BY DEF MayRun
  <2>3. IsElapsed(b, e, t) BY <1>0 DEF IsElapsed, KindsOk
  <2>4. Activated(b, d, e, t, need) BY <1>1, <2>1, <2>2, <2>3, CallbackActivated
  <2>5. Sound(d, t) /\ Does(b, d, {e}) /\ Keeps(b, d) /\ (need = TRUE => Wakes(b, d))
    BY <2>4 DEF Activated
  <2>6. d \in Bases BY <2>5 DEF Sound
  <2>7. c = d \/ c = [d EXCEPT !.n_deferreds_queued = d.n_deferreds_queued + 1]
    BY <1>5, <2>1 DEF DeferredSchedule
  <2>8. CASE c = d BY <2>5, <2>8
  <2>9. CASE c = [d EXCEPT !.n_deferreds_queued = d.n_deferreds_queued + 1]
    <3>1. PICK n \in Nat : n = d.n_deferreds_queued + 1 BY <2>6, Fields
    <3>2. Alike(d, c) /\ SameTurn(d, c) BY <2>6, <2>9, <3>1, CountSet
    <3>3. SamePlace(d, c) BY <3>2 DEF SameTurn
    <3>4. /\ Sound(c, t) /\ Keeps(d, c) /\ Used(c) = Used(d) /\ Quiet(d, c)
          /\ Flagged(c, "ACTIVE") = Flagged(d, "ACTIVE")
      BY <2>5, <3>2, <3>3, SoundAlike
    <3>5. Does(d, c, {}) BY <3>2, <3>4, DoesLess
    <3>6. Does(b, c, {e}) BY <2>5, <3>5, DoesMore, DoesTwice
    <3>7. Tells(b, d) /\ Tells(d, c) BY <2>5, <3>5 DEF Does
    <3>8. Wakes(d, c) BY <3>4 DEF Wakes
    <3>9. need = TRUE => Wakes(b, c) BY <2>5, <3>7, <3>8, WakesTwice
    <3> QED BY <2>5, <3>4, <3>6, <3>9 DEF Keeps
  <2> QED BY <2>7, <2>8, <2>9
<1> QED BY <1>3, <1>4, <1>5

---------------------------------------------------------------------------
(* Deleting                                                                *)

\* Events leave the lists, and nothing else happens to them.
Less(b, c) ==
  /\ c.ev_res = b.ev_res /\ c.ev_timeout = b.ev_timeout /\ c.common = b.common
  /\ Flagged(c, "TIMEOUT") \subseteq Flagged(b, "TIMEOUT")
  /\ Flagged(c, "INSERTED") \subseteq Flagged(b, "INSERTED")
  /\ Flagged(c, "ACTIVE") \subseteq Flagged(b, "ACTIVE")
  /\ Flagged(c, "ACTIVE_LATER") \subseteq Flagged(b, "ACTIVE_LATER")
SameFor(b, c, e) ==
  /\ e \in Flagged(b, "TIMEOUT") => e \in Flagged(c, "TIMEOUT")
  /\ e \in Flagged(b, "ACTIVE") => e \in Flagged(c, "ACTIVE")

LEMMA SoundLess ==
  ASSUME NEW b, NEW t, Sound(b, t), NEW c \in Bases, TimersOk(c), QueuesOk(c),
         c.tv_cache = b.tv_cache, Less(b, c)
  PROVE  /\ Sound(c, t) /\ Quiet(b, c) /\ Used(c) \subseteq Used(b)
         /\ SameFor(b, c, timeout_event) => Keeps(b, c)
<1>0. KindsOk(b) /\ Elapsed(b, t) BY DEF Sound
<1>1. KindsOk(c) BY <1>0 DEF KindsOk, Less
<1>2. Elapsed(c, t) BY <1>0 DEF Elapsed, Less
<1>3. Sound(c, t) BY <1>1, <1>2 DEF Sound
<1>4. Quiet(b, c) /\ Used(c) \subseteq Used(b) BY DEF Less, Quiet, Busy, InHeap, Used
<1>5. SameFor(b, c, timeout_event) => Keeps(b, c) BY DEF SameFor, Keeps, ListSet, InList, Less
<1> QED BY <1>3, <1>4, <1>5

Freed(b, c, e) ==
  /\ c \in Bases /\ SameTimers(b, c) /\ SameKinds(b, c) /\ SameTurn(b, c) /\ QueuesOk(c)
  /\ Flagged(c, "ACTIVE") = Flagged(b, "ACTIVE") \ {e}
  /\ Flagged(c, "ACTIVE_LATER") = Flagged(b, "ACTIVE_LATER") \ {e}

LEMMA RemovedFromActive ==
  ASSUME NEW b \in Bases, QueuesOk(b), NEW e \in Evs, NEW c, c = RemoveFromActive(b, e)
  PROVE  Freed(b, c, e)
<1>1. CASE e \in Flagged(b, "ACTIVE")
  <2>1. c = QueueRemoveActive(b, e) BY <1>1 DEF RemoveFromActive, Flagged
  <2>2. e \notin Flagged(b, "ACTIVE_LATER") BY <1>1 DEF QueuesOk
  <2> QED BY <1>1, <2>1, <2>2, ActiveRemoved DEF Freed
<1>2. CASE e \in Flagged(b, "ACTIVE_LATER")
  <2>1. e \notin Flagged(b, "ACTIVE") BY <1>2 DEF QueuesOk
  <2>2. c = QueueRemoveActiveLater(b, e) BY <1>2, <2>1 DEF RemoveFromActive, Flagged
  <2> QED BY <1>2, <2>1, <2>2, LaterRemoved DEF Freed
<1>3. CASE e \notin Flagged(b, "ACTIVE") /\ e \notin Flagged(b, "ACTIVE_LATER")
  <2>1. c = b BY <1>3 DEF RemoveFromActive, Flagged
  <2> QED BY <1>3, <2>1 DEF Freed, SameTimers, SameKinds, SameTurn, SamePlace
<1> QED BY <1>1, <1>2, <1>3

LEMMA Cancelled ==
  ASSUME NEW b, NEW t, Sound(b, t), NEW e \in Evs, NEW c, c = RemoveFromActive(b, e)
  PROVE  /\ Sound(c, t) /\ Does(b, c, {}) /\ Wakes(b, c)
         /\ e # timeout_event => Keeps(b, c)
         /\ e \in Deferred => e \notin Used(c)
<1>0. b \in Bases /\ TimersOk(b) /\ QueuesOk(b) /\ KindsOk(b) BY DEF Sound
<1>1. Freed(b, c, e) BY <1>0, RemovedFromActive
<1>2. /\ c \in Bases /\ SameTimers(b, c) /\ SameKinds(b, c) /\ SameTurn(b, c) /\ QueuesOk(c)
      /\ Flagged(c, "ACTIVE") = Flagged(b, "ACTIVE") \ {e}
      /\ Flagged(c, "ACTIVE_LATER") = Flagged(b, "ACTIVE_LATER") \ {e}
  BY <1>1 DEF Freed
<1>3. TimersOk(c) BY <1>0, <1>2 DEF TimersOk, SameTimers
<1>4. Less(b, c) BY <1>2 DEF Less, SameTimers, SameKinds
<1>5. c.tv_cache = b.tv_cache BY <1>2 DEF SameTurn, SamePlace
<1>6. /\ Sound(c, t) /\ Quiet(b, c) /\ Used(c) \subseteq Used(b)
      /\ SameFor(b, c, timeout_event) => Keeps(b, c)
  BY <1>2, <1>3, <1>4, <1>5, SoundLess
<1>7. e # timeout_event => Keeps(b, c) BY <1>2, <1>6 DEF SameFor, SameTimers
<1>8. Does(b, c, {}) BY <1>2, <1>6, DoesLess
<1>9. e \in Deferred => e \notin Used(c)
  BY <1>0, <1>2, Events DEF Used, Busy, SameTimers, SameKinds, KindsOk
<1> QED BY <1>6, <1>7, <1>8, <1>9 DEF Wakes

\* The timer of e is stopped; e stays on the other lists.
Stopped(b, c, e) ==
  /\ c \in Bases /\ SameQueues(b, c) /\ SameKinds(b, c) /\ SameTurn(b, c) /\ TimersOk(c)
  /\ Flagged(c, "TIMEOUT") = Flagged(b, "TIMEOUT") \ {e}
  /\ c.ev_timeout = b.ev_timeout /\ c.common = b.common

LEMMA TimeoutStopped ==
  ASSUME NEW b \in Bases, TimersOk(b), NEW e \in Evs,
         NEW c, c = IF Has(b, e, "TIMEOUT") THEN QueueRemoveTimeout(b, e) ELSE b
  PROVE  Stopped(b, c, e)
<1>1. CASE e \in Flagged(b, "TIMEOUT")
  <2>1. c = QueueRemoveTimeout(b, e) BY <1>1 DEF Flagged
  <2> QED BY <1>1, <2>1, TimeoutRemoved DEF Stopped
<1>2. CASE e \notin Flagged(b, "TIMEOUT")
  <2>1. c = b BY <1>2 DEF Flagged
  <2> QED BY <1>2, <2>1 DEF Stopped, SameQueues, SameKinds, SameTurn, SamePlace
<1> QED BY <1>1, <1>2

Gone(b, c, e) ==
  /\ Less(b, c) /\ SamePlace(b, c)
  /\ Flagged(c, "TIMEOUT") = Flagged(b, "TIMEOUT") \ {e}
  /\ Flagged(c, "INSERTED") = Flagged(b, "INSERTED") \ {e}
  /\ Flagged(c, "ACTIVE") = Flagged(b, "ACTIVE") \ {e}
  /\ Flagged(c, "ACTIVE_LATER") = Flagged(b, "ACTIVE_LATER") \ {e}

LEMMA EventDeleted ==
  ASSUME NEW b, NEW t, Sound(b, t), NEW e \in Evs, NEW need \in BOOLEAN,
         NEW c, c = EventDelNolock(b, e, need)
  PROVE  /\ Sound(c, t) /\ Does(b, c, {}) /\ Wakes(b, c) /\ Gone(b, c, e) /\ e \notin Used(c)
         /\ e # timeout_event => Keeps(b, c)
<1>0. b \in Bases /\ TimersOk(b) /\ QueuesOk(b) /\ KindsOk(b) BY DEF Sound
<1>1. PICK c1 : c1 = IF Has(b, e, "TIMEOUT") THEN QueueRemoveTimeout(b, e) ELSE b OBVIOUS
<1>2. Stopped(b, c1, e) BY <1>0, <1>1, TimeoutStopped
<1>3. /\ c1 \in Bases /\ SameQueues(b, c1) /\ SameKinds(b, c1) /\ SameTurn(b, c1)
      /\ TimersOk(c1) /\ Flagged(c1, "TIMEOUT") = Flagged(b, "TIMEOUT") \ {e}
      /\ c1.ev_timeout = b.ev_timeout /\ c1.common = b.common
  BY <1>2 DEF Stopped
<1>4. PICK d : d = RemoveFromActive(c1, e) OBVIOUS
<1>5. Freed(c1, d, e)
  <2>1. QueuesOk(c1) BY <1>0, <1>3 DEF QueuesOk, SameQueues
  <2> QED BY <1>3, <1>4, <2>1, RemovedFromActive
<1>6. /\ d \in Bases /\ SameTimers(c1, d) /\ SameKinds(c1, d) /\ SameTurn(c1, d)
      /\ QueuesOk(d) /\ Flagged(d, "ACTIVE") = Flagged(b, "ACTIVE") \ {e}
      /\ Flagged(d, "ACTIVE_LATER") = Flagged(b, "ACTIVE_LATER") \ {e}
  BY <1>3, <1>5 DEF Freed, SameQueues
<1>7. TimersOk(d) BY <1>3, <1>6 DEF TimersOk, SameTimers
<1>8. /\ d.ev_res = b.ev_res /\ d.ev_timeout = b.ev_timeout /\ d.common = b.common
      /\ Flagged(d, "TIMEOUT") = Flagged(b, "TIMEOUT") \ {e}
      /\ Flagged(d, "INSERTED") = Flagged(b, "INSERTED") /\ SameTurn(b, d)
  BY <1>3, <1>6 DEF SameTimers, SameKinds, SameTurn, SamePlace
<1>9. PICK f : f = IF Has(d, e, "INSERTED") THEN Clear(d, e, "INSERTED") ELSE d OBVIOUS
<1>10. Watches(d, f, Flagged(b, "INSERTED") \ {e})
  <2>1. CASE e \in Flagged(d, "INSERTED")
    <3>1. f = Clear(d, e, "INSERTED") BY <1>9, <2>1 DEF Flagged
    <3> QED BY <1>6, <1>8, <3>1, IoCleared
  <2>2. CASE e \notin Flagged(d, "INSERTED")
    <3>1. f = d BY <1>9, <2>2 DEF Flagged
    <3>2. Flagged(d, "INSERTED") = Flagged(b, "INSERTED") \ {e} BY <1>8, <2>2
    <3> QED BY <1>6, <3>1, <3>2
        DEF Watches, SameTimers, SameQueues, SameTurn, SamePlace
  <2> QED BY <2>1, <2>2
<1>11. /\ f \in Bases /\ SameTimers(d, f) /\ SameQueues(d, f) /\ SameTurn(d, f)
       /\ f.ev_res = d.ev_res /\ Flagged(f, "INSERTED") = Flagged(b, "INSERTED") \ {e}
  BY <1>10 DEF Watches
<1>12. TimersOk(f) /\ QueuesOk(f)
  BY <1>6, <1>7, <1>11 DEF TimersOk, SameTimers, QueuesOk, SameQueues
<1>13. /\ f.ev_res = b.ev_res /\ f.ev_timeout = b.ev_timeout /\ f.common = b.common
       /\ Flagged(f, "TIMEOUT") = Flagged(b, "TIMEOUT") \ {e}
       /\ Flagged(f, "INSERTED") = Flagged(b, "INSERTED") \ {e}
       /\ Flagged(f, "ACTIVE") = Flagged(b, "ACTIVE") \ {e}
       /\ Flagged(f, "ACTIVE_LATER") = Flagged(b, "ACTIVE_LATER") \ {e}
  BY <1>6, <1>8, <1>11 DEF SameTimers, SameQueues
<1>14. SameTurn(b, f) BY <1>8, <1>11 DEF SameTurn, SamePlace
<1>15. Less(b, f) BY <1>13 DEF Less
<1>16. /\ Sound(f, t) /\ Quiet(b, f) /\ Used(f) \subseteq Used(b)
       /\ SameFor(b, f, timeout_event) => Keeps(b, f)
  <2>1. f.tv_cache = b.tv_cache BY <1>14 DEF SameTurn, SamePlace
  <2> QED BY <1>11, <1>12, <1>15, <2>1, SoundLess
<1>17. Does(b, f, {})
  <2>1. Flagged(f, "ACTIVE") \subseteq Flagged(b, "ACTIVE") BY <1>13
  <2> QED BY <1>14, <1>16, <2>1, DoesLess
<1>18. e # timeout_event => Keeps(b, f) BY <1>13, <1>16 DEF SameFor
<1>19. c = f \/ c = Notify(f, need) BY <1>1, <1>4, <1>9 DEF EventDelNolock
<1>20. /\ Sound(c, t) /\ Does(f, c, {}) /\ Alike(f, c) /\ Keeps(f, c)
  <2>1. CASE c = f
    <3>1. Alike(f, c) /\ SamePlace(f, c) /\ Tells(f, c) /\ Continues(f, c) /\ Keeps(f, c)
      BY <1>11, <2>1 DEF Alike, SameTimers, SameQueues, SameKinds, SamePlace, Tells, Continues,
                         Keeps
    <3> QED BY <1>16, <2>1, <3>1 DEF Does
  <2>2. CASE c = Notify(f, need) BY <1>16, <2>2, NotifyDoes
  <2> QED BY <1>19, <2>1, <2>2
<1>21. Does(b, c, {}) BY <1>17, <1>20, DoesTwice
<1>22. /\ c.ev_res = f.ev_res /\ c.ev_timeout = f.ev_timeout /\ c.common = f.common
       /\ Flagged(c, "TIMEOUT") = Flagged(f, "TIMEOUT")
       /\ Flagged(c, "INSERTED") = Flagged(f, "INSERTED")
       /\ Flagged(c, "ACTIVE") = Flagged(f, "ACTIVE")
       /\ Flagged(c, "ACTIVE_LATER") = Flagged(f, "ACTIVE_LATER")
  BY <1>20 DEF Alike, SameTimers, SameQueues, SameKinds
<1>23. SamePlace(b, c) BY <1>21 DEF Does
<1>24. Gone(b, c, e) BY <1>13, <1>22, <1>23 DEF Gone, Less
<1>25. Wakes(b, c) /\ e \notin Used(c)
  BY <1>24 DEF Gone, Less, Wakes, Quiet, Busy, InHeap, Used
<1>26. e # timeout_event => Keeps(b, c) BY <1>18, <1>20 DEF Keeps
<1> QED BY <1>20, <1>21, <1>24, <1>25, <1>26

LEMMA TimerRemoved ==
  ASSUME NEW b, NEW t, Sound(b, t), NEW e \in Users, NEW c, c = RemoveTimer(b, e)
  PROVE  Sound(c, t) /\ Does(b, c, {}) /\ Wakes(b, c) /\ Keeps(b, c)
<1>0. b \in Bases /\ TimersOk(b) /\ QueuesOk(b) /\ KindsOk(b) BY DEF Sound
<1>a. e \in Evs /\ e # timeout_event /\ NoTimeout \in Delays
  BY Events DEF Internal, Delays, NoTimeout
<1>1. PICK d : d = IF Has(b, e, "TIMEOUT") THEN QueueRemoveTimeout(b, e) ELSE b OBVIOUS
<1>2. Stopped(b, d, e) BY <1>0, <1>1, <1>a, TimeoutStopped
<1>3. /\ d \in Bases /\ SameQueues(b, d) /\ SameKinds(b, d) /\ SameTurn(b, d)
      /\ TimersOk(d) /\ Flagged(d, "TIMEOUT") = Flagged(b, "TIMEOUT") \ {e}
      /\ d.ev_timeout = b.ev_timeout /\ d.common = b.common
  BY <1>2 DEF Stopped
<1>4. c = d \/ c = [d EXCEPT !.ev_io_timeout[e] = NoTimeout] BY <1>1 DEF RemoveTimer
<1>5. Alike(d, c) /\ SameTurn(d, c)
  <2>1. CASE c = d
    BY <1>3, <2>1 DEF Alike, SameTimers, SameQueues, SameKinds, SameTurn, SamePlace
  <2>2. CASE c = [d EXCEPT !.ev_io_timeout[e] = NoTimeout] BY <1>3, <1>a, <2>2, IoTimeoutSet
  <2> QED BY <1>4, <2>1, <2>2
<1>6. /\ c \in Bases /\ SameTurn(b, c) /\ SameQueues(b, c) /\ SameTimers(d, c)
      /\ SameKinds(b, c)
  BY <1>3, <1>5 DEF Alike, SameQueues, SameKinds, SameTurn, SamePlace
<1>7. TimersOk(c) /\ QueuesOk(c)
  BY <1>0, <1>3, <1>6 DEF TimersOk, QueuesOk, SameTimers, SameQueues
<1>8. Less(b, c) BY <1>3, <1>6 DEF Less, SameTimers, SameQueues, SameKinds
<1>9. /\ Sound(c, t) /\ Quiet(b, c) /\ Used(c) \subseteq Used(b)
      /\ SameFor(b, c, timeout_event) => Keeps(b, c)
  <2>1. c.tv_cache = b.tv_cache BY <1>6 DEF SameTurn, SamePlace
  <2> QED BY <1>6, <1>7, <1>8, <2>1, SoundLess
<1>10. SameFor(b, c, timeout_event) BY <1>3, <1>6, <1>a DEF SameFor, SameTimers, SameQueues
<1>11. Does(b, c, {})
  <2>1. Flagged(c, "ACTIVE") \subseteq Flagged(b, "ACTIVE") BY <1>6 DEF SameQueues
  <2> QED BY <1>6, <1>9, <2>1, DoesLess
<1> QED BY <1>9, <1>10, <1>11 DEF Wakes

---------------------------------------------------------------------------
(* Adding                                                                  *)

Timed(b, c, e, at, K) ==
  /\ c \in Bases /\ SameKinds(b, c) /\ SameTurn(b, c) /\ TimersOk(c) /\ QueuesOk(c)
  /\ Flagged(c, "TIMEOUT") = Flagged(b, "TIMEOUT") \cup {e}
  /\ c.ev_timeout = [b.ev_timeout EXCEPT ![e] = at] /\ c.common = K
  /\ Flagged(c, "ACTIVE_LATER") = Flagged(b, "ACTIVE_LATER")
  /\ Flagged(c, "ACTIVE") \subseteq Flagged(b, "ACTIVE")
  /\ Flagged(b, "ACTIVE") \ {e} \subseteq Flagged(c, "ACTIVE")

\* The events of the common list, once e is one of them or is not.
Common(b, e, common) == IF common THEN b.common \cup {e} ELSE b.common \ {e}

LEMMA TimeoutSet ==
  ASSUME NEW b, NEW t, Sound(b, t), NEW e \in Evs \ Deferred, NEW at \in Ats,
         NEW common \in BOOLEAN, e = timeout_event => common = FALSE,
         NEW c, c = SetTimeout(b, e, at, common)
  PROVE  Sound(c, t) /\ Does(b, c, {e}) /\ Timed(b, c, e, at, Common(b, e, common))
<1>0. b \in Bases /\ TimersOk(b) /\ QueuesOk(b) /\ KindsOk(b) /\ Elapsed(b, t) BY DEF Sound
<1>1. PICK c1 : c1 = IF Has(b, e, "TIMEOUT") THEN QueueRemoveTimeout(b, e) ELSE b OBVIOUS
<1>2. Stopped(b, c1, e) BY <1>0, <1>1, TimeoutStopped
<1>3. /\ c1 \in Bases /\ SameQueues(b, c1) /\ SameKinds(b, c1) /\ SameTurn(b, c1)
      /\ TimersOk(c1) /\ Flagged(c1, "TIMEOUT") = Flagged(b, "TIMEOUT") \ {e}
      /\ c1.ev_timeout = b.ev_timeout /\ c1.common = b.common
  BY <1>2 DEF Stopped
<1>4. QueuesOk(c1) BY <1>0, <1>3 DEF QueuesOk, SameQueues
<1>5. PICK d : d = IF Has(c1, e, "ACTIVE") /\ "TIMEOUT" \in c1.ev_res[e]
                   THEN QueueRemoveActive(c1, e) ELSE c1 OBVIOUS
<1>6. /\ d \in Bases /\ SameTimers(c1, d) /\ SameKinds(c1, d) /\ SameTurn(c1, d) /\ QueuesOk(d)
      /\ Flagged(d, "ACTIVE_LATER") = Flagged(b, "ACTIVE_LATER")
      /\ Flagged(d, "ACTIVE") \subseteq Flagged(b, "ACTIVE")
      /\ Flagged(b, "ACTIVE") \ {e} \subseteq Flagged(d, "ACTIVE")
      /\ "TIMEOUT" \in c1.ev_res[e] => e \notin Flagged(d, "ACTIVE")
  <2>1. CASE e \in Flagged(c1, "ACTIVE") /\ "TIMEOUT" \in c1.ev_res[e]
    <3>1. d = QueueRemoveActive(c1, e) BY <1>5, <2>1 DEF Flagged
    <3>2. /\ d \in Bases /\ SameTimers(c1, d) /\ SameKinds(c1, d) /\ SameTurn(c1, d)
          /\ QueuesOk(d) /\ Flagged(d, "ACTIVE") = Flagged(c1, "ACTIVE") \ {e}
          /\ Flagged(d, "ACTIVE_LATER") = Flagged(c1, "ACTIVE_LATER")
      BY <1>3, <1>4, <2>1, <3>1, ActiveRemoved
    <3> QED BY <1>3, <3>2 DEF SameQueues
  <2>2. CASE ~(e \in Flagged(c1, "ACTIVE") /\ "TIMEOUT" \in c1.ev_res[e])
    <3>1. d = c1 BY <1>5, <2>2 DEF Flagged
    <3> QED BY <1>3, <1>4, <2>2, <3>1
        DEF SameTimers, SameKinds, SameTurn, SamePlace, SameQueues
  <2> QED BY <2>1, <2>2
<1>7. PICK K \in SUBSET Evs : K = Common(b, e, common) BY <1>0, Fields DEF Common
<1>8. K \ {e} = b.common \ {e} /\ timeout_event \notin K
  BY <1>0, <1>7 DEF Common, KindsOk
<1>9. PICK f : f = PutTime(d, e, at, K) OBVIOUS
<1>10. d.common = b.common /\ e \notin Flagged(d, "TIMEOUT") /\ TimersOk(d)
  BY <1>3, <1>6 DEF SameTimers, TimersOk
<1>11. /\ f \in Bases /\ SameQueues(d, f) /\ SameKinds(d, f) /\ SameTurn(d, f)
       /\ TimersOk(f) /\ Flagged(f, "TIMEOUT") = Flagged(d, "TIMEOUT")
       /\ f.ev_timeout = [d.ev_timeout EXCEPT ![e] = at] /\ f.common = K
  BY <1>6, <1>8, <1>9, <1>10, TimeSet
<1>12. c = QueueInsertTimeout(f, e)
  <2>1. K = IF common THEN d.common \cup {e} ELSE d.common \ {e}
    BY <1>7, <1>10 DEF Common
  <2>2. f = [d EXCEPT !.ev_timeout[e] = at,
                      !.common = IF common THEN d.common \cup {e} ELSE d.common \ {e}]
    BY <1>9, <2>1 DEF PutTime
  <2> QED BY <1>1, <1>5, <2>2 DEF SetTimeout
<1>13. /\ c \in Bases /\ SameQueues(f, c) /\ SameKinds(f, c) /\ SameTurn(f, c)
       /\ TimersOk(c) /\ Flagged(c, "TIMEOUT") = Flagged(f, "TIMEOUT") \cup {e}
       /\ c.ev_timeout = f.ev_timeout /\ c.common = f.common
  BY <1>10, <1>11, <1>12, TimeoutInserted
<1>14. /\ SameKinds(b, c) /\ SameTurn(b, c)
       /\ Flagged(c, "TIMEOUT") = Flagged(b, "TIMEOUT") \cup {e}
       /\ c.ev_timeout = [b.ev_timeout EXCEPT ![e] = at] /\ c.common = K
       /\ Flagged(c, "ACTIVE_LATER") = Flagged(b, "ACTIVE_LATER")
       /\ Flagged(c, "ACTIVE") = Flagged(d, "ACTIVE")
  <2>1. SameKinds(b, c) BY <1>3, <1>6, <1>11, <1>13 DEF SameKinds
  <2>2. SameTurn(b, c) BY <1>3, <1>6, <1>11, <1>13 DEF SameTurn, SamePlace
  <2>3. /\ Flagged(c, "TIMEOUT") = Flagged(b, "TIMEOUT") \cup {e}
        /\ c.ev_timeout = [b.ev_timeout EXCEPT ![e] = at] /\ c.common = K
    BY <1>3, <1>6, <1>11, <1>13 DEF SameTimers
  <2>4. /\ Flagged(c, "ACTIVE_LATER") = Flagged(b, "ACTIVE_LATER")
        /\ Flagged(c, "ACTIVE") = Flagged(d, "ACTIVE")
    BY <1>6, <1>11, <1>13 DEF SameQueues
  <2> QED BY <2>1, <2>2, <2>3, <2>4
<1>15. QueuesOk(c)
  <2>1. QueuesOk(f) BY <1>6, <1>11 DEF QueuesOk, SameQueues
  <2> QED BY <1>13, <2>1 DEF QueuesOk, SameQueues
<1>16. Timed(b, c, e, at, K) BY <1>6, <1>13, <1>14, <1>15 DEF Timed
<1>17. KindsOk(c) BY <1>0, <1>8, <1>14, <1>6 DEF KindsOk, SameKinds
<1>18. Elapsed(c, t)
  <2>1. c.tv_cache = b.tv_cache /\ c.ev_res = b.ev_res /\ c1.ev_res = b.ev_res
    BY <1>3, <1>14 DEF SameTurn, SamePlace, SameKinds
  <2>2. ASSUME NEW x \in Users \ Exits, x \in Flagged(c, "ACTIVE"), "TIMEOUT" \in c.ev_res[x]
        PROVE  c.ev_timeout[x] <= t
    <3>1. x # e BY <1>6, <1>14, <2>1, <2>2
    <3>2. x \in Flagged(b, "ACTIVE") BY <1>6, <1>14, <2>2
    <3>3. b.ev_timeout[x] <= t BY <1>0, <2>1, <2>2, <3>2 DEF Elapsed
    <3>4. c.ev_timeout[x] = b.ev_timeout[x] BY <1>0, <1>14, <3>1, Fields, Events
    <3> QED BY <3>3, <3>4
  <2> QED BY <1>0, <2>1, <2>2 DEF Elapsed
<1>19. Does(b, c, {e})
  <2>1. SamePlace(b, c) /\ Tells(b, c) BY <1>14 DEF SameTurn, Tells
  <2>2. Continues(b, c) BY <1>6, <1>14 DEF SameTurn, Continues
  <2>3. Used(c) \subseteq Used(b) \cup {e} \cup Internal
    BY <1>6, <1>14 DEF Used, Busy, SameKinds
  <2> QED BY <2>1, <2>2, <2>3 DEF Does
<1> QED BY <1>7, <1>13, <1>15, <1>16, <1>17, <1>18, <1>19 DEF Sound

LEMMA HeadFirst ==
  ASSUME NEW b \in Bases, TimersOk(b)
  PROVE  /\ b.common_list = << >> <=> InList(b) = {}
         /\ b.common_list # << >> =>
              /\ Head(b.common_list) \in InList(b)
              /\ \A x \in InList(b) : b.ev_timeout[Head(b.common_list)] <= b.ev_timeout[x]
<1>1. PICK l \in Seq(Evs) : l = b.common_list BY Fields
<1>2. PICK S \in SUBSET Evs : S = InList(b) BY Fields DEF InList
<1>3. PICK f \in [Evs -> Nat] : f = b.ev_timeout BY Fields
<1>4. Lists(l, S) /\ InTime(l, f) BY <1>1, <1>2, <1>3 DEF TimersOk, Holds, InList
<1>5. \A x \in S : \E k \in 1 .. Len(l) : l[k] = x BY <1>4 DEF Lists
<1>6. CASE l = << >>
  <2>1. S = {} BY <1>5, <1>6
  <2> QED BY <1>1, <1>2, <1>6, <2>1
<1>7. CASE l # << >>
  <2>1. 1 \in 1 .. Len(l) /\ l[1] \in Evs /\ Head(l) = l[1] BY <1>7
  <2>2. l[1] \in S BY <1>4, <2>1 DEF Lists
  <2>3. ASSUME NEW x \in S PROVE f[l[1]] <= f[x]
    <3>1. PICK k \in 1 .. Len(l) : l[k] = x BY <1>5
    <3>2. 1 < k => f[l[1]] <= f[l[k]] BY <1>4, <2>1 DEF InTime
    <3>3. f[l[1]] \in Nat BY <2>1
    <3>4. k = 1 \/ 1 < k OBVIOUS
    <3> QED BY <3>1, <3>2, <3>3, <3>4
  <2> QED BY <1>1, <1>2, <1>3, <1>7, <2>1, <2>2, <2>3
<1> QED BY <1>6, <1>7

LEMMA HeapFirst ==
  ASSUME NEW b \in Bases, TimersOk(b)
  PROVE  /\ b.timeheap = << >> <=> InHeap(b) = {}
         /\ b.timeheap # << >> => b.timeheap[1] \in InHeap(b)
<1>1. PICK h \in Seq(Evs) : h = b.timeheap BY Fields
<1>2. PICK S \in SUBSET Evs : S = InHeap(b) BY Fields DEF InHeap
<1>4. Lists(h, S) BY <1>1, <1>2 DEF TimersOk, Holds, InHeap
<1>5. \A x \in S : \E k \in 1 .. Len(h) : h[k] = x BY <1>4 DEF Lists
<1>6. CASE h = << >>
  <2>1. S = {} BY <1>5, <1>6
  <2> QED BY <1>1, <1>2, <1>6, <2>1
<1>7. CASE h # << >>
  <2>1. 1 \in 1 .. Len(h) /\ h[1] \in Evs BY <1>7
  <2>2. h[1] \in S BY <1>4, <2>1 DEF Lists
  <2> QED BY <1>1, <1>2, <1>7, <2>1, <2>2
<1> QED BY <1>6, <1>7

\* A heap that was empty has the new timer for its first.
LEMMA FirstTimer ==
  ASSUME NEW b \in Bases, NEW c, NEW e \in Evs, NEW at, Timed(b, c, e, at, b.common \ {e}),
         InHeap(b) = {}
  PROVE  c.timeheap[1] = e
<1>1. c \in Bases /\ TimersOk(c) BY DEF Timed
<1>2. InHeap(c) = {e} BY DEF Timed, InHeap
<1> QED BY <1>1, <1>2, HeapFirst

LEMMA ListScheduled ==
  ASSUME NEW b, NEW t, Sound(b, t), b.common_list # << >>, NEW clock, NEW need \in BOOLEAN,
         NEW head, head = Head(b.common_list),
         NEW c, c = CommonTimeoutSchedule(b, head, clock, need)
  PROVE  /\ Sound(c, t) /\ Does(b, c, {}) /\ ListSet(c)
         /\ need = TRUE => Wakes(b, c)
<1>0. b \in Bases /\ TimersOk(b) /\ QueuesOk(b) /\ KindsOk(b) BY DEF Sound
<1>1. head \in InList(b) /\ \A x \in InList(b) : b.ev_timeout[head] <= b.ev_timeout[x]
  BY <1>0, HeadFirst
<1>2. PICK at \in Ats : at = b.ev_timeout[head]
  <2>1. head \in Evs BY <1>0, <1>1, Fields DEF InList
  <2> QED BY <1>0, <2>1, Fields
<1>3. PICK d : d = SetTimeout(b, timeout_event, at, FALSE) OBVIOUS
<1>a. timeout_event \in Evs \ Deferred BY Events DEF Internal
<1>b. FALSE \in BOOLEAN /\ Common(b, timeout_event, FALSE) = b.common \ {timeout_event}
  BY DEF Common
<1>4. /\ Sound(d, t) /\ Does(b, d, {timeout_event})
      /\ Timed(b, d, timeout_event, at, b.common \ {timeout_event})
  BY <1>3, <1>a, <1>b, TimeoutSet
<1>5. /\ d \in Bases /\ SameTurn(b, d) /\ TimersOk(d)
      /\ Flagged(d, "TIMEOUT") = Flagged(b, "TIMEOUT") \cup {timeout_event}
      /\ d.ev_timeout = [b.ev_timeout EXCEPT ![timeout_event] = at]
      /\ d.common = b.common \ {timeout_event}
      /\ Flagged(d, "ACTIVE_LATER") = Flagged(b, "ACTIVE_LATER")
      /\ Flagged(d, "ACTIVE") \subseteq Flagged(b, "ACTIVE")
  BY <1>4 DEF Timed
<1>6. PICK m \in BOOLEAN : m = (need /\ WakesEarlier(d, timeout_event, clock))
  BY DEF WakesEarlier
<1>7. c = Notify(d, m) BY <1>2, <1>3, <1>6 DEF CommonTimeoutSchedule
<1>8. /\ Sound(c, t) /\ Keeps(d, c) /\ Does(d, c, {}) /\ Alike(d, c)
      /\ m = TRUE /\ Told(d) => c.notify_fd = TRUE
  BY <1>4, <1>7, NotifyDoes
<1>9. Does(b, c, {})
  <2>1. Does(b, d, {}) BY <1>4, <1>a, Events DEF Does, Internal
  <2> QED BY <1>8, <2>1, DoesTwice
<1>10. ListSet(d)
  <2>1. InList(d) = InList(b) \ {timeout_event} BY <1>5 DEF InList
  <2>2. d.ev_timeout[timeout_event] = at BY <1>0, <1>5, <1>a, Fields
  <2>3. ASSUME NEW x \in InList(d) PROVE at <= d.ev_timeout[x]
    <3>1. x \in InList(b) /\ x # timeout_event BY <2>1
    <3>2. x \in Evs BY <1>0, <3>1, Fields DEF InList
    <3>3. d.ev_timeout[x] = b.ev_timeout[x] BY <1>0, <1>5, <3>1, <3>2, Fields
    <3> QED BY <1>1, <1>2, <3>1, <3>3
  <2> QED BY <1>5, <2>2, <2>3 DEF ListSet
<1>11. ASSUME need = TRUE, Told(b) PROVE c.notify_fd = TRUE \/ Quiet(b, c)
  <2>1. Told(d) BY <1>5, <1>11 DEF Told, SameTurn
  <2>2. CASE InHeap(b) = {}
    <3>1. d.timeheap[1] = timeout_event BY <1>0, <1>4, <1>a, <2>2, FirstTimer
    <3>2. m = TRUE BY <1>6, <1>11, <3>1 DEF WakesEarlier
    <3> QED BY <1>8, <2>1, <3>2
  <2>3. CASE InHeap(b) # {}
    <3>1. Busy(c) = Busy(d) BY <1>8 DEF Alike, SameQueues, Busy
    <3> QED BY <1>5, <2>3, <3>1 DEF Quiet, Busy
  <2> QED BY <2>2, <2>3
<1> QED BY <1>8, <1>9, <1>10, <1>11 DEF Keeps, Wakes

LEMMA IoAdded ==
  ASSUME NEW b, NEW t, Sound(b, t), NEW e \in Evs \ Deferred, NEW c, c = InsertIo(b, e)
  PROVE  /\ Sound(c, t) /\ Does(b, c, {e}) /\ Keeps(b, c) /\ Quiet(b, c)
         /\ SameTimers(b, c) /\ SameQueues(b, c) /\ SameTurn(b, c) /\ c.ev_res = b.ev_res
<1>0. b \in Bases /\ TimersOk(b) /\ QueuesOk(b) /\ KindsOk(b) /\ Elapsed(b, t) BY DEF Sound
<1>1. c = b \/ (e \in IoEvs /\ c = Set(b, e, "INSERTED")) BY DEF InsertIo
<1>2. /\ c \in Bases /\ SameTimers(b, c) /\ SameQueues(b, c) /\ SameTurn(b, c)
      /\ c.ev_res = b.ev_res /\ Flagged(c, "INSERTED") \subseteq Flagged(b, "INSERTED") \cup {e}
      /\ Flagged(c, "INSERTED") \subseteq IoEvs
  <2>1. CASE c = b
    BY <1>0, <2>1 DEF SameTimers, SameQueues, SameTurn, SamePlace, KindsOk
  <2>2. CASE e \in IoEvs /\ c = Set(b, e, "INSERTED")
    <3>1. Watches(b, c, Flagged(b, "INSERTED") \cup {e}) BY <1>0, <2>2, IoInserted
    <3> QED BY <1>0, <2>2, <3>1 DEF Watches, KindsOk
  <2> QED BY <1>1, <2>1, <2>2
<1>3. TimersOk(c) BY <1>0, <1>2 DEF TimersOk, SameTimers
<1>4. QueuesOk(c) BY <1>0, <1>2 DEF QueuesOk, SameQueues
<1>5. KindsOk(c) BY <1>0, <1>2 DEF KindsOk, SameTimers, SameQueues
<1>6. Elapsed(c, t) BY <1>0, <1>2 DEF Elapsed, SameTimers, SameQueues, SameTurn, SamePlace
<1>7. Keeps(b, c) BY <1>2 DEF Keeps, ListSet, InList, SameTimers, SameQueues
<1>8. Quiet(b, c) BY <1>2 DEF Quiet, Busy, InHeap, SameTimers, SameQueues
<1>9. Does(b, c, {e})
  <2>1. SamePlace(b, c) /\ Tells(b, c) BY <1>2 DEF SameTurn, Tells
  <2>2. Continues(b, c) BY <1>2 DEF Continues, SameTurn, SameQueues
  <2>3. Used(c) \subseteq Used(b) \cup {e} \cup Internal
    BY <1>2 DEF Used, Busy, SameTimers, SameQueues
  <2> QED BY <2>1, <2>2, <2>3 DEF Does
<1> QED BY <1>2, <1>3, <1>4, <1>5, <1>6, <1>7, <1>8, <1>9 DEF Sound

LEMMA TimerAdded ==
  ASSUME NEW b, NEW t, Sound(b, t), NEW e \in Users \ Deferred, NEW at \in Ats,
         NEW common \in BOOLEAN, NEW clock, NEW need \in BOOLEAN,
         NEW c, c = AddTimer(b, e, at, common, clock, need)
  PROVE  /\ Sound(c, t) /\ Does(b, c, {e}) /\ Keeps(b, c)
         /\ need = TRUE => Wakes(b, c)
<1>a. e \in Evs \ Deferred /\ e # timeout_event BY Events DEF Internal
<1>1. PICK i : i = InsertIo(b, e) OBVIOUS
<1>2. /\ Sound(i, t) /\ Does(b, i, {e}) /\ Keeps(b, i) /\ Quiet(b, i)
      /\ SameTimers(b, i) /\ SameQueues(b, i) /\ SameTurn(b, i)
  BY <1>1, <1>a, IoAdded
<1>b. i \in Bases /\ TimersOk(i) BY <1>2 DEF Sound
<1>3. PICK c1 : c1 = SetTimeout(i, e, at, common) OBVIOUS
<1>4. Sound(c1, t) /\ Does(i, c1, {e}) /\ Timed(i, c1, e, at, Common(i, e, common))
  BY <1>2, <1>3, <1>a, TimeoutSet
<1>5. /\ c1 \in Bases /\ SameTurn(i, c1) /\ TimersOk(c1)
      /\ Flagged(c1, "TIMEOUT") = Flagged(i, "TIMEOUT") \cup {e}
      /\ c1.ev_timeout = [i.ev_timeout EXCEPT ![e] = at] /\ c1.common = Common(i, e, common)
      /\ Flagged(c1, "ACTIVE_LATER") = Flagged(i, "ACTIVE_LATER")
      /\ Flagged(c1, "ACTIVE") \subseteq Flagged(i, "ACTIVE")
      /\ Flagged(i, "ACTIVE") \ {e} \subseteq Flagged(c1, "ACTIVE")
  BY <1>4 DEF Timed
<1>6. \A x \in Evs : x # e => c1.ev_timeout[x] = i.ev_timeout[x] BY <1>b, <1>5, Fields
<1>7. PICK d : d = IF common /\ Head(c1.common_list) = e
                   THEN CommonTimeoutSchedule(c1, e, clock, need) ELSE c1 OBVIOUS
<1>8. PICK m \in BOOLEAN :
        m = (need /\ (InsertIo(b, e) # b \/ (~common /\ WakesEarlier(d, e, clock))))
  BY DEF WakesEarlier
<1>9. c = Notify(d, m) BY <1>1, <1>3, <1>7, <1>8 DEF AddTimer
<1>10. Busy(c1) \subseteq Busy(i) BY <1>5 DEF Busy
<1>11. common = TRUE => InHeap(c1) \subseteq InHeap(i) BY <1>5 DEF InHeap, Common
<1>12. /\ Sound(d, t) /\ Does(c1, d, {}) /\ Keeps(i, d)
       /\ need = TRUE /\ Told(i) =>
            d.notify_fd = TRUE \/ Quiet(i, d) \/ (common = FALSE /\ d = c1)
  <2>1. CASE common = TRUE /\ Head(c1.common_list) = e
    <3>1. d = CommonTimeoutSchedule(c1, e, clock, need) BY <1>7, <2>1
    <3>2. c1.common_list # << >>
      <4>1. e \in InList(c1) BY <1>5, <2>1 DEF InList, Common
      <4> QED BY <1>5, <4>1, HeadFirst
    <3>3. Sound(d, t) /\ Does(c1, d, {}) /\ ListSet(d) /\ (need = TRUE => Wakes(c1, d))
      BY <1>4, <2>1, <3>1, <3>2, ListScheduled
    <3>4. Told(i) => Told(c1) BY <1>5 DEF Told, SameTurn
    <3>5. Quiet(c1, d) => Quiet(i, d) BY <1>10, <1>11, <2>1 DEF Quiet
    <3> QED BY <3>3, <3>4, <3>5 DEF Keeps, Wakes
  <2>2. CASE ~(common = TRUE /\ Head(c1.common_list) = e)
    <3>1. d = c1 BY <1>7, <2>2
    <3>2. SamePlace(c1, d) /\ Tells(c1, d) /\ Continues(c1, d)
      BY <3>1 DEF SamePlace, Tells, Continues
    <3>3. Does(c1, d, {}) BY <3>1, <3>2 DEF Does
    <3>4. ASSUME ListSet(i) PROVE ListSet(c1)
      <4>1. /\ timeout_event \in Flagged(i, "ACTIVE") => timeout_event \in Flagged(c1, "ACTIVE")
            /\ timeout_event \in Flagged(i, "TIMEOUT") => timeout_event \in Flagged(c1, "TIMEOUT")
            /\ c1.ev_timeout[timeout_event] = i.ev_timeout[timeout_event]
        BY <1>5, <1>6, <1>a, Events
      <4>2. CASE common = FALSE
        <5>1. InList(c1) = InList(i) \ {e} BY <1>5, <4>2 DEF InList, Common
        <5>2. \A x \in InList(c1) : x \in InList(i) /\ c1.ev_timeout[x] = i.ev_timeout[x]
          BY <1>6, <1>b, <5>1, Fields DEF InList
        <5> QED BY <3>4, <4>1, <5>1, <5>2 DEF ListSet
      <4>3. CASE common = TRUE
        <5>1. PICK h : h = Head(c1.common_list) OBVIOUS
        <5>2. h # e BY <2>2, <4>3, <5>1
        <5>3. e \in InList(c1) BY <1>5, <4>3 DEF InList, Common
        <5>4. h \in InList(c1) /\ \A x \in InList(c1) : c1.ev_timeout[h] <= c1.ev_timeout[x]
          BY <1>5, <5>1, <5>3, HeadFirst
        <5>5. h \in InList(i) /\ h \in Evs
          BY <1>5, <1>b, <4>3, <5>2, <5>4, Fields DEF InList, Common
        <5>6. c1.ev_timeout[h] = i.ev_timeout[h] BY <1>6, <5>2, <5>5
        <5>7. CASE timeout_event \in Flagged(i, "ACTIVE") BY <4>1, <5>7 DEF ListSet
        <5>8. CASE timeout_event \notin Flagged(i, "ACTIVE")
          <6>1. timeout_event \in Flagged(i, "TIMEOUT")
                /\ i.ev_timeout[timeout_event] <= i.ev_timeout[h]
            BY <3>4, <5>5, <5>8 DEF ListSet
          <6>2. ASSUME NEW x \in InList(c1)
                PROVE  c1.ev_timeout[timeout_event] <= c1.ev_timeout[x]
            <7>1. x \in Evs BY <1>5, Fields DEF InList
            <7>2. /\ c1.ev_timeout[x] \in Nat /\ c1.ev_timeout[h] \in Nat
                  /\ c1.ev_timeout[timeout_event] \in Nat
              BY <1>5, <5>5, <7>1, Fields, Events
            <7>3. c1.ev_timeout[timeout_event] <= c1.ev_timeout[h] BY <4>1, <5>6, <6>1
            <7> QED BY <5>4, <7>2, <7>3
          <6> QED BY <4>1, <6>1, <6>2 DEF ListSet
        <5> QED BY <5>7, <5>8
      <4> QED BY <4>2, <4>3
    <3>5. common = TRUE => Quiet(i, d) BY <1>10, <1>11, <3>1 DEF Quiet
    <3> QED BY <1>4, <3>1, <3>3, <3>4, <3>5 DEF Keeps
  <2> QED BY <2>1, <2>2
<1>13. /\ Sound(c, t) /\ Keeps(d, c) /\ Does(d, c, {}) /\ Alike(d, c)
       /\ m = TRUE /\ Told(d) => c.notify_fd = TRUE
  BY <1>9, <1>12, NotifyDoes
<1>14. Does(i, d, {e}) BY <1>4, <1>12, DoesMore, DoesTwice
<1>15. Does(b, c, {e})
  <2>1. Does(b, d, {e}) BY <1>2, <1>14, DoesTwice
  <2> QED BY <1>13, <2>1, DoesMore, DoesTwice
<1>16. Keeps(b, c) BY <1>2, <1>12, <1>13 DEF Keeps
<1>17. ASSUME need = TRUE, Told(b) PROVE c.notify_fd = TRUE \/ Quiet(b, c)
  <2>1. Told(i) BY <1>2, <1>17 DEF Told, SameTurn
  <2>2. Told(d) BY <1>14, <2>1 DEF Does, Tells, Told
  <2>3. Busy(c) = Busy(d) /\ InHeap(c) = InHeap(d)
    BY <1>13 DEF Alike, SameQueues, SameTimers, Busy, InHeap
  <2>4. CASE d.notify_fd = TRUE BY <1>13, <2>4 DEF Does, Tells
  <2>5. CASE Quiet(i, d) BY <1>2, <2>3, <2>5 DEF Quiet
  <2>6. CASE common = FALSE /\ d = c1
    <3>1. CASE InHeap(i) = {}
      <4>1. Timed(i, c1, e, at, i.common \ {e}) BY <1>4, <2>6 DEF Common
      <4>2. d.timeheap[1] = e BY <1>a, <1>b, <2>6, <3>1, <4>1, FirstTimer
      <4>3. m = TRUE BY <1>8, <1>17, <2>6, <4>2 DEF WakesEarlier
      <4> QED BY <1>13, <2>2, <4>3
    <3>2. CASE InHeap(i) # {}
      <4>1. InHeap(b) # {} BY <1>2, <3>2 DEF Quiet
      <4> QED BY <1>2, <1>10, <2>3, <2>6, <4>1 DEF Quiet
    <3> QED BY <3>1, <3>2
  <2> QED BY <1>12, <1>17, <2>1, <2>4, <2>5, <2>6
<1> QED BY <1>13, <1>15, <1>16, <1>17 DEF Wakes

LEMMA ClockIs ==
  ASSUME NEW b, NEW t \in 1 .. MaxTime, Sound(b, t)
  PROVE  Time(b, t) \in 1 .. MaxTime /\ Time(b, t) <= t
<1>1. b.tv_cache \in 0 .. MaxTime /\ b.tv_cache <= t BY Fields DEF Sound, Elapsed
<1>2. (Time(b, t) = b.tv_cache /\ b.tv_cache # 0) \/ Time(b, t) = t BY DEF Time
<1> QED BY <1>1, <1>2, Events

LEMMA EventAdded ==
  ASSUME NEW b, NEW t \in 1 .. MaxTime, Sound(b, t), NEW e \in Users \ Deferred,
         NEW tv \in Durs \cup {NoTimeout}, Time(b, t) + tv <= MaxTime + 1,
         NEW need \in BOOLEAN, NEW c, c = EventAddNolock(b, e, tv, t, need)
  PROVE  /\ Sound(c, t) /\ Does(b, c, {e}) /\ Keeps(b, c)
         /\ need = TRUE => Wakes(b, c)
<1>a. b \in Bases /\ e \in Evs \ Deferred BY Events DEF Sound
<1>1. CASE tv = NoTimeout
  <2>1. PICK i : i = InsertIo(b, e) OBVIOUS
  <2>2. Sound(i, t) /\ Does(b, i, {e}) /\ Keeps(b, i) /\ Quiet(b, i) BY <1>a, <2>1, IoAdded
  <2>3. PICK m \in BOOLEAN : m = (need /\ i # b) OBVIOUS
  <2>4. c = Notify(i, m) BY <1>1, <2>1, <2>3 DEF EventAddNolock
  <2>5. /\ Sound(c, t) /\ Keeps(i, c) /\ Does(i, c, {}) /\ Alike(i, c)
    BY <2>2, <2>4, NotifyDoes
  <2>6. Does(b, c, {e}) BY <2>2, <2>5, DoesMore, DoesTwice
  <2>7. Quiet(b, c) BY <2>2, <2>5 DEF Quiet, Busy, InHeap, Alike, SameQueues, SameTimers
  <2> QED BY <2>2, <2>5, <2>6, <2>7 DEF Keeps, Wakes
<1>2. CASE tv # NoTimeout
  <2>1. PICK clock : clock = Time(b, t) OBVIOUS
  <2>2. clock \in 1 .. MaxTime BY <2>1, ClockIs
  <2>3. tv \in Nat /\ tv <= MaxTime
    BY <1>2, <2>1, <2>2, Events, EvLoopAssumption DEF EvLoopAssumption
  <2>4. PICK at \in Ats : at = clock + tv BY <2>1, <2>2, <2>3, Events DEF Ats
  <2>5. PICK d : d = IF e \in Persist THEN [b EXCEPT !.ev_io_timeout[e] = tv] ELSE b OBVIOUS
  <2>6. Alike(b, d) /\ SameTurn(b, d)
    <3>1. CASE e \in Persist
      <4>1. tv \in Delays BY <2>3 DEF Delays
      <4> QED BY <1>a, <2>5, <3>1, <4>1, IoTimeoutSet
    <3>2. CASE e \notin Persist
      BY <1>a, <2>5, <3>2 DEF Alike, SameTimers, SameQueues, SameKinds, SameTurn, SamePlace
    <3> QED BY <3>1, <3>2
  <2>7. SamePlace(b, d) BY <2>6 DEF SameTurn
  <2>8. /\ Sound(d, t) /\ Keeps(b, d) /\ Used(d) = Used(b) /\ Quiet(b, d)
        /\ Flagged(d, "ACTIVE") = Flagged(b, "ACTIVE")
    BY <2>6, <2>7, SoundAlike
  <2>9. Does(b, d, {}) BY <2>6, <2>8, DoesLess
  <2>a. (tv \in CommonDurs) \in BOOLEAN OBVIOUS
  <2>10. PICK common \in BOOLEAN : common = (tv \in CommonDurs) BY <2>a
  <2>11. c = AddTimer(d, e, at, common, clock, need)
    BY <1>2, <2>1, <2>4, <2>5, <2>10 DEF EventAddNolock
  <2>12. /\ Sound(c, t) /\ Does(d, c, {e}) /\ Keeps(d, c) /\ (need = TRUE => Wakes(d, c))
    BY <2>8, <2>11, TimerAdded
  <2>13. Does(b, c, {e}) BY <2>9, <2>12, DoesMore, DoesTwice
  <2>14. need = TRUE => Wakes(b, c)
    <3>1. Wakes(b, d) BY <2>8 DEF Wakes
    <3>2. Tells(b, d) /\ Tells(d, c) BY <2>9, <2>12 DEF Does
    <3> QED BY <2>12, <3>1, <3>2, WakesTwice
  <2> QED BY <2>8, <2>12, <2>13, <2>14 DEF Keeps
<1> QED BY <1>1, <1>2

---------------------------------------------------------------------------
(* What the loop does with its timers                                      *)

LEMMA Rescheduled ==
  ASSUME NEW b, NEW t \in 1 .. MaxTime, Sound(b, t), NEW e \in Persist,
         "TIMEOUT" \in b.ev_res[e] => b.ev_timeout[e] <= t,
         NEW c, c = PersistReschedule(b, e, t)
  PROVE  Sound(c, t) /\ Does(b, c, {e}) /\ Keeps(b, c)
<1>a. b \in Bases /\ e \in Users \ Deferred /\ e \in Evs BY Events DEF Sound
<1>1. PICK clock : clock = Time(b, t) OBVIOUS
<1>2. clock \in 1 .. MaxTime /\ clock <= t BY <1>1, ClockIs
<1>3. PICK delay : delay = b.ev_io_timeout[e] OBVIOUS
<1>4. delay \in Nat /\ delay <= MaxTime
  <2>1. delay \in Delays BY <1>3, <1>a, Fields
  <2> QED BY <2>1, EvLoopAssumption DEF Delays, NoTimeout, EvLoopAssumption
<1>5. CASE delay = NoTimeout
  <2>1. c = b BY <1>3, <1>5 DEF PersistReschedule
  <2>2. SamePlace(b, c) /\ Tells(b, c) /\ Continues(b, c) /\ Keeps(b, c)
    BY <2>1 DEF SamePlace, Tells, Continues, Keeps
  <2> QED BY <2>1, <2>2 DEF Does
<1>6. CASE delay # NoTimeout
  <2>1. PICK from : from = IF "TIMEOUT" \in b.ev_res[e] THEN b.ev_timeout[e] ELSE clock
    OBVIOUS
  <2>2. from \in Nat /\ from <= MaxTime
    <3>1. b.ev_timeout[e] \in Nat BY <1>a, Fields
    <3> QED BY <1>2, <2>1, <3>1, Events
  <2>3. PICK at \in Ats : at = IF delay + from < clock THEN clock + delay ELSE delay + from
    BY <1>2, <1>4, <2>2, Events DEF Ats
  <2>a. (e \in b.common) \in BOOLEAN OBVIOUS
  <2>4. PICK common \in BOOLEAN : common = (e \in b.common) BY <2>a
  <2>5. c = AddTimer(b, e, at, common, clock, FALSE)
    BY <1>1, <1>3, <1>6, <2>1, <2>3, <2>4 DEF PersistReschedule
  <2> QED BY <1>a, <2>5, TimerAdded
<1> QED BY <1>5, <1>6

LEMMA Expired ==
  ASSUME NEW b, NEW t, Sound(b, t), NEW e \in Flagged(b, "TIMEOUT"), b.ev_timeout[e] <= t,
         NEW c, c = Expire(b, e)
  PROVE  Sound(c, t) /\ Does(b, c, {}) /\ Keeps(b, c)
<1>a. b \in Bases /\ KindsOk(b) BY DEF Sound
<1>b. e \in Evs \ Deferred /\ e \in Used(b) BY <1>a, Fields DEF KindsOk, Used
<1>1. PICK d : d = EventDelNolock(b, e, FALSE) OBVIOUS
<1>2. /\ Sound(d, t) /\ Does(b, d, {}) /\ Gone(b, d, e)
      /\ e # timeout_event => Keeps(b, d)
  BY <1>1, <1>b, EventDeleted
<1>c. PICK res \in SUBSET Causes : res = {"TIMEOUT"} BY DEF Causes
<1>d. PICK need \in BOOLEAN : need = FALSE OBVIOUS
<1>3. c = EventActiveNolock(d, e, res, need) BY <1>1, <1>c, <1>d DEF Expire
<1>4. MayRaise(d, e, res, t) BY <1>2 DEF Gone, Less, MayRaise
<1>e. Raised(d, c, e, t, need) BY <1>2, <1>3, <1>4, <1>b, EventActivated
<1>5. /\ Sound(c, t) /\ Does(d, c, {e}) /\ Keeps(d, c)
      /\ Flagged(c, "ACTIVE") = Flagged(d, "ACTIVE") \cup {e}
  BY <1>e DEF Raised
<1>6. Does(b, c, {e}) BY <1>2, <1>5, DoesMore, DoesTwice
<1>7. Does(b, c, {}) BY <1>6, <1>b DEF Does
<1>8. Keeps(b, c)
  <2>1. CASE e # timeout_event BY <1>2, <1>5, <2>1 DEF Keeps
  <2>2. CASE e = timeout_event BY <1>5, <2>2 DEF Keeps, ListSet
  <2> QED BY <2>1, <2>2
<1> QED BY <1>5, <1>7, <1>8

---------------------------------------------------------------------------
(* The loops over the queues                                               *)

Step(kind, b, x, n) ==
  IF kind = "later" THEN MakeFirstActive(b)
  ELSE IF kind = "timer" THEN ExpireFirst(b, x)
  ELSE IF kind = "common" THEN ExpireCommon(b, x)
  ELSE ActivateWatched(b, x[n])
Runs(f, kind, b, x, N) ==
  f = [n \in 0 .. N |-> IF n = 0 THEN b ELSE Step(kind, f[n - 1], x, n)]

LEMMA RunExists ==
  ASSUME NEW kind, NEW b, NEW x, NEW N \in Nat PROVE \E f : Runs(f, kind, b, x, N)
<1> DEFINE Bad == {n \in Nat : ~\E f : Runs(f, kind, b, x, n)}
<1> SUFFICES ASSUME N \in Bad PROVE FALSE OBVIOUS
<1>1. PICK m \in Bad : \A k \in Bad : m <= k BY LeastOne
<1>2. m \in Nat /\ ~\E f : Runs(f, kind, b, x, m) OBVIOUS
<1>3. CASE m = 0
  <2> DEFINE f == [i \in 0 .. 0 |-> b]
  <2>1. Runs(f, kind, b, x, 0) BY DEF Runs
  <2> QED BY <1>2, <1>3, <2>1
<1>4. CASE m # 0
  <2>1. m - 1 \in Nat /\ m - 1 \notin Bad BY <1>1, <1>4
  <2>2. PICK g : Runs(g, kind, b, x, m - 1) BY <2>1
  <2>3. PICK f : f = [i \in 0 .. m |-> IF i < m THEN g[i] ELSE Step(kind, g[m - 1], x, m)]
    OBVIOUS
  <2>4. \A i \in 0 .. m : f[i] = IF i = 0 THEN b ELSE Step(kind, f[i - 1], x, i)
    <3> SUFFICES ASSUME NEW i \in 0 .. m
                 PROVE  f[i] = IF i = 0 THEN b ELSE Step(kind, f[i - 1], x, i)
      OBVIOUS
    <3>1. i # 0 => f[i - 1] = g[i - 1] BY <2>1, <2>3
    <3>2. CASE i = m BY <1>4, <2>3, <3>1, <3>2
    <3>3. CASE i # m
      <4>1. i \in 0 .. m - 1 /\ f[i] = g[i] BY <2>1, <2>3, <3>3
      <4>2. g[i] = IF i = 0 THEN b ELSE Step(kind, g[i - 1], x, i) BY <2>2, <4>1 DEF Runs
      <4> QED BY <3>1, <4>1, <4>2
    <3> QED BY <3>2, <3>3
  <2>5. Runs(f, kind, b, x, m) BY <2>3, <2>4 DEF Runs
  <2> QED BY <1>2, <2>5
<1> QED BY <1>3, <1>4

\* A function of the loop leaves the base sound, and does what all of them do.
Follows(kind, b, c, t) ==
  /\ Sound(c, t) /\ Does(b, c, {}) /\ Keeps(b, c)
  /\ kind = "later" => Quiet(b, c)

LEMMA FollowsSelf ==
  ASSUME NEW kind, NEW b, NEW t, Sound(b, t) PROVE Follows(kind, b, b, t)
<1>1. SamePlace(b, b) /\ Tells(b, b) /\ Continues(b, b)
  BY DEF SamePlace, Tells, Continues
<1> QED BY <1>1 DEF Follows, Does, Keeps, Quiet

LEMMA FollowsTwice ==
  ASSUME NEW kind, NEW b, NEW c, NEW d, NEW t, Follows(kind, b, c, t), Follows(kind, c, d, t)
  PROVE  Follows(kind, b, d, t)
<1>1. Does(b, d, {}) BY DoesTwice DEF Follows
<1> QED BY <1>1 DEF Follows, Keeps, Quiet

LEMMA LaterStep ==
  ASSUME NEW b, NEW t, Sound(b, t), NEW c, c = MakeFirstActive(b)
  PROVE  Follows("later", b, c, t)
<1>0. /\ b \in Bases /\ TimersOk(b) /\ QueuesOk(b) /\ KindsOk(b) /\ Elapsed(b, t) BY DEF Sound
<1>1. CASE b.active_later_queue = << >>
  <2>1. c = b BY <1>1 DEF MakeFirstActive
  <2> QED BY <2>1, FollowsSelf
<1>2. CASE b.active_later_queue # << >>
  <2>1. /\ c \in Bases /\ SameTimers(b, c) /\ SameKinds(b, c) /\ SameTurn(b, c)
        /\ QueuesOk(c)
    BY <1>0, <1>2, FirstMadeActive
  <2>2. PICK e \in Flagged(b, "ACTIVE_LATER") :
          /\ Flagged(c, "ACTIVE") = Flagged(b, "ACTIVE") \cup {e}
          /\ Flagged(c, "ACTIVE_LATER") = Flagged(b, "ACTIVE_LATER") \ {e}
    BY <1>0, <1>2, FirstMadeActive
  <2>3. e \in Deferred /\ b.ev_res[e] = {} BY <1>0 DEF KindsOk
  <2>4. TimersOk(c) BY <1>0, <2>1 DEF TimersOk, SameTimers
  <2>5. KindsOk(c) BY <1>0, <2>1, <2>2 DEF KindsOk, SameTimers, SameKinds
  <2>6. Elapsed(c, t)
    BY <1>0, <2>1, <2>2, <2>3 DEF Elapsed, SameTimers, SameKinds, SameTurn, SamePlace
  <2>7. Does(b, c, {})
    <3>1. SamePlace(b, c) /\ Tells(b, c) BY <2>1 DEF SameTurn, Tells
    <3>2. Continues(b, c) BY <2>1, <2>2, <2>3 DEF Continues, SameTurn
    <3>3. Used(c) \subseteq Used(b) \cup {} \cup Internal
      BY <2>1, <2>2 DEF Used, Busy, SameTimers, SameKinds
    <3> QED BY <3>1, <3>2, <3>3 DEF Does
  <2>8. Keeps(b, c) BY <2>1, <2>2 DEF Keeps, ListSet, InList, SameTimers
  <2>9. Quiet(b, c) BY <2>1, <2>2 DEF Quiet, Busy, InHeap, SameTimers
  <2> QED BY <2>1, <2>4, <2>5, <2>6, <2>7, <2>8, <2>9 DEF Follows, Sound
<1> QED BY <1>1, <1>2

LEMMA TimerStep ==
  ASSUME NEW b, NEW t, Sound(b, t), NEW x \in Int, t \in Int, x <= t,
         NEW c, c = ExpireFirst(b, x)
  PROVE  Follows("timer", b, c, t)
<1>0. b \in Bases /\ TimersOk(b) BY DEF Sound
<1>1. CASE b.timeheap # << >> /\ b.ev_timeout[b.timeheap[1]] <= x
  <2>1. PICK e : e = b.timeheap[1] OBVIOUS
  <2>2. c = Expire(b, e) /\ b.ev_timeout[e] <= x BY <1>1, <2>1 DEF ExpireFirst
  <2>3. e \in Flagged(b, "TIMEOUT") /\ e \in Evs
    BY <1>0, <1>1, <2>1, HeapFirst, Fields DEF InHeap
  <2>4. b.ev_timeout[e] <= t
    <3>1. b.ev_timeout[e] \in Nat BY <1>0, <2>3, Fields
    <3> QED BY <2>2, <3>1
  <2> QED BY <2>2, <2>3, <2>4, Expired DEF Follows
<1>2. CASE ~(b.timeheap # << >> /\ b.ev_timeout[b.timeheap[1]] <= x)
  <2>1. c = b BY <1>2 DEF ExpireFirst
  <2> QED BY <2>1, FollowsSelf
<1> QED BY <1>1, <1>2

LEMMA CommonStep ==
  ASSUME NEW b, NEW t, Sound(b, t), NEW x \in Int, t \in Int, x <= t,
         NEW c, c = ExpireCommon(b, x)
  PROVE  Follows("common", b, c, t)
<1>0. b \in Bases /\ TimersOk(b) BY DEF Sound
<1>1. CASE b.common_list # << >> /\ b.ev_timeout[Head(b.common_list)] <= x
  <2>1. PICK e : e = Head(b.common_list) OBVIOUS
  <2>2. c = Expire(b, e) /\ b.ev_timeout[e] <= x BY <1>1, <2>1 DEF ExpireCommon
  <2>3. e \in Flagged(b, "TIMEOUT") /\ e \in Evs
    BY <1>0, <1>1, <2>1, HeadFirst, Fields DEF InList
  <2>4. b.ev_timeout[e] <= t
    <3>1. b.ev_timeout[e] \in Nat BY <1>0, <2>3, Fields
    <3> QED BY <2>2, <3>1
  <2> QED BY <2>2, <2>3, <2>4, Expired DEF Follows
<1>2. CASE ~(b.common_list # << >> /\ b.ev_timeout[Head(b.common_list)] <= x)
  <2>1. c = b BY <1>2 DEF ExpireCommon
  <2> QED BY <2>1, FollowsSelf
<1> QED BY <1>1, <1>2

LEMMA ReadyStep ==
  ASSUME NEW b, NEW t, Sound(b, t), NEW e, NEW c, c = ActivateWatched(b, e),
         e \in Evs
  PROVE  Follows("ready", b, c, t)
<1>0. b \in Bases /\ KindsOk(b) BY DEF Sound
<1>1. CASE Has(b, e, "INSERTED")
  <2>1. e \in Flagged(b, "INSERTED") BY <1>1 DEF Flagged
  <2>2. e \in Evs \ Deferred /\ e \in Used(b) BY <1>0, <2>1, Events DEF KindsOk, Used
  <2>3. PICK res \in SUBSET Causes : res = {"READ"} BY DEF Causes
  <2>4. PICK need \in BOOLEAN : need = FALSE OBVIOUS
  <2>5. c = EventActiveNolock(b, e, res, need) BY <1>1, <2>3, <2>4 DEF ActivateWatched
  <2>6. MayRaise(b, e, res, t) BY <2>3 DEF MayRaise
  <2>7. Raised(b, c, e, t, need) BY <2>2, <2>5, <2>6, EventActivated
  <2>8. Sound(c, t) /\ Does(b, c, {e}) /\ Keeps(b, c) BY <2>7 DEF Raised
  <2>9. Does(b, c, {}) BY <2>2, <2>8 DEF Does
  <2> QED BY <2>8, <2>9 DEF Follows
<1>2. CASE ~Has(b, e, "INSERTED")
  <2>1. c = b BY <1>2 DEF ActivateWatched
  <2> QED BY <2>1, FollowsSelf
<1> QED BY <1>1, <1>2

\* Whatever it is called on, and at each of the places.
Steady(kind, x, N, t) ==
  \A d : \A n \in 1 .. N : Sound(d, t) => Follows(kind, d, Step(kind, d, x, n), t)

LEMMA Reached ==
  ASSUME NEW kind, NEW b, NEW t, Sound(b, t), NEW x, NEW N \in Nat, Steady(kind, x, N, t),
         NEW f, Runs(f, kind, b, x, N)
  PROVE  Follows(kind, b, f[N], t)
<1> DEFINE Bad == {i \in 0 .. N : ~Follows(kind, b, f[i], t)}
<1> SUFFICES ASSUME N \in Bad PROVE FALSE OBVIOUS
<1>1. Bad \in SUBSET Nat OBVIOUS
<1>2. PICK m \in Bad : \A k \in Bad : m <= k BY <1>1, LeastOne
<1>3. m \in 0 .. N /\ ~Follows(kind, b, f[m], t) OBVIOUS
<1>a. \A i \in 0 .. N : f[i] = IF i = 0 THEN b ELSE Step(kind, f[i - 1], x, i) BY DEF Runs
<1>4. m # 0 BY <1>3, <1>a, FollowsSelf
<1>5. m \in 1 .. N /\ m - 1 \in 0 .. N /\ m - 1 \notin Bad BY <1>2, <1>3, <1>4
<1>6. Follows(kind, b, f[m - 1], t) BY <1>5
<1>7. PICK d : d = f[m - 1] OBVIOUS
<1>8. Sound(d, t) BY <1>6, <1>7 DEF Follows
<1>9. Follows(kind, d, Step(kind, d, x, m), t) BY <1>5, <1>8 DEF Steady
<1>10. f[m] = Step(kind, d, x, m) BY <1>4, <1>7, <1>a, <1>3
<1> QED BY <1>3, <1>6, <1>7, <1>9, <1>10, FollowsTwice

RunsLater(f, b, N) ==
  f = [n \in 0 .. N |-> IF n = 0 THEN b ELSE MakeFirstActive(f[n - 1])]
RunsTimer(f, b, x, N) ==
  f = [n \in 0 .. N |-> IF n = 0 THEN b ELSE ExpireFirst(f[n - 1], x)]
RunsCommon(f, b, x, N) ==
  f = [n \in 0 .. N |-> IF n = 0 THEN b ELSE ExpireCommon(f[n - 1], x)]
RunsReady(f, b, x, N) ==
  f = [n \in 0 .. N |-> IF n = 0 THEN b ELSE ActivateWatched(f[n - 1], x[n])]

LEMMA RunsAre ==
  ASSUME NEW f, NEW b, NEW x, NEW N
  PROVE  /\ RunsLater(f, b, N) <=> Runs(f, "later", b, x, N)
         /\ RunsTimer(f, b, x, N) <=> Runs(f, "timer", b, x, N)
         /\ RunsCommon(f, b, x, N) <=> Runs(f, "common", b, x, N)
         /\ RunsReady(f, b, x, N) <=> Runs(f, "ready", b, x, N)
<1>1. /\ \A d, n : Step("later", d, x, n) = MakeFirstActive(d)
      /\ \A d, n : Step("timer", d, x, n) = ExpireFirst(d, x)
      /\ \A d, n : Step("common", d, x, n) = ExpireCommon(d, x)
      /\ \A d, n : Step("ready", d, x, n) = ActivateWatched(d, x[n])
  BY DEF Step
<1>2. RunsLater(f, b, N) <=> Runs(f, "later", b, x, N) BY <1>1 DEF RunsLater, Runs
<1>3. RunsTimer(f, b, x, N) <=> Runs(f, "timer", b, x, N) BY <1>1 DEF RunsTimer, Runs
<1>4. RunsCommon(f, b, x, N) <=> Runs(f, "common", b, x, N) BY <1>1 DEF RunsCommon, Runs
<1>5. RunsReady(f, b, x, N) <=> Runs(f, "ready", b, x, N) BY <1>1 DEF RunsReady, Runs
<1> QED BY <1>2, <1>3, <1>4, <1>5

LEMMA MadeLaterActive ==
  ASSUME NEW b, NEW t, Sound(b, t), NEW c, c = MakeLaterActive(b)
  PROVE  Follows("later", b, c, t)
<1>1. PICK N \in Nat : N = Len(b.active_later_queue) BY Fields DEF Sound
<1> DEFINE f == CHOOSE g : RunsLater(g, b, N)
<1>2. c = f[N] BY <1>1 DEF MakeLaterActive, RunsLater
<1>3. \E g : RunsLater(g, b, N) BY RunExists, RunsAre
<1>4. RunsLater(f, b, N) BY <1>3
<1> HIDE DEF f
<1>5. Runs(f, "later", b, 0, N) BY <1>4, RunsAre
<1>6. Steady("later", 0, N, t) BY LaterStep DEF Steady, Step
<1> QED BY <1>2, <1>5, <1>6, Reached

LEMMA TimeoutProcessed ==
  ASSUME NEW b, NEW t \in 1 .. MaxTime, Sound(b, t), NEW c, c = TimeoutProcess(b, t)
  PROVE  Follows("timer", b, c, t)
<1>1. PICK N \in Nat : N = Len(b.timeheap) BY Fields DEF Sound
<1>2. PICK x \in Int : x = Time(b, t) /\ x <= t BY ClockIs
<1> DEFINE f == CHOOSE g : RunsTimer(g, b, x, N)
<1>3. c = f[N] BY <1>1, <1>2 DEF TimeoutProcess, RunsTimer
<1>4. \E g : RunsTimer(g, b, x, N) BY RunExists, RunsAre
<1>5. RunsTimer(f, b, x, N) BY <1>4
<1> HIDE DEF f
<1>6. Runs(f, "timer", b, x, N) BY <1>5, RunsAre
<1>7. Steady("timer", x, N, t)
  <2>1. ASSUME NEW d, Sound(d, t) PROVE Follows("timer", d, ExpireFirst(d, x), t)
    BY <1>2, <2>1, TimerStep
  <2> QED BY <2>1 DEF Steady, Step
<1> QED BY <1>3, <1>6, <1>7, Reached

LEMMA ReadyActivated ==
  ASSUME NEW b, NEW t, Sound(b, t), NEW order \in Seq(Evs),
         NEW c, c = ActivateReady(b, order)
  PROVE  Follows("ready", b, c, t)
<1>1. PICK N \in Nat : N = Len(order) OBVIOUS
<1> DEFINE f == CHOOSE g : RunsReady(g, b, order, N)
<1>2. c = f[N] BY <1>1 DEF ActivateReady, RunsReady
<1>3. \E g : RunsReady(g, b, order, N) BY RunExists, RunsAre
<1>4. RunsReady(f, b, order, N) BY <1>3
<1> HIDE DEF f
<1>5. Runs(f, "ready", b, order, N) BY <1>4, RunsAre
<1>6. Steady("ready", order, N, t)
  <2>1. ASSUME NEW d, Sound(d, t), NEW n \in 1 .. N
        PROVE  Follows("ready", d, ActivateWatched(d, order[n]), t)
    <3>1. order[n] \in Evs BY <1>1
    <3> QED BY <2>1, <3>1, ReadyStep
  <2> QED BY <2>1 DEF Steady, Step
<1> QED BY <1>2, <1>5, <1>6, Reached

LEMMA CommonTimedOut ==
  ASSUME NEW b, NEW t \in 1 .. MaxTime, Sound(b, t), NEW c, c = CommonTimeoutCallback(b, t)
  PROVE  Sound(c, t) /\ Does(b, c, {}) /\ ListSet(c)
<1>1. PICK N \in Nat : N = Len(b.common_list) BY Fields DEF Sound
<1>2. PICK x \in Int : x = Time(b, t) /\ x <= t BY ClockIs
<1> DEFINE f == CHOOSE g : RunsCommon(g, b, x, N)
<1>a. PICK d : d = f[N] OBVIOUS
<1>3. c = IF d.common_list = << >> THEN d
          ELSE CommonTimeoutSchedule(d, Head(d.common_list), x, FALSE)
  BY <1>1, <1>2, <1>a DEF CommonTimeoutCallback, RunsCommon
<1>4. \E g : RunsCommon(g, b, x, N) BY RunExists, RunsAre
<1>5. RunsCommon(f, b, x, N) BY <1>4
<1> HIDE DEF f
<1>6. Runs(f, "common", b, x, N) BY <1>5, RunsAre
<1>7. Steady("common", x, N, t)
  <2>1. ASSUME NEW e, Sound(e, t) PROVE Follows("common", e, ExpireCommon(e, x), t)
    BY <1>2, <2>1, CommonStep
  <2> QED BY <2>1 DEF Steady, Step
<1>8. Follows("common", b, d, t) BY <1>a, <1>6, <1>7, Reached
<1>9. Sound(d, t) /\ Does(b, d, {}) BY <1>8 DEF Follows
<1>10. CASE d.common_list = << >>
  <2>1. d \in Bases /\ TimersOk(d) BY <1>9 DEF Sound
  <2>2. ListSet(d) BY <1>10, <2>1, HeadFirst DEF ListSet
  <2> QED BY <1>3, <1>9, <1>10, <2>2
<1>11. CASE d.common_list # << >>
  <2>1. PICK need \in BOOLEAN : need = FALSE OBVIOUS
  <2>2. c = CommonTimeoutSchedule(d, Head(d.common_list), x, need) BY <1>3, <1>11, <2>1
  <2>3. Sound(c, t) /\ Does(d, c, {}) /\ ListSet(c) BY <1>9, <1>11, <2>2, ListScheduled
  <2> QED BY <1>9, <2>3, DoesTwice
<1> QED BY <1>10, <1>11

---------------------------------------------------------------------------
(* The inductive invariant                                                 *)

\* Every variable but base has its type.
Rest ==
  /\ now \in 1 .. MaxTime
  /\ readable \subseteq Io /\ ready \subseteq IoEvs
  /\ pc \in {"stopped", "top", "wait", "polled", "process", "call", "drained", "return"}
  /\ wake \in -1 .. MaxTime /\ index \in 0 .. NumPri /\ real \in BOOLEAN
  /\ other \in [state : {"idle", "waiting", "woken"}, event : Users \cup {None}]
  /\ leaked \in {"nobody", "loop", "other"} /\ calls \in 0 .. MaxCalls
  /\ wanted \subseteq Users

Scheduled == ListSet(base) \/ (pc = "call" /\ base.current_event = timeout_event)

Running == pc \in {"call", "drained", "return"}

\* What the two threads know of each other, and the loop of its notification.
Threads ==
  /\ base.current_event # None <=> Running
  /\ base.current_event_waiters = IF other.state = "waiting" THEN 1 ELSE 0
  /\ other.state = "waiting" => other.event = base.current_event
  /\ IF other.state = "idle" THEN other = Idle ELSE other.event \in Users
  /\ Told(base) \/ pc = "drained"

\* While callbacks run, nothing that is active is more important than the queue
\* that they come from, or the loop will start again from the first queue.
Important ==
  /\ Running => base.event_running_priority = index
  /\ pc = "process" /\ real = TRUE /\ base.event_continue = FALSE
       => base.event_running_priority = index
  /\ Running \/ pc = "process" =>
       \/ base.event_continue = TRUE
       \/ \A f \in Users \ Deferred : f \in Flagged(base, "ACTIVE") => Prio(f) >= index

\* A loop that sleeps longer has nothing to do.
Asleep ==
  pc = "wait" /\ (wake = -1 \/ now < wake) =>
    \/ base.notify_fd = TRUE
    \/ /\ Busy(base) = {} /\ base.event_break = FALSE
       /\ wake = -1 => InHeap(base) = {}

OnlyWanted == Used(base) \cap Users \subseteq wanted

IInv ==
  Rest /\ Sound(base, now) /\ Scheduled /\ Threads /\ Important /\ Asleep /\ OnlyWanted

LEMMA NoneActive ==
  ASSUME NEW b \in Bases
  PROVE  NumActive(b) \in Nat /\ (NumActive(b) = 0 <=> Busy(b) = {})
<1>1. {e \in Evs : Active(b, e)} = Busy(b) BY DEF Active, Busy, Flagged, Has
<1>2. IsFiniteSet(Busy(b))
  <2>1. Busy(b) \in SUBSET Evs BY Fields DEF Busy
  <2> QED BY <2>1, Events, FS_Subset
<1>3. NumActive(b) = Cardinality(Busy(b)) BY <1>1 DEF NumActive
<1> QED BY <1>2, <1>3, FS_CardinalityType, FS_EmptySet

LEMMA UsedIs ==
  ASSUME NEW b \in Bases, NEW e \in Evs
  PROVE  b.flags[e] # {} <=> e \in Used(b)
<1>1. b.flags[e] \in SUBSET Flags BY Fields
<1> QED BY <1>1 DEF Flags, Used, Busy, Flagged, Has

LEMMA InvHolds == IInv => Inv /\ NoLostWakeup /\ DeleteHolds
<1> SUFFICES ASSUME IInv PROVE Inv /\ NoLostWakeup /\ DeleteHolds OBVIOUS
<1>1. /\ Rest /\ Scheduled /\ Threads /\ Asleep /\ OnlyWanted
      /\ base \in Bases /\ TimersOk(base) /\ QueuesOk(base) /\ KindsOk(base)
      /\ Elapsed(base, now)
  BY DEF IInv, Sound
<1>2. TypeOK
  <2>1. /\ base.flags \in [Evs -> SUBSET Flags] /\ base.ev_res \in [Evs -> SUBSET Causes]
        /\ base.ev_timeout \in [Evs -> Ats] /\ base.ev_io_timeout \in [Evs -> Delays]
        /\ base.event_running_priority \in Prios \cup {-1}
        /\ base.current_event \in Evs \cup {None} /\ base.current_event_waiters \in 0 .. 1
        /\ base.tv_cache \in 0 .. MaxTime
    BY <1>1, Fields
  <2>2. base.tv_cache \in 0 .. now BY <1>1, <2>1, Events DEF Elapsed, Rest
  <2>3. base.ev_io_timeout \in [Evs -> Durs \cup {NoTimeout}] BY <2>1 DEF Delays
  <2> QED BY <1>1, <2>1, <2>2, <2>3 DEF TypeOK, Rest, Flags, Causes, Ats
<1>3. BaseOk(base)
  <2>1. /\ IsHeap(base.timeheap, base.ev_timeout)
        /\ IsInjective(base.timeheap) /\ IsInjective(base.common_list)
        /\ Lists(base.timeheap, Flagged(base, "TIMEOUT") \ base.common)
        /\ Lists(base.common_list, Flagged(base, "TIMEOUT") \cap base.common)
    BY <1>1 DEF TimersOk, Holds
  <2>2. \A j, k \in DOMAIN base.common_list :
          j < k => base.ev_timeout[base.common_list[j]] <= base.ev_timeout[base.common_list[k]]
    BY <1>1 DEF TimersOk, InTime
  <2>3. \A p \in Prios :
          /\ IsInjective(base.activequeues[p])
          /\ Lists(base.activequeues[p], {e \in Flagged(base, "ACTIVE") : Prio(e) = p})
    BY <1>1 DEF QueuesOk, Holds
  <2>4. /\ IsInjective(base.active_later_queue)
        /\ Lists(base.active_later_queue, Flagged(base, "ACTIVE_LATER"))
        /\ Flagged(base, "ACTIVE") \cap Flagged(base, "ACTIVE_LATER") = {}
    BY <1>1 DEF QueuesOk, Holds
  <2> QED BY <2>1, <2>2, <2>3, <2>4 DEF BaseOk
<1>4. CommonScheduled
  <2>1. CASE ~ListSet(base) BY <1>1, <2>1 DEF Scheduled, CommonScheduled
  <2>2. CASE ListSet(base)
    <3>1. CASE base.common_list = << >> BY <3>1 DEF CommonScheduled, CommonSet
    <3>2. CASE base.common_list # << >>
      <4>1. Head(base.common_list) \in InList(base) BY <1>1, <3>2, HeadFirst
      <4>2. \/ timeout_event \in Flagged(base, "ACTIVE")
            \/ /\ timeout_event \in Flagged(base, "TIMEOUT")
               /\ base.ev_timeout[timeout_event] <= base.ev_timeout[Head(base.common_list)]
        BY <2>2, <4>1 DEF ListSet
      <4> QED BY <4>2 DEF CommonScheduled, CommonSet, Flagged
    <3> QED BY <3>1, <3>2
  <2> QED BY <2>1, <2>2
<1>5. TimeoutsElapsed
  <2> SUFFICES ASSUME NEW e \in Users \ Exits, Active(base, e), "TIMEOUT" \in base.ev_res[e]
               PROVE  base.ev_timeout[e] <= now
    BY DEF TimeoutsElapsed
  <2>1. e \in Busy(base) BY Events DEF Active, Busy, Flagged, Has
  <2>2. e \notin Flagged(base, "ACTIVE_LATER") BY <1>1 DEF KindsOk
  <2> QED BY <1>1, <2>1, <2>2 DEF Busy, Elapsed
<1>6. NoLostWakeup
  <2> SUFFICES ASSUME pc = "wait", wake = -1 \/ now < wake, ~base.notify_fd
               PROVE  /\ NumActive(base) = 0 /\ ~base.event_break
                      /\ wake = -1 => base.timeheap = << >>
    BY DEF NoLostWakeup
  <2>1. /\ Busy(base) = {} /\ base.event_break = FALSE
        /\ wake = -1 => InHeap(base) = {}
    BY <1>1 DEF Asleep
  <2> QED BY <1>1, <2>1, NoneActive, HeapFirst
<1>7. DeletedStaysDeleted
  <2> SUFFICES ASSUME NEW e \in Users, base.flags[e] # {} PROVE e \in wanted
    BY DEF DeletedStaysDeleted
  <2>1. e \in Used(base) BY <1>1, UsedIs, Events
  <2> QED BY <1>1, <2>1 DEF OnlyWanted
<1>8. DelWaits BY <1>1 DEF Threads, DelWaits
<1> QED BY <1>2, <1>3, <1>4, <1>5, <1>6, <1>7, <1>8 DEF Inv, DeleteHolds

---------------------------------------------------------------------------
(* The first state, and the steps that only change fields of the base      *)

LEMMA InitHolds == Init => IInv
<1> SUFFICES ASSUME Init PROVE IInv OBVIOUS
<1>1. /\ base = NewBase /\ now = 1 /\ readable = {} /\ pc = "stopped" /\ wake = -1
      /\ ready = {} /\ index = 0 /\ real = FALSE /\ other = Idle /\ leaked = "nobody"
      /\ calls = MaxCalls /\ wanted = {}
  BY DEF Init
<1>2. base \in Bases
  <2>1. 0 \in Ats /\ 0 \in 0 .. MaxTime BY Events DEF Ats
  <2>2. NoTimeout \in Delays BY Events DEF Delays, NoTimeout
  <2>3. \A e \in Evs : (IF e = th_notify THEN {"INSERTED"} ELSE {}) \in SUBSET Flags BY DEF Flags
  <2>4. << >> \in Seq(Evs) OBVIOUS
  <2> QED BY <1>1, <2>1, <2>2, <2>3, <2>4 DEF NewBase, Bases
<1>3. /\ Flagged(base, "TIMEOUT") = {} /\ Flagged(base, "ACTIVE") = {}
      /\ Flagged(base, "ACTIVE_LATER") = {} /\ Flagged(base, "INSERTED") = {th_notify}
  BY <1>1, Events DEF NewBase, Flagged, Has
<1>4. Holds(<< >>, {}) BY DEF Holds, Lists, IsInjective
<1>5. TimersOk(base)
  <2>1. IsHeap(base.timeheap, base.ev_timeout) BY <1>1 DEF NewBase, IsHeap
  <2>2. InTime(base.common_list, base.ev_timeout) BY <1>1 DEF NewBase, InTime
  <2> QED BY <1>1, <1>3, <1>4, <2>1, <2>2 DEF NewBase, TimersOk
<1>6. QueuesOk(base)
  <2>1. \A p \in Prios : {e \in Flagged(base, "ACTIVE") : Prio(e) = p} = {} BY <1>3
  <2>2. \A p \in Prios : base.activequeues[p] = << >> BY <1>1 DEF NewBase
  <2> QED BY <1>1, <1>3, <1>4, <2>1, <2>2 DEF NewBase, QueuesOk
<1>7. KindsOk(base)
  <2>1. \A e \in Deferred : base.ev_res[e] = {} BY <1>1, Events DEF NewBase
  <2>2. timeout_event \notin base.common BY <1>1 DEF NewBase
  <2> QED BY <1>3, <2>1, <2>2 DEF KindsOk, IoEvs
<1>8. Elapsed(base, now) BY <1>1, <1>3 DEF NewBase, Elapsed
<1>9. Rest
  <2>1. Idle \in [state : {"idle", "waiting", "woken"}, event : Users \cup {None}] BY DEF Idle
  <2>2. MaxCalls \in Nat BY EvLoopAssumption DEF EvLoopAssumption
  <2>3. now \in 1 .. MaxTime /\ wake \in -1 .. MaxTime /\ index \in 0 .. NumPri
        /\ calls \in 0 .. MaxCalls
    BY <1>1, <2>2, Events
  <2> QED BY <1>1, <2>1, <2>3 DEF Rest
<1>10. Scheduled BY <1>3 DEF Scheduled, ListSet, InList
<1>11. Threads
  <2>1. base.current_event = None /\ base.current_event_waiters = 0
        /\ base.is_notify_pending = FALSE
    BY <1>1 DEF NewBase
  <2> QED BY <1>1, <2>1 DEF Threads, Running, Idle, Told
<1>12. Important /\ Asleep BY <1>1 DEF Important, Running, Asleep
<1>13. OnlyWanted BY <1>3, Events DEF OnlyWanted, Used, Busy, Internal
<1> QED BY <1>2, <1>5, <1>6, <1>7, <1>8, <1>9, <1>10, <1>11, <1>12, <1>13 DEF IInv, Sound

LEMMA Replaced ==
  ASSUME NEW b, NEW t, Sound(b, t), NEW c, Alike(b, c), c.tv_cache <= t
  PROVE  /\ Sound(c, t) /\ ListSet(c) = ListSet(b) /\ Used(c) = Used(b)
         /\ Busy(c) = Busy(b) /\ InHeap(c) = InHeap(b)
         /\ Flagged(c, "ACTIVE") = Flagged(b, "ACTIVE")
<1>1. /\ c \in Bases /\ c.ev_timeout = b.ev_timeout /\ c.common = b.common
      /\ c.timeheap = b.timeheap /\ c.common_list = b.common_list
      /\ c.activequeues = b.activequeues /\ c.active_later_queue = b.active_later_queue
      /\ c.ev_res = b.ev_res
      /\ Flagged(c, "TIMEOUT") = Flagged(b, "TIMEOUT")
      /\ Flagged(c, "INSERTED") = Flagged(b, "INSERTED")
      /\ Flagged(c, "ACTIVE") = Flagged(b, "ACTIVE")
      /\ Flagged(c, "ACTIVE_LATER") = Flagged(b, "ACTIVE_LATER")
  BY DEF Alike, SameTimers, SameQueues, SameKinds
<1>2. TimersOk(c) BY <1>1 DEF Sound, TimersOk
<1>3. QueuesOk(c) BY <1>1 DEF Sound, QueuesOk
<1>4. KindsOk(c) BY <1>1 DEF Sound, KindsOk
<1>5. Elapsed(c, t) BY <1>1 DEF Sound, Elapsed
<1>6. ListSet(c) = ListSet(b) BY <1>1 DEF ListSet, InList
<1>7. Used(c) = Used(b) /\ Busy(c) = Busy(b) /\ InHeap(c) = InHeap(b)
  BY <1>1 DEF Used, Busy, InHeap
<1> QED BY <1>1, <1>2, <1>3, <1>4, <1>5, <1>6, <1>7 DEF Sound

\* A step after which IInv holds, and no other callback runs than before it.
Kept == IInv' /\ (base'.current_event = base.current_event \/ base'.current_event = None)

\* What a call of the program does to the base, if it may be made at all.
Serves(T) ==
  /\ Sound(base', now) /\ Does(base, base', T) /\ Keeps(base, base')
  /\ pc = "wait" => Wakes(base, base')

LEMMA CallHolds ==
  ASSUME IInv, pc \notin {"top", "process"}, NEW T, Serves(T), Rest',
         loopVars' = loopVars, now' = now,
         other' = other \/ (other.state = "woken" /\ other' = Idle), OnlyWanted'
  PROVE  Kept
<1>1. /\ Sound(base, now) /\ Scheduled /\ Threads /\ Important /\ Asleep
      /\ base \in Bases
  BY DEF IInv, Sound
<1>2. /\ pc' = pc /\ wake' = wake /\ index' = index /\ real' = real BY DEF loopVars
<1>3. /\ Sound(base', now') /\ SamePlace(base, base') /\ Tells(base, base')
      /\ Continues(base, base') /\ Keeps(base, base') /\ base' \in Bases
  BY DEF Serves, Does, Sound
<1>4. /\ base'.current_event = base.current_event
      /\ base'.current_event_waiters = base.current_event_waiters
      /\ base'.event_break = base.event_break
      /\ base'.event_running_priority = base.event_running_priority
  BY <1>3 DEF SamePlace
<1>5. Scheduled' BY <1>1, <1>2, <1>3, <1>4 DEF Scheduled, Keeps
<1>6. Running' <=> Running BY <1>2 DEF Running
<1>7. Threads'
  <2>1. (Told(base) \/ pc = "drained")' BY <1>1, <1>2, <1>3 DEF Threads, Told, Tells
  <2>2. (base.current_event # None <=> Running)' BY <1>1, <1>4, <1>6 DEF Threads
  <2>3. CASE other' = other BY <1>1, <1>4, <2>1, <2>2, <2>3 DEF Threads
  <2>4. CASE other.state = "woken" /\ other' = Idle
    <3>1. other'.state = "idle" BY <2>4 DEF Idle
    <3> QED BY <1>1, <1>4, <2>1, <2>2, <2>4, <3>1 DEF Threads
  <2> QED BY <2>3, <2>4
<1>8. Important'
  <2>1. (Running => base.event_running_priority = index)'
    BY <1>1, <1>2, <1>4, <1>6 DEF Important
  <2>2. ASSUME Running, base'.event_continue # TRUE,
               NEW f \in Users \ Deferred, f \in Flagged(base', "ACTIVE")
        PROVE  Prio(f) >= index
    <3>1. f \in Flagged(base, "ACTIVE") \/ Prio(f) >= base.event_running_priority
      BY <1>3, <2>2 DEF Continues
    <3>2. base.event_running_priority = index BY <1>1, <2>2 DEF Important
    <3>3. base.event_continue # TRUE BY <1>3, <2>2 DEF Continues
    <3> QED BY <1>1, <2>2, <3>1, <3>2, <3>3 DEF Important
  <2>3. pc' # "process" BY <1>2
  <2> QED BY <1>2, <1>6, <2>1, <2>2, <2>3 DEF Important
<1>9. Asleep'
  <2> SUFFICES ASSUME pc = "wait", wake = -1 \/ now < wake
               PROVE  \/ base'.notify_fd = TRUE
                      \/ /\ Busy(base') = {} /\ base'.event_break = FALSE
                         /\ wake = -1 => InHeap(base') = {}
    BY <1>2 DEF Asleep
  <2>1. \/ base.notify_fd = TRUE
        \/ /\ Busy(base) = {} /\ base.event_break = FALSE
           /\ wake = -1 => InHeap(base) = {}
    BY <1>1 DEF Asleep
  <2>2. Told(base) BY <1>1 DEF Threads
  <2>3. base'.notify_fd = TRUE \/ Quiet(base, base') BY <2>2 DEF Serves, Wakes
  <2> QED BY <1>3, <1>4, <2>1, <2>3 DEF Tells, Quiet
<1> QED BY <1>3, <1>4, <1>5, <1>7, <1>8, <1>9 DEF IInv, Kept

---------------------------------------------------------------------------
(* The calls of the program                                                *)

Callers == {"loop", "other"}

LEMMA CallIs ==
  ASSUME IInv, NEW t \in Callers, Callable(t)
  PROVE  /\ calls \in Nat /\ calls > 0 /\ calls <= MaxCalls /\ pc \notin {"top", "process"}
         /\ pc = "wait" => NeedNotify(t) = TRUE
         /\ NeedNotify(t) \in BOOLEAN
         /\ now \in 1 .. MaxTime /\ Sound(base, now) /\ wanted \in SUBSET Users
         /\ Used(base) \cap Users \subseteq wanted
<1>1. /\ calls > 0 /\ Unlocked(t)
      /\ IF t = "loop" THEN pc = "call" /\ base.current_event \in Users \ Exits ELSE other = Idle
  BY DEF Callable
<1>2. MaxCalls \in Nat BY EvLoopAssumption DEF EvLoopAssumption
<1>3. pc \notin {"top", "process"} BY <1>1 DEF Unlocked
<1>4. pc = "wait" => NeedNotify(t) = TRUE BY <1>1 DEF NeedNotify, Callers
<1>5. NeedNotify(t) \in BOOLEAN BY DEF NeedNotify
<1>6. /\ calls \in 0 .. MaxCalls /\ now \in 1 .. MaxTime /\ Sound(base, now)
      /\ wanted \in SUBSET Users /\ Used(base) \cap Users \subseteq wanted
  BY DEF IInv, Rest, OnlyWanted
<1> QED BY <1>1, <1>2, <1>3, <1>4, <1>5, <1>6

LEMMA RestHolds ==
  ASSUME IInv, now' = now, loopVars' = loopVars, readable' = readable,
         leaked' \in {"nobody", "loop", "other"}, other' = other \/ other' = Idle,
         calls' = calls \/ (calls > 0 /\ calls' = calls - 1), wanted' \in SUBSET Users
  PROVE  Rest'
<1>1. Rest BY DEF IInv
<1>2. /\ pc' = pc /\ wake' = wake /\ index' = index /\ real' = real /\ ready' = ready
  BY DEF loopVars
<1>3. calls' \in 0 .. MaxCalls
  <2>1. calls \in 0 .. MaxCalls BY <1>1 DEF Rest
  <2>2. MaxCalls \in Nat BY EvLoopAssumption DEF EvLoopAssumption
  <2> QED BY <2>1, <2>2
<1>4. other' \in [state : {"idle", "waiting", "woken"}, event : Users \cup {None}]
  <2>1. Idle \in [state : {"idle", "waiting", "woken"}, event : Users \cup {None}] BY DEF Idle
  <2>2. other \in [state : {"idle", "waiting", "woken"}, event : Users \cup {None}]
    BY <1>1 DEF Rest
  <2> QED BY <2>1, <2>2
<1> QED BY <1>1, <1>2, <1>3, <1>4 DEF Rest

\* A call that leaves only events on the lists that the program wants.
LEMMA CallDone ==
  ASSUME IInv, NEW t \in Callers, Callable(t), NEW T, Serves(T), Called,
         UNCHANGED <<loopVars, now, readable, other, leaked>>,
         wanted' \in SUBSET Users, Used(base') \cap Users \subseteq wanted'
  PROVE  Kept
<1>1. pc \notin {"top", "process"} /\ calls > 0 BY CallIs
<1>2. leaked' \in {"nobody", "loop", "other"} BY DEF IInv, Rest
<1>3. loopVars' = loopVars OBVIOUS
<1>4. Rest' BY <1>1, <1>2, <1>3, RestHolds DEF Called
<1>5. OnlyWanted' BY DEF OnlyWanted
<1> QED BY <1>1, <1>3, <1>4, <1>5, CallHolds

LEMMA CallAdds ==
  ASSUME IInv, NEW t \in Callers, Callable(t), NEW T \in SUBSET Users,
         Sound(base', now), Does(base, base', T), Keeps(base, base'),
         NeedNotify(t) = TRUE => Wakes(base, base'), Called,
         UNCHANGED <<loopVars, now, readable, other, leaked>>, wanted' = wanted \cup T
  PROVE  Kept
<1>1. /\ wanted \in SUBSET Users /\ Used(base) \cap Users \subseteq wanted
      /\ pc = "wait" => NeedNotify(t) = TRUE
  BY CallIs
<1>2. Used(base') \subseteq Used(base) \cup T \cup Internal BY DEF Does
<1>3. Used(base') \cap Users \subseteq wanted' BY <1>1, <1>2, Events
<1>4. wanted' \in SUBSET Users BY <1>1
<1>5. Serves(T) BY <1>1 DEF Serves
<1> QED BY <1>3, <1>4, <1>5, CallDone

LEMMA CallDeletes ==
  ASSUME IInv, NEW t \in Callers, Callable(t), NEW e \in Users,
         Sound(base', now), Does(base, base', {}), Keeps(base, base'), Wakes(base, base'),
         e \notin Used(base'), Called,
         UNCHANGED <<loopVars, now, readable, other, leaked>>, wanted' = wanted \ {e}
  PROVE  Kept
<1>1. wanted \in SUBSET Users /\ Used(base) \cap Users \subseteq wanted BY CallIs
<1>2. Used(base') \subseteq Used(base) \cup {} \cup Internal BY DEF Does
<1>3. Used(base') \cap Users \subseteq wanted' BY <1>1, <1>2, Events
<1>4. wanted' \in SUBSET Users BY <1>1
<1>5. Serves({}) BY DEF Serves
<1> QED BY <1>3, <1>4, <1>5, CallDone

LEMMA EventAddHolds ==
  ASSUME IInv, NEW t \in Callers, NEW e \in Plain, NEW tv \in Durs \cup {NoTimeout},
         EventAdd(t, e, tv)
  PROVE  Kept
<1>1. /\ Callable(t) /\ Time(base, now) + tv <= MaxTime + 1
      /\ base' = EventAddNolock(base, e, tv, now, NeedNotify(t))
      /\ Called /\ wanted' = wanted \cup {e}
      /\ UNCHANGED <<loopVars, now, readable, other, leaked>>
  BY DEF EventAdd
<1>2. Sound(base, now) /\ now \in 1 .. MaxTime /\ NeedNotify(t) \in BOOLEAN BY <1>1, CallIs
<1>3. e \in Users \ Deferred BY DEF Plain
<1>4. PICK need \in BOOLEAN : need = NeedNotify(t) BY <1>2
<1>5. base' = EventAddNolock(base, e, tv, now, need) BY <1>1, <1>4
<1>6. /\ Sound(base', now) /\ Does(base, base', {e}) /\ Keeps(base, base')
      /\ need = TRUE => Wakes(base, base')
  BY <1>1, <1>2, <1>3, <1>5, EventAdded
<1> QED BY <1>1, <1>3, <1>4, <1>6, CallAdds

LEMMA EventActiveHolds ==
  ASSUME IInv, NEW t \in Callers, NEW e \in Plain, EventActive(t, e)
  PROVE  Kept
<1>1. /\ Callable(t)
      /\ base' = EventActiveNolock(base, e, {"READ"}, NeedNotify(t))
      /\ Called /\ wanted' = wanted \cup {e}
      /\ UNCHANGED <<loopVars, now, readable, other, leaked>>
  BY DEF EventActive
<1>2. Sound(base, now) /\ now \in 1 .. MaxTime /\ NeedNotify(t) \in BOOLEAN BY <1>1, CallIs
<1>3. e \in Evs \ Deferred /\ {e} \in SUBSET Users BY Events DEF Plain
<1>4. PICK need \in BOOLEAN : need = NeedNotify(t) BY <1>2
<1>5. PICK res \in SUBSET Causes : res = {"READ"} BY DEF Causes
<1>6. base' = EventActiveNolock(base, e, res, need) BY <1>1, <1>4, <1>5
<1>7. MayRaise(base, e, res, now) BY <1>5 DEF MayRaise
<1>8. Raised(base, base', e, now, need) BY <1>2, <1>3, <1>6, <1>7, EventActivated
<1>9. /\ Sound(base', now) /\ Does(base, base', {e}) /\ Keeps(base, base')
      /\ need = TRUE => Wakes(base, base')
  BY <1>8 DEF Raised
<1> QED BY <1>1, <1>3, <1>4, <1>9, CallAdds

LEMMA LoopexitHolds ==
  ASSUME IInv, NEW t \in Callers, NEW e \in Exits, NEW tv \in ExitDurs,
         EventBaseLoopexit(t, e, tv)
  PROVE  Kept
<1>1. /\ Callable(t) /\ Time(base, now) + tv <= MaxTime + 1
      /\ base' = IF tv = NoTimeout
                 THEN EventActiveNolock(base, e, {"TIMEOUT"}, NeedNotify(t))
                 ELSE EventAddNolock(base, e, tv, now, NeedNotify(t))
      /\ Called /\ wanted' = wanted \cup {e}
      /\ UNCHANGED <<loopVars, now, readable, other, leaked>>
  BY DEF EventBaseLoopexit
<1>2. Sound(base, now) /\ now \in 1 .. MaxTime /\ NeedNotify(t) \in BOOLEAN BY <1>1, CallIs
<1>3. e \in Evs \ Deferred /\ {e} \in SUBSET Users /\ e \in Users \ Deferred BY Events
<1>4. PICK need \in BOOLEAN : need = NeedNotify(t) BY <1>2
<1>5. /\ Sound(base', now) /\ Does(base, base', {e}) /\ Keeps(base, base')
      /\ need = TRUE => Wakes(base, base')
  <2>1. CASE tv = NoTimeout
    <3>1. PICK res \in SUBSET Causes : res = {"TIMEOUT"} BY DEF Causes
    <3>2. base' = EventActiveNolock(base, e, res, need) BY <1>1, <1>4, <2>1, <3>1
    <3>3. MayRaise(base, e, res, now) BY DEF MayRaise
    <3>4. Raised(base, base', e, now, need) BY <1>2, <1>3, <3>2, <3>3, EventActivated
    <3> QED BY <3>4 DEF Raised
  <2>2. CASE tv # NoTimeout
    <3>1. base' = EventAddNolock(base, e, tv, now, need) BY <1>1, <1>4, <2>2
    <3>2. tv \in Durs \cup {NoTimeout} BY EvLoopAssumption DEF EvLoopAssumption
    <3> QED BY <1>1, <1>2, <1>3, <3>1, <3>2, EventAdded
  <2> QED BY <2>1, <2>2
<1> QED BY <1>1, <1>3, <1>4, <1>5, CallAdds

LEMMA DeferredHolds ==
  ASSUME IInv, NEW t \in Callers, NEW e \in Deferred,
         EventDeferredCbSchedule(t, e) \/ EventDeferredCbCancel(t, e)
  PROVE  Kept
<1>1. e \in Users /\ e \in Evs /\ {e} \in SUBSET Users /\ e # timeout_event
  BY Events DEF Internal
<1>2. CASE EventDeferredCbSchedule(t, e)
  <2>1. /\ Callable(t) /\ base' = DeferredSchedule(base, e, NeedNotify(t))
        /\ Called /\ wanted' = wanted \cup {e}
        /\ UNCHANGED <<loopVars, now, readable, other, leaked>>
    BY <1>2 DEF EventDeferredCbSchedule
  <2>2. Sound(base, now) /\ NeedNotify(t) \in BOOLEAN BY <2>1, CallIs
  <2>3. PICK need \in BOOLEAN : need = NeedNotify(t) BY <2>2
  <2>4. base' = DeferredSchedule(base, e, need) BY <2>1, <2>3
  <2>5. /\ Sound(base', now) /\ Does(base, base', {e}) /\ Keeps(base, base')
        /\ need = TRUE => Wakes(base, base')
    BY <2>2, <2>4, DeferredScheduled
  <2> QED BY <1>1, <2>1, <2>3, <2>5, CallAdds
<1>3. CASE EventDeferredCbCancel(t, e)
  <2>1. /\ Callable(t) /\ base' = RemoveFromActive(base, e)
        /\ Called /\ wanted' = wanted \ {e}
        /\ UNCHANGED <<loopVars, now, readable, other, leaked>>
    BY <1>3 DEF EventDeferredCbCancel
  <2>2. Sound(base, now) BY <2>1, CallIs
  <2>3. /\ Sound(base', now) /\ Does(base, base', {}) /\ Wakes(base, base')
        /\ Keeps(base, base') /\ e \notin Used(base')
    BY <1>1, <2>1, <2>2, Cancelled
  <2> QED BY <1>1, <2>1, <2>3, CallDeletes
<1> QED BY <1>2, <1>3

LEMMA RemoveTimerHolds ==
  ASSUME IInv, NEW t \in Callers, NEW e \in Plain, EventRemoveTimer(t, e)
  PROVE  Kept
<1>1. /\ Callable(t) /\ base' = RemoveTimer(base, e) /\ Called /\ wanted' = wanted \cup {}
      /\ UNCHANGED <<loopVars, now, readable, other, leaked>>
  BY DEF EventRemoveTimer
<1>2. Sound(base, now) /\ e \in Users BY <1>1, CallIs DEF Plain
<1>3. Sound(base', now) /\ Does(base, base', {}) /\ Wakes(base, base') /\ Keeps(base, base')
  BY <1>1, <1>2, TimerRemoved
<1> QED BY <1>1, <1>3, CallAdds

\* A step that changes only fields which the lists do not depend on.
LEMMA FieldsHold ==
  ASSUME IInv, Alike(base, base'), base'.tv_cache <= now, now' = now, wanted' = wanted
  PROVE  /\ Sound(base', now') /\ OnlyWanted' /\ ListSet(base') = ListSet(base)
         /\ Busy(base') = Busy(base) /\ InHeap(base') = InHeap(base)
         /\ Flagged(base', "ACTIVE") = Flagged(base, "ACTIVE")
<1>1. Sound(base, now) /\ OnlyWanted BY DEF IInv
<1>2. /\ Sound(base', now) /\ ListSet(base') = ListSet(base) /\ Used(base') = Used(base)
      /\ Busy(base') = Busy(base) /\ InHeap(base') = InHeap(base)
      /\ Flagged(base', "ACTIVE") = Flagged(base, "ACTIVE")
  BY <1>1, Replaced
<1> QED BY <1>1, <1>2 DEF OnlyWanted

\* Where the loop is with its callbacks.
PutPlace(b, e, w, p) ==
  [b EXCEPT !.current_event = e, !.current_event_waiters = w, !.event_running_priority = p]

Placed(b, c, e, w, p) ==
  /\ Alike(b, c) /\ c.current_event = e /\ c.current_event_waiters = w
  /\ c.event_running_priority = p /\ c.event_break = b.event_break
  /\ c.event_gotterm = b.event_gotterm /\ c.event_continue = b.event_continue
  /\ c.is_notify_pending = b.is_notify_pending /\ c.notify_fd = b.notify_fd
  /\ c.tv_cache = b.tv_cache

LEMMA PlacePut ==
  ASSUME NEW b \in Bases, NEW e \in Evs \cup {None}, NEW w \in 0 .. 1,
         NEW p \in Prios \cup {-1}, NEW c, c = PutPlace(b, e, w, p)
  PROVE  Placed(b, c, e, w, p)
<1>1. c \in Bases BY DEF PutPlace, Bases
<1>2. Alike(b, c) BY <1>1, AlikeIs DEF PutPlace, Bases
<1> QED BY <1>2 DEF PutPlace, Bases, Placed

LEMMA EventDelHolds ==
  ASSUME IInv, NEW t \in Callers, NEW e \in Plain, EventDel(t, e)
  PROVE  Kept
<1>1. /\ Callable(t) /\ Called /\ UNCHANGED <<loopVars, now, readable, leaked>> /\ e \in Users
  BY DEF EventDel, Plain
<1>2. Sound(base, now) /\ NeedNotify(t) \in BOOLEAN BY <1>1, CallIs
<1>3. CASE ~(t = "other" /\ base.current_event = e)
  <2>1. /\ base' = EventDelNolock(base, e, NeedNotify(t))
        /\ other' = other /\ wanted' = wanted \ {e}
    BY <1>3 DEF EventDel
  <2>2. PICK need \in BOOLEAN : need = NeedNotify(t) BY <1>2
  <2>3. base' = EventDelNolock(base, e, need) BY <2>1, <2>2
  <2>4. e \in Evs /\ e # timeout_event BY <1>1, Events DEF Internal
  <2>5. /\ Sound(base', now) /\ Does(base, base', {}) /\ Wakes(base, base')
        /\ e \notin Used(base') /\ Keeps(base, base')
    BY <1>2, <2>3, <2>4, EventDeleted
  <2> QED BY <1>1, <2>1, <2>5, CallDeletes
<1>4. CASE t = "other" /\ base.current_event = e
  <2>1. /\ base' = [base EXCEPT !.current_event_waiters = @ + 1]
        /\ other' = [state |-> "waiting", event |-> e] /\ wanted' = wanted
    BY <1>4 DEF EventDel
  <2>2. other = Idle BY <1>1, <1>4 DEF Callable
  <2>3. /\ Rest /\ Scheduled /\ Threads /\ Important /\ Asleep /\ base \in Bases
        /\ Elapsed(base, now)
    BY DEF IInv, Sound
  <2>4. base.current_event_waiters = 0 BY <2>2, <2>3 DEF Threads, Idle
  <2>a. base' = [base EXCEPT !.current_event_waiters = 1] BY <2>1, <2>4
  <2>5. base' = PutPlace(base, base.current_event, 1, base.event_running_priority)
    BY <2>3, <2>a DEF PutPlace, Bases
  <2>6. 1 \in 0 .. 1 OBVIOUS
  <2>7. Placed(base, base', base.current_event, 1, base.event_running_priority)
    BY <2>3, <2>5, <2>6, Fields, PlacePut
  <2>8. /\ Alike(base, base')
        /\ base'.current_event = base.current_event /\ base'.current_event_waiters = 1
        /\ base'.event_break = base.event_break /\ base'.tv_cache = base.tv_cache
        /\ base'.event_running_priority = base.event_running_priority
        /\ base'.event_continue = base.event_continue
        /\ base'.is_notify_pending = base.is_notify_pending
        /\ base'.notify_fd = base.notify_fd
    BY <2>7 DEF Placed
  <2>9. pc' = pc /\ wake' = wake /\ index' = index /\ real' = real /\ ready' = ready /\ now' = now
    BY <1>1 DEF loopVars
  <2>10. /\ Sound(base', now') /\ OnlyWanted' /\ ListSet(base') = ListSet(base)
         /\ Busy(base') = Busy(base) /\ InHeap(base') = InHeap(base)
         /\ Flagged(base', "ACTIVE") = Flagged(base, "ACTIVE")
    BY <2>1, <2>3, <2>8, <2>9, FieldsHold DEF Elapsed
  <2>11. Rest'
    <3>1. other' \in [state : {"idle", "waiting", "woken"}, event : Users \cup {None}]
      BY <1>1, <2>1
    <3>a. calls \in 0 .. MaxCalls /\ wanted \subseteq Users BY <2>3 DEF Rest
    <3>b. calls > 0 BY <1>1, CallIs
    <3>c. MaxCalls \in Nat BY EvLoopAssumption DEF EvLoopAssumption
    <3>2. calls' \in 0 .. MaxCalls /\ wanted' \subseteq Users
      BY <1>1, <2>1, <3>a, <3>b, <3>c DEF Called
    <3> QED BY <1>1, <2>3, <2>9, <3>1, <3>2 DEF Rest
  <2>12. Scheduled' BY <2>3, <2>8, <2>9, <2>10 DEF Scheduled
  <2>13. Running' <=> Running BY <2>9 DEF Running
  <2>14. Threads'
    <3>1. (base.current_event # None <=> Running)' BY <2>3, <2>8, <2>13 DEF Threads
    <3>2. other'.state = "waiting" /\ other'.event = e BY <2>1
    <3>3. (Told(base) \/ pc = "drained")' BY <2>3, <2>8, <2>9 DEF Threads, Told
    <3> QED BY <1>1, <1>4, <2>8, <3>1, <3>2, <3>3 DEF Threads
  <2>15. Important' BY <2>3, <2>8, <2>9, <2>10, <2>13 DEF Important
  <2>16. Asleep' BY <2>3, <2>8, <2>9, <2>10 DEF Asleep
  <2> QED BY <2>8, <2>10, <2>11, <2>12, <2>14, <2>15, <2>16 DEF IInv, Kept
<1> QED BY <1>3, <1>4

LEMMA FinishDelHolds == ASSUME IInv, FinishDel PROVE Kept
<1>1. /\ other.state = "woken" /\ Unlocked("other")
      /\ base' = EventDelNolock(base, other.event, NeedNotify("other"))
      /\ other' = Idle /\ wanted' = wanted \ {other.event}
      /\ UNCHANGED <<loopVars, now, readable, leaked, calls>>
  BY DEF FinishDel
<1>2. Sound(base, now) /\ Threads /\ Rest /\ OnlyWanted BY DEF IInv
<1>3. PICK e \in Users : e = other.event BY <1>1, <1>2 DEF Threads
<1>4. e \in Evs /\ e # timeout_event BY <1>3, Events DEF Internal
<1>5. NeedNotify("other") \in BOOLEAN BY DEF NeedNotify
<1>6. PICK need \in BOOLEAN : need = NeedNotify("other") BY <1>5
<1>7. base' = EventDelNolock(base, e, need) BY <1>1, <1>3, <1>6
<1>8. /\ Sound(base', now) /\ Does(base, base', {}) /\ Wakes(base, base')
      /\ e \notin Used(base') /\ Keeps(base, base')
  BY <1>2, <1>4, <1>7, EventDeleted
<1>9. Serves({}) BY <1>8 DEF Serves
<1>10. wanted \in SUBSET Users /\ leaked \in {"nobody", "loop", "other"} BY <1>2 DEF Rest
<1>11. Rest' BY <1>1, <1>10, RestHolds
<1>12. OnlyWanted'
  <2>1. Used(base') \subseteq Used(base) \cup {} \cup Internal BY <1>8 DEF Does
  <2> QED BY <1>1, <1>2, <1>3, <1>8, <2>1, Events DEF OnlyWanted
<1>13. pc \notin {"top", "process"} BY <1>1 DEF Unlocked
<1> QED BY <1>1, <1>9, <1>11, <1>12, <1>13, CallHolds

LEMMA LoopcontinueHolds ==
  ASSUME IInv, NEW t \in Callers, EventBaseLoopcontinue(t)
  PROVE  Kept
<1>1. /\ Callable(t)
      /\ base' = Notify([base EXCEPT !.event_continue = TRUE], NeedNotify(t))
      /\ Called /\ wanted' = wanted \cup {}
      /\ UNCHANGED <<loopVars, now, readable, other, leaked>>
  BY DEF EventBaseLoopcontinue
<1>2. Sound(base, now) /\ NeedNotify(t) \in BOOLEAN /\ base \in Bases BY <1>1, CallIs DEF Sound
<1>3. PICK need \in BOOLEAN : need = NeedNotify(t) BY <1>2
<1>4. PICK b : b = [base EXCEPT !.event_continue = TRUE] OBVIOUS
<1>5. base' = Notify(b, need) BY <1>1, <1>3, <1>4
<1>6. /\ Alike(base, b) /\ SamePlace(base, b) /\ b.event_continue = TRUE
      /\ b.is_notify_pending = base.is_notify_pending /\ b.notify_fd = base.notify_fd
  BY <1>2, <1>4, ContinueSet
<1>7. /\ Sound(b, now) /\ Keeps(base, b) /\ Used(b) = Used(base) /\ Quiet(base, b)
  BY <1>2, <1>6, SoundAlike
<1>8. Does(base, b, {}) /\ Wakes(base, b) /\ Tells(base, b)
  BY <1>6, <1>7 DEF Does, Continues, Tells, Wakes
<1>9. /\ Sound(base', now) /\ Keeps(b, base') /\ Does(b, base', {}) /\ Alike(b, base')
      /\ need = TRUE /\ Told(b) => base'.notify_fd = TRUE
  BY <1>5, <1>7, NotifyDoes
<1>10. Does(base, base', {}) BY <1>8, <1>9, DoesTwice
<1>11. Keeps(base, base') BY <1>7, <1>9 DEF Keeps
<1>12. need = TRUE => Wakes(base, base') BY <1>6, <1>9 DEF Wakes, Told
<1> QED BY <1>1, <1>3, <1>9, <1>10, <1>11, <1>12, CallAdds

LEMMA LoopbreakHolds ==
  ASSUME IInv, NEW t \in Callers, EventBaseLoopbreak(t)
  PROVE  Kept
<1>1. /\ Callable(t)
      /\ base' = Notify([base EXCEPT !.event_break = TRUE], NeedNotify(t))
      /\ Called /\ wanted' = wanted
      /\ UNCHANGED <<loopVars, now, readable, other, leaked>>
  BY DEF EventBaseLoopbreak
<1>2. /\ Rest /\ Scheduled /\ Threads /\ Important /\ Asleep /\ base \in Bases
      /\ Elapsed(base, now)
  BY DEF IInv, Sound
<1>3. NeedNotify(t) \in BOOLEAN /\ (pc = "wait" => NeedNotify(t) = TRUE) BY <1>1, CallIs
<1>4. PICK need \in BOOLEAN : need = NeedNotify(t) BY <1>3
<1>5. PICK b : b = [base EXCEPT !.event_break = TRUE] OBVIOUS
<1>6. base' = Notify(b, need) BY <1>1, <1>4, <1>5
<1>7. b \in Bases BY <1>2, <1>5 DEF Bases
<1>8. Alike(base, b) BY <1>2, <1>5, <1>7, AlikeIs DEF Bases
<1>9. /\ b.current_event = base.current_event /\ b.event_continue = base.event_continue
      /\ b.current_event_waiters = base.current_event_waiters
      /\ b.tv_cache = base.tv_cache /\ b.event_running_priority = base.event_running_priority
      /\ b.is_notify_pending = base.is_notify_pending /\ b.notify_fd = base.notify_fd
  BY <1>2, <1>5 DEF Bases
<1>10. /\ Alike(b, base') /\ SamePlace(b, base') /\ base'.event_continue = b.event_continue
       /\ Tells(b, base')
       /\ need = TRUE /\ Told(b) => base'.notify_fd = TRUE
  BY <1>6, <1>7, Notified
<1>11. Alike(base, base')
  BY <1>8, <1>10 DEF Alike, SameTimers, SameQueues, SameKinds
<1>12. /\ base'.current_event = base.current_event
       /\ base'.event_continue = base.event_continue
       /\ base'.current_event_waiters = base.current_event_waiters
       /\ base'.tv_cache = base.tv_cache
       /\ base'.event_running_priority = base.event_running_priority
       /\ Tells(base, base')
  BY <1>9, <1>10 DEF SamePlace, Tells
<1>13. /\ pc' = pc /\ wake' = wake /\ index' = index /\ real' = real /\ now' = now
       /\ other' = other
  BY <1>1 DEF loopVars
<1>14. /\ Sound(base', now') /\ OnlyWanted' /\ ListSet(base') = ListSet(base)
       /\ Flagged(base', "ACTIVE") = Flagged(base, "ACTIVE")
  BY <1>1, <1>2, <1>11, <1>12, <1>13, FieldsHold DEF Elapsed
<1>15. Rest'
  <2>1. /\ leaked' \in {"nobody", "loop", "other"} /\ wanted' \in SUBSET Users
        /\ loopVars' = loopVars /\ calls > 0
    BY <1>1, <1>2, CallIs DEF Rest
  <2> QED BY <1>1, <2>1, RestHolds DEF Called
<1>16. Scheduled' BY <1>2, <1>12, <1>13, <1>14 DEF Scheduled
<1>17. Running' <=> Running BY <1>13 DEF Running
<1>18. Threads'
  <2>1. (base.current_event # None <=> Running)' BY <1>2, <1>12, <1>17 DEF Threads
  <2>2. (Told(base) \/ pc = "drained")' BY <1>2, <1>12, <1>13 DEF Threads, Told, Tells
  <2> QED BY <1>2, <1>12, <1>13, <2>1, <2>2 DEF Threads
<1>19. Important' BY <1>2, <1>12, <1>13, <1>14, <1>17 DEF Important
<1>20. Asleep'
  <2>1. CASE pc = "wait"
    <3>1. Told(b) BY <1>2, <1>9, <2>1 DEF Threads, Told
    <3>2. base'.notify_fd = TRUE BY <1>3, <1>4, <1>10, <2>1, <3>1
    <3> QED BY <3>2 DEF Asleep
  <2>2. CASE pc # "wait" BY <1>13, <2>2 DEF Asleep
  <2> QED BY <2>1, <2>2
<1> QED BY <1>12, <1>14, <1>15, <1>16, <1>18, <1>19, <1>20 DEF IInv, Kept

LEMMA OnceFailsHolds ==
  ASSUME IInv, NEW t \in Callers, EventBaseOnceFails(t)
  PROVE  Kept
<1>1. /\ Callable(t) /\ Called
      /\ leaked' = IF "event_base_once" \in Repaired THEN leaked ELSE t
      /\ UNCHANGED <<loopVars, base, now, readable, other, wanted>>
  BY DEF EventBaseOnceFails
<1>2. /\ Rest /\ Sound(base, now) /\ Scheduled /\ Threads /\ Important /\ Asleep /\ OnlyWanted
  BY DEF IInv
<1>3. pc' = pc /\ wake' = wake /\ index' = index /\ real' = real BY <1>1 DEF loopVars
<1>4. leaked' \in {"nobody", "loop", "other"} BY <1>1, <1>2 DEF Rest, Callers
<1>5. Rest'
  <2>1. calls > 0 /\ wanted' \in SUBSET Users /\ loopVars' = loopVars
    BY <1>1, <1>2, CallIs DEF Rest
  <2> QED BY <1>1, <1>4, <2>1, RestHolds DEF Called
<1>6. Sound(base', now') BY <1>1, <1>2
<1>7. Scheduled' BY <1>1, <1>2, <1>3 DEF Scheduled
<1>8. Threads' BY <1>1, <1>2, <1>3 DEF Threads, Running
<1>9. Important' BY <1>1, <1>2, <1>3 DEF Important, Running
<1>10. Asleep' /\ OnlyWanted' BY <1>1, <1>2, <1>3 DEF Asleep, OnlyWanted
<1> QED BY <1>1, <1>5, <1>6, <1>7, <1>8, <1>9, <1>10 DEF IInv, Kept

---------------------------------------------------------------------------
(* The steps of the loop                                                   *)

\* What IInv says of each variable, for the steps below.
LEMMA Parts ==
  ASSUME IInv
  PROVE  /\ Rest /\ Sound(base, now) /\ Scheduled /\ Threads /\ Important /\ Asleep /\ OnlyWanted
         /\ base \in Bases /\ base.tv_cache <= now /\ now \in Nat /\ now >= 1 /\ now <= MaxTime
         /\ index \in Nat /\ index <= NumPri
<1>1. Rest /\ Sound(base, now) BY DEF IInv
<1>2. base \in Bases /\ base.tv_cache <= now BY <1>1 DEF Sound, Elapsed
<1>3. now \in Nat /\ now >= 1 /\ now <= MaxTime /\ index \in Nat /\ index <= NumPri
  BY <1>1, Events DEF Rest
<1> QED BY <1>1, <1>2, <1>3 DEF IInv

\* The fields that no list depends on, all at once.
PutFields(b, brk, term, cont, n, pend, fd, tv) ==
  [b EXCEPT !.event_break = brk, !.event_gotterm = term, !.event_continue = cont,
            !.n_deferreds_queued = n, !.is_notify_pending = pend, !.notify_fd = fd,
            !.tv_cache = tv]

FieldsAre(b, c, brk, cont, pend, fd, tv) ==
  /\ Alike(b, c) /\ c.event_break = brk /\ c.event_continue = cont
  /\ c.is_notify_pending = pend /\ c.notify_fd = fd /\ c.tv_cache = tv
  /\ c.current_event = b.current_event /\ c.current_event_waiters = b.current_event_waiters
  /\ c.event_running_priority = b.event_running_priority

LEMMA FieldsPut ==
  ASSUME NEW b \in Bases, NEW brk \in BOOLEAN, NEW term \in BOOLEAN, NEW cont \in BOOLEAN,
         NEW n \in Nat, NEW pend \in BOOLEAN, NEW fd \in BOOLEAN, NEW tv \in 0 .. MaxTime,
         NEW c, c = PutFields(b, brk, term, cont, n, pend, fd, tv)
  PROVE  FieldsAre(b, c, brk, cont, pend, fd, tv)
<1>1. PICK d : d = [b EXCEPT !.event_break = brk, !.event_gotterm = term,
                             !.event_continue = cont]
  OBVIOUS
<1>2. d \in Bases BY <1>1 DEF Bases
<1>3. c = [d EXCEPT !.n_deferreds_queued = n, !.is_notify_pending = pend, !.notify_fd = fd,
                    !.tv_cache = tv]
  BY <1>1 DEF PutFields
<1>4. c \in Bases
  <2>1. PICK f : f = [d EXCEPT !.n_deferreds_queued = n, !.is_notify_pending = pend]
    OBVIOUS
  <2>2. f \in Bases BY <1>2, <2>1 DEF Bases
  <2>3. c = [f EXCEPT !.notify_fd = fd, !.tv_cache = tv] BY <1>3, <2>1
  <2> QED BY <2>2, <2>3 DEF Bases
<1>5. Alike(b, d) BY <1>1, <1>2, AlikeIs DEF Bases
<1>6. Alike(d, c) BY <1>2, <1>3, <1>4, AlikeIs DEF Bases
<1>7. Alike(b, c) BY <1>5, <1>6 DEF Alike, SameTimers, SameQueues, SameKinds
<1>8. /\ d.event_break = brk /\ d.event_continue = cont
      /\ d.current_event = b.current_event /\ d.current_event_waiters = b.current_event_waiters
      /\ d.event_running_priority = b.event_running_priority
  BY <1>1 DEF Bases
<1>9. /\ c.event_break = d.event_break /\ c.event_continue = d.event_continue
      /\ c.is_notify_pending = pend /\ c.notify_fd = fd /\ c.tv_cache = tv
      /\ c.current_event = d.current_event /\ c.current_event_waiters = d.current_event_waiters
      /\ c.event_running_priority = d.event_running_priority
  BY <1>2, <1>3 DEF Bases
<1> QED BY <1>7, <1>8, <1>9 DEF FieldsAre

\* The steps between the callbacks and the sleeps.
LEMMA StartLoopHolds == ASSUME IInv, StartLoop PROVE Kept
<1>1. /\ pc = "stopped"
      /\ base' = [base EXCEPT !.tv_cache = 0, !.event_gotterm = FALSE, !.event_break = FALSE]
      /\ pc' = "top"
      /\ UNCHANGED <<now, readable, wake, ready, index, real, other, leaked, calls, wanted>>
  BY DEF StartLoop
<1>2. /\ Rest /\ Scheduled /\ Threads /\ base \in Bases /\ now \in Nat BY Parts
<1>a. PICK no \in BOOLEAN : no = FALSE OBVIOUS
<1>b. PICK cont \in BOOLEAN : cont = base.event_continue BY <1>2, Fields
<1>c. PICK pend \in BOOLEAN : pend = base.is_notify_pending BY <1>2, Fields
<1>d. PICK fd \in BOOLEAN : fd = base.notify_fd BY <1>2, Fields
<1>3. base' = PutFields(base, no, no, cont, base.n_deferreds_queued, pend, fd, 0)
  BY <1>1, <1>2, <1>a, <1>b, <1>c, <1>d DEF PutFields, Bases
<1>4. base.n_deferreds_queued \in Nat /\ 0 \in 0 .. MaxTime BY <1>2, Fields, Events
<1>5. FieldsAre(base, base', no, cont, pend, fd, 0)
  BY <1>2, <1>3, <1>4, FieldsPut
<1>6. /\ Alike(base, base') /\ base'.tv_cache = 0 /\ base'.current_event = base.current_event
      /\ base'.current_event_waiters = base.current_event_waiters
      /\ base'.is_notify_pending = base.is_notify_pending /\ base'.notify_fd = base.notify_fd
  BY <1>c, <1>d, <1>5 DEF FieldsAre
<1>7. Sound(base', now') /\ OnlyWanted' /\ ListSet(base') = ListSet(base)
  BY <1>1, <1>2, <1>6, FieldsHold
<1>8. Rest' BY <1>1, <1>2 DEF Rest
<1>9. Scheduled' BY <1>1, <1>2, <1>7 DEF Scheduled
<1>10. Threads'
  <2>1. (Told(base))' BY <1>1, <1>2, <1>6 DEF Threads, Told
  <2>2. ~Running /\ ~Running' BY <1>1 DEF Running
  <2> QED BY <1>1, <1>2, <1>6, <2>1, <2>2 DEF Threads
<1>11. Important' /\ Asleep' BY <1>1 DEF Important, Asleep, Running
<1> QED BY <1>6, <1>7, <1>8, <1>9, <1>10, <1>11 DEF IInv, Kept

LEMMA LeaveLoopHolds == ASSUME IInv, LeaveLoop PROVE Kept
<1>1. /\ pc = "top" /\ base' = [NewTurn EXCEPT !.tv_cache = 0] /\ pc' = "stopped"
      /\ UNCHANGED <<now, readable, wake, ready, index, real, other, leaked, calls, wanted>>
  BY DEF LeaveLoop
<1>2. /\ Rest /\ Scheduled /\ Threads /\ base \in Bases /\ now \in Nat BY Parts
<1>a. PICK no \in BOOLEAN : no = FALSE OBVIOUS
<1>b. PICK brk \in BOOLEAN : brk = base.event_break BY <1>2, Fields
<1>c. PICK term \in BOOLEAN : term = base.event_gotterm BY <1>2, Fields
<1>d. PICK pend \in BOOLEAN : pend = base.is_notify_pending BY <1>2, Fields
<1>e. PICK fd \in BOOLEAN : fd = base.notify_fd BY <1>2, Fields
<1>3. base' = PutFields(base, brk, term, no, 0, pend, fd, 0)
  BY <1>1, <1>2, <1>a, <1>b, <1>c, <1>d, <1>e DEF NewTurn, PutFields, Bases
<1>4. 0 \in 0 .. MaxTime /\ 0 \in Nat BY Events
<1>5. FieldsAre(base, base', brk, no, pend, fd, 0)
  BY <1>2, <1>3, <1>4, FieldsPut
<1>6. /\ Alike(base, base') /\ base'.tv_cache = 0 /\ base'.current_event = base.current_event
      /\ base'.current_event_waiters = base.current_event_waiters
      /\ base'.is_notify_pending = base.is_notify_pending /\ base'.notify_fd = base.notify_fd
  BY <1>d, <1>e, <1>5 DEF FieldsAre
<1>7. Sound(base', now') /\ OnlyWanted' /\ ListSet(base') = ListSet(base)
  BY <1>1, <1>2, <1>6, FieldsHold
<1>8. Rest' BY <1>1, <1>2 DEF Rest
<1>9. Scheduled' BY <1>1, <1>2, <1>7 DEF Scheduled
<1>10. Threads'
  <2>1. (Told(base))' BY <1>1, <1>2, <1>6 DEF Threads, Told
  <2>2. ~Running /\ ~Running' BY <1>1 DEF Running
  <2> QED BY <1>1, <1>2, <1>6, <2>1, <2>2 DEF Threads
<1>11. Important' /\ Asleep' BY <1>1 DEF Important, Asleep, Running
<1> QED BY <1>6, <1>7, <1>8, <1>9, <1>10, <1>11 DEF IInv, Kept

LEMMA EndProcessHolds == ASSUME IInv, EndProcess PROVE Kept
<1>1. /\ pc = "process" /\ base' = [base EXCEPT !.event_running_priority = -1] /\ pc' = "top"
      /\ UNCHANGED <<now, readable, wake, ready, index, real, other, leaked, calls, wanted>>
  BY DEF EndProcess
<1>2. /\ Rest /\ Scheduled /\ Threads /\ base \in Bases /\ base.tv_cache <= now BY Parts
<1>3. base' = PutPlace(base, base.current_event, base.current_event_waiters, -1)
  BY <1>1, <1>2 DEF PutPlace, Bases
<1>4. -1 \in Prios \cup {-1} OBVIOUS
<1>5. Placed(base, base', base.current_event, base.current_event_waiters, -1)
  BY <1>2, <1>3, <1>4, Fields, PlacePut
<1>6. /\ Alike(base, base') /\ base'.tv_cache = base.tv_cache
      /\ base'.current_event = base.current_event
      /\ base'.current_event_waiters = base.current_event_waiters
      /\ base'.is_notify_pending = base.is_notify_pending /\ base'.notify_fd = base.notify_fd
  BY <1>5 DEF Placed
<1>7. Sound(base', now') /\ OnlyWanted' /\ ListSet(base') = ListSet(base)
  BY <1>1, <1>2, <1>6, FieldsHold
<1>8. Rest' BY <1>1, <1>2 DEF Rest
<1>9. Scheduled' BY <1>1, <1>2, <1>7 DEF Scheduled
<1>10. Threads'
  <2>1. (Told(base))' BY <1>1, <1>2, <1>6 DEF Threads, Told
  <2>2. ~Running /\ ~Running' BY <1>1 DEF Running
  <2> QED BY <1>1, <1>2, <1>6, <2>1, <2>2 DEF Threads
<1>11. Important' /\ Asleep' BY <1>1 DEF Important, Asleep, Running
<1> QED BY <1>6, <1>7, <1>8, <1>9, <1>10, <1>11 DEF IInv, Kept

LEMMA ReturnHolds == ASSUME IInv, Return PROVE Kept
<1>1. /\ pc = "return" \/ (pc = "call" /\ base.current_event \in Users \ Exits)
      /\ other' = IF base.current_event_waiters > 0 THEN [other EXCEPT !.state = "woken"]
                  ELSE other
      /\ UNCHANGED <<now, readable, wake, ready, real, leaked, calls, wanted>>
  BY DEF Return
<1>2. /\ Rest /\ Scheduled /\ Threads /\ Important /\ base \in Bases /\ base.tv_cache <= now
      /\ index \in Nat
  BY Parts
<1>3. Running /\ base.event_running_priority = index BY <1>1, <1>2 DEF Running, Important
<1>4. PICK q \in Prios \cup {-1} :
        /\ base' = PutPlace(base, None, 0, q)
        /\ \/ pc' = "top" /\ index' = index
           \/ /\ pc' = "process" /\ q = index
              /\ index' = IF base.event_continue = FALSE THEN index
                          ELSE IF real = TRUE THEN NumPri ELSE index + 1
  <2>1. PICK b : b = [base EXCEPT !.current_event = None, !.current_event_waiters = 0] OBVIOUS
  <2>2. base.event_break \in BOOLEAN /\ base.event_continue \in BOOLEAN /\ real \in BOOLEAN
        /\ base.event_running_priority \in Prios \cup {-1}
    BY <1>2, Fields DEF Rest
  <2>3. CASE base.event_break = TRUE
    <3>1. base' = [b EXCEPT !.event_running_priority = -1] /\ pc' = "top" /\ index' = index
      BY <2>1, <2>3 DEF Return
    <3>2. base' = PutPlace(base, None, 0, -1) BY <1>2, <2>1, <3>1 DEF PutPlace, Bases
    <3> QED BY <3>1, <3>2
  <2>4. CASE base.event_break = FALSE
    <3>1. /\ base' = b /\ pc' = "process"
          /\ index' = IF ~base.event_continue THEN index
                      ELSE IF real THEN NumPri ELSE index + 1
      BY <2>1, <2>4 DEF Return
    <3>2. base' = PutPlace(base, None, 0, base.event_running_priority)
      BY <1>2, <2>1, <3>1 DEF PutPlace, Bases
    <3>3. index' = IF base.event_continue = FALSE THEN index
                   ELSE IF real = TRUE THEN NumPri ELSE index + 1
      BY <2>2, <3>1
    <3> QED BY <1>3, <2>2, <3>1, <3>2, <3>3
  <2> QED BY <2>2, <2>3, <2>4
<1>5. Placed(base, base', None, 0, q)
  <2>1. None \in Evs \cup {None} /\ 0 \in 0 .. 1 OBVIOUS
  <2> QED BY <1>2, <1>4, <2>1, PlacePut
<1>6. /\ Alike(base, base') /\ base'.current_event = None /\ base'.current_event_waiters = 0
      /\ base'.event_running_priority = q /\ base'.tv_cache = base.tv_cache
      /\ base'.event_continue = base.event_continue
      /\ base'.is_notify_pending = base.is_notify_pending /\ base'.notify_fd = base.notify_fd
  BY <1>5 DEF Placed
<1>7. /\ Sound(base', now') /\ OnlyWanted' /\ ListSet(base') = ListSet(base)
      /\ Flagged(base', "ACTIVE") = Flagged(base, "ACTIVE")
  BY <1>1, <1>2, <1>6, FieldsHold
<1>8. Rest'
  <2>1. index' \in 0 .. NumPri
    <3>1. index \in 0 .. NumPri - 1 BY <1>2, <1>3, Fields DEF Prios
    <3> QED BY <1>4, <3>1, Events
  <2>2. other' \in [state : {"idle", "waiting", "woken"}, event : Users \cup {None}]
    BY <1>1, <1>2 DEF Rest
  <2>3. pc' \in {"top", "process"} BY <1>4
  <2> QED BY <1>1, <1>2, <2>1, <2>2, <2>3 DEF Rest
<1>9. Scheduled'
  <2>1. base.current_event # timeout_event \/ pc # "call" BY <1>1, Events DEF Internal
  <2> QED BY <1>2, <1>7, <2>1 DEF Scheduled
<1>10. Threads'
  <2>1. (Told(base))'
    <3>1. pc # "drained" BY <1>1
    <3> QED BY <1>2, <1>6, <3>1 DEF Threads, Told
  <2>2. ~Running' BY <1>4 DEF Running
  <2>3. CASE other.state = "waiting"
    <3>1. base.current_event_waiters = 1 BY <1>2, <2>3 DEF Threads
    <3>2. other' = [other EXCEPT !.state = "woken"] BY <1>1, <3>1
    <3>3. other.event \in Users BY <1>2, <2>3 DEF Threads
    <3>4. other'.state = "woken" /\ other'.event \in Users BY <1>2, <3>2, <3>3 DEF Rest
    <3> QED BY <1>6, <2>1, <2>2, <3>4 DEF Threads
  <2>4. CASE other.state # "waiting"
    <3>1. base.current_event_waiters = 0 BY <1>2, <2>4 DEF Threads
    <3>2. other' = other BY <1>1, <3>1
    <3> QED BY <1>2, <1>6, <2>1, <2>2, <2>4, <3>2 DEF Threads
  <2> QED BY <2>3, <2>4
<1>11. Important'
  <2>1. ~Running' BY <1>4 DEF Running
  <2>2. base'.event_continue = FALSE /\ pc' = "process" => q = index /\ index' = index
    BY <1>4, <1>6
  <2>3. base'.event_continue \in BOOLEAN BY <1>2, <1>6, Fields
  <2>4. base.event_continue = FALSE =>
          \A f \in Users \ Deferred : f \in Flagged(base, "ACTIVE") => Prio(f) >= index
    BY <1>2, <1>3 DEF Important
  <2> QED BY <1>6, <1>7, <2>1, <2>2, <2>3, <2>4 DEF Important
<1>12. Asleep' BY <1>4 DEF Asleep
<1> QED BY <1>6, <1>7, <1>8, <1>9, <1>10, <1>11, <1>12 DEF IInv, Kept

---------------------------------------------------------------------------
(* The callbacks of libevent, the descriptors and the clock                *)

\* A step of a callback that changes only flags of the base.
FlagsFlip(b, c) ==
  /\ Alike(b, c) /\ c.tv_cache = b.tv_cache /\ c.event_continue = b.event_continue
  /\ c.current_event = b.current_event /\ c.current_event_waiters = b.current_event_waiters
  /\ c.event_running_priority = b.event_running_priority

LEMMA CallbackHolds ==
  ASSUME IInv, Running, pc # "call" \/ base.current_event # timeout_event, FlagsFlip(base, base'),
         pc' \in {"drained", "return"}, Told(base') \/ pc' = "drained",
         UNCHANGED <<now, readable, wake, ready, index, real, other, leaked, calls, wanted>>
  PROVE  Kept
<1>1. /\ Rest /\ Scheduled /\ Threads /\ Important /\ base \in Bases /\ base.tv_cache <= now
  BY Parts
<1>2. /\ Alike(base, base') /\ base'.tv_cache = base.tv_cache
      /\ base'.event_continue = base.event_continue
      /\ base'.current_event = base.current_event
      /\ base'.current_event_waiters = base.current_event_waiters
      /\ base'.event_running_priority = base.event_running_priority
  BY DEF FlagsFlip
<1>3. /\ Sound(base', now') /\ OnlyWanted' /\ ListSet(base') = ListSet(base)
      /\ Flagged(base', "ACTIVE") = Flagged(base, "ACTIVE")
  BY <1>1, <1>2, FieldsHold
<1>4. Running' BY DEF Running
<1>5. Rest' BY <1>1 DEF Rest
<1>6. Scheduled' BY <1>1, <1>3 DEF Scheduled
<1>7. Threads' BY <1>1, <1>2, <1>4 DEF Threads
<1>8. Important' BY <1>1, <1>2, <1>3, <1>4 DEF Important
<1>9. Asleep' BY DEF Asleep
<1> QED BY <1>2, <1>3, <1>5, <1>6, <1>7, <1>8, <1>9 DEF IInv, Kept

LEMMA DrainHolds == ASSUME IInv, Drain \/ Drained PROVE Kept
<1>1. /\ Threads /\ base \in Bases BY Parts
<1>2. PICK no \in BOOLEAN : no = FALSE OBVIOUS
<1>3. CASE Drain
  <2>1. /\ pc = "call" /\ base.current_event = th_notify
        /\ base' = [base EXCEPT !.notify_fd = FALSE] /\ pc' = "drained"
        /\ UNCHANGED <<now, readable, wake, ready, index, real, other, leaked, calls, wanted>>
    BY <1>3 DEF Drain
  <2>2. base' = [base EXCEPT !.notify_fd = no] BY <1>2, <2>1
  <2>3. base' \in Bases BY <1>1, <2>2 DEF Bases
  <2>4. Alike(base, base') BY <1>1, <2>2, <2>3, AlikeIs DEF Bases
  <2>5. FlagsFlip(base, base') BY <1>1, <2>2, <2>4 DEF Bases, FlagsFlip
  <2>6. base.current_event # timeout_event BY <2>1, Events
  <2> QED BY <2>1, <2>5, <2>6, CallbackHolds DEF Running
<1>4. CASE Drained
  <2>1. /\ pc = "drained" /\ pc' = "return"
        /\ base' = [base EXCEPT !.is_notify_pending = FALSE]
        /\ UNCHANGED <<now, readable, wake, ready, index, real, other, leaked, calls, wanted>>
    BY <1>4 DEF Drained
  <2>2. base' = [base EXCEPT !.is_notify_pending = no] BY <1>2, <2>1
  <2>3. base' \in Bases BY <1>1, <2>2 DEF Bases
  <2>4. Alike(base, base') BY <1>1, <2>2, <2>3, AlikeIs DEF Bases
  <2>5. FlagsFlip(base, base') BY <1>1, <2>2, <2>4 DEF Bases, FlagsFlip
  <2>6. Told(base') BY <1>1, <1>2, <2>2 DEF Bases, Told
  <2> QED BY <2>1, <2>5, <2>6, CallbackHolds DEF Running
<1> QED BY <1>3, <1>4

LEMMA LoopexitCbHolds == ASSUME IInv, LoopexitCb PROVE Kept
<1>1. /\ Threads /\ base \in Bases BY Parts
<1>2. PICK yes \in BOOLEAN : yes = TRUE OBVIOUS
<1>3. /\ pc = "call" /\ base.current_event \in Exits
      /\ base' = [base EXCEPT !.event_gotterm = TRUE] /\ pc' = "return"
      /\ UNCHANGED <<now, readable, wake, ready, index, real, other, leaked, calls, wanted>>
  BY DEF LoopexitCb
<1>4. base' = [base EXCEPT !.event_gotterm = yes] BY <1>2, <1>3
<1>5. base' \in Bases BY <1>1, <1>4 DEF Bases
<1>6. Alike(base, base') BY <1>1, <1>4, <1>5, AlikeIs DEF Bases
<1>7. FlagsFlip(base, base') BY <1>1, <1>4, <1>6 DEF Bases, FlagsFlip
<1>8. Told(base') BY <1>1, <1>3, <1>4 DEF Bases, Threads, Told
<1>9. base.current_event # timeout_event BY <1>3, Events DEF Internal
<1> QED BY <1>3, <1>7, <1>8, <1>9, CallbackHolds DEF Running

LEMMA CommonTimeoutHolds == ASSUME IInv, CommonTimeout PROVE Kept
<1>1. /\ pc = "call" /\ base.current_event = timeout_event
      /\ base' = CommonTimeoutCallback(base, now) /\ pc' = "return"
      /\ UNCHANGED <<now, readable, wake, ready, index, real, other, leaked, calls, wanted>>
  BY DEF CommonTimeout
<1>2. /\ Rest /\ Sound(base, now) /\ Threads /\ Important /\ OnlyWanted
  BY Parts
<1>3. now \in 1 .. MaxTime BY <1>2 DEF Rest
<1>4. Sound(base', now) /\ Does(base, base', {}) /\ ListSet(base')
  BY <1>1, <1>2, <1>3, CommonTimedOut
<1>5. /\ base'.current_event = base.current_event
      /\ base'.current_event_waiters = base.current_event_waiters
      /\ base'.event_running_priority = base.event_running_priority
      /\ Tells(base, base') /\ Continues(base, base')
      /\ Used(base') \subseteq Used(base) \cup {} \cup Internal
  BY <1>4 DEF Does, SamePlace
<1>6. Running /\ Running' BY <1>1 DEF Running
<1>7. Rest' BY <1>1, <1>2 DEF Rest
<1>8. Scheduled' BY <1>4 DEF Scheduled
<1>9. Threads'
  <2>1. (Told(base))' BY <1>1, <1>2, <1>5 DEF Threads, Told, Tells
  <2> QED BY <1>1, <1>2, <1>5, <1>6, <2>1 DEF Threads
<1>10. Important'
  <2>1. ASSUME base'.event_continue # TRUE,
               NEW f \in Users \ Deferred, f \in Flagged(base', "ACTIVE")
        PROVE  Prio(f) >= index
    <3>1. f \in Flagged(base, "ACTIVE") \/ Prio(f) >= base.event_running_priority
      BY <1>5, <2>1 DEF Continues
    <3>2. base.event_running_priority = index BY <1>2, <1>6 DEF Important
    <3>3. base.event_continue # TRUE BY <1>5, <2>1 DEF Continues
    <3> QED BY <1>2, <1>6, <2>1, <3>1, <3>2, <3>3 DEF Important
  <2>2. base'.event_running_priority = index BY <1>2, <1>5, <1>6 DEF Important
  <2> QED BY <1>1, <1>6, <2>1, <2>2 DEF Important
<1>11. Asleep' BY <1>1 DEF Asleep
<1>12. OnlyWanted' BY <1>1, <1>2, <1>5, Events DEF OnlyWanted
<1>13. Sound(base', now') BY <1>1, <1>4
<1> QED BY <1>5, <1>7, <1>8, <1>9, <1>10, <1>11, <1>12, <1>13 DEF IInv, Kept

\* The steps that leave the base as it is.
LEMMA ReadAllHolds == ASSUME IInv, ReadAll \/ \E e \in Io : Arrive(e) PROVE Kept
<1>1. /\ Rest /\ Sound(base, now) /\ Scheduled /\ Threads /\ Important /\ Asleep /\ OnlyWanted
  BY Parts
<1>2. /\ pc' = pc /\ wake' = wake /\ index' = index /\ real' = real /\ ready' = ready
      /\ base' = base /\ now' = now /\ other' = other /\ leaked' = leaked /\ calls' = calls
      /\ wanted' = wanted /\ readable' \subseteq Io
  <2>1. readable \subseteq Io BY <1>1 DEF Rest
  <2> QED BY <2>1 DEF ReadAll, Arrive, loopVars
<1>3. Rest' BY <1>1, <1>2 DEF Rest
<1>4. Sound(base', now') BY <1>1, <1>2
<1>5. Scheduled' /\ OnlyWanted' BY <1>1, <1>2 DEF Scheduled, OnlyWanted
<1>6. Running' <=> Running BY <1>2 DEF Running
<1>7. Threads' BY <1>1, <1>2, <1>6 DEF Threads
<1>8. Important' BY <1>1, <1>2, <1>6 DEF Important
<1>9. Asleep' BY <1>1, <1>2 DEF Asleep
<1> QED BY <1>2, <1>3, <1>4, <1>5, <1>7, <1>8, <1>9 DEF IInv, Kept

LEMMA PollHolds == ASSUME IInv, Poll PROVE Kept
<1>1. /\ Rest /\ Sound(base, now) /\ Scheduled /\ Threads /\ OnlyWanted BY Parts
<1>2. /\ pc = "wait" /\ pc' = "polled" /\ wake' = -1 /\ ready' = Watched \cap Readable
      /\ base' = base /\ now' = now /\ readable' = readable /\ index' = index /\ real' = real
      /\ other' = other /\ leaked' = leaked /\ calls' = calls /\ wanted' = wanted
  BY DEF Poll
<1>3. Rest'
  <2>1. ready' \subseteq IoEvs /\ wake' \in -1 .. MaxTime BY <1>2, Events DEF Watched
  <2> QED BY <1>1, <1>2, <2>1 DEF Rest
<1>4. Sound(base', now') BY <1>1, <1>2
<1>5. Scheduled' /\ OnlyWanted' BY <1>1, <1>2 DEF Scheduled, OnlyWanted
<1>6. Threads' BY <1>1, <1>2 DEF Threads, Running
<1>7. Important' /\ Asleep' BY <1>2 DEF Important, Asleep, Running
<1> QED BY <1>2, <1>3, <1>4, <1>5, <1>6, <1>7 DEF IInv, Kept

LEMMA TickHolds == ASSUME IInv, Tick PROVE Kept
<1>1. /\ Rest /\ Sound(base, now) /\ Scheduled /\ Threads /\ Important /\ Asleep /\ OnlyWanted
      /\ base \in Bases /\ now \in Nat
  BY Parts
<1>2. /\ now < MaxTime /\ now' = now + 1
      /\ UNCHANGED <<loopVars, base, readable, other, leaked, calls, wanted>>
  BY DEF Tick
<1>3. /\ pc' = pc /\ wake' = wake /\ index' = index /\ real' = real /\ ready' = ready
      /\ base' = base
  BY <1>2 DEF loopVars
<1>4. Rest'
  <2>1. now' \in 1 .. MaxTime BY <1>1, <1>2, Events DEF Rest
  <2> QED BY <1>1, <1>2, <1>3, <2>1 DEF Rest
<1>5. Sound(base', now')
  <2>1. Elapsed(base, now) BY <1>1 DEF Sound
  <2>2. base.ev_timeout \in [Evs -> Nat] /\ base.tv_cache \in 0 .. MaxTime BY <1>1, Fields
  <2>3. base.tv_cache <= now + 1 BY <1>1, <2>1, <2>2, Events DEF Elapsed
  <2>4. ASSUME NEW e \in Users \ Exits, e \in Flagged(base, "ACTIVE"),
               "TIMEOUT" \in base.ev_res[e]
        PROVE  base.ev_timeout[e] <= now + 1
    BY <1>1, <2>1, <2>2, <2>4, Events DEF Elapsed
  <2>5. Elapsed(base, now + 1) BY <2>3, <2>4 DEF Elapsed
  <2>6. Sound(base, now + 1) BY <1>1, <2>5 DEF Sound
  <2> QED BY <1>2, <1>3, <2>6
<1>6. Scheduled' /\ OnlyWanted' BY <1>1, <1>2, <1>3 DEF Scheduled, OnlyWanted
<1>7. Running' <=> Running BY <1>3 DEF Running
<1>8. Threads' BY <1>1, <1>2, <1>3, <1>7 DEF Threads
<1>9. Important' BY <1>1, <1>3, <1>7 DEF Important
<1>10. Asleep'
  <2>1. now' < wake' => now < wake BY <1>1, <1>2, <1>3, Events DEF Rest
  <2> QED BY <1>1, <1>3, <2>1 DEF Asleep
<1> QED BY <1>3, <1>4, <1>5, <1>6, <1>8, <1>9, <1>10 DEF IInv, Kept

---------------------------------------------------------------------------
(* Going to sleep, waking up                                               *)

\* What the thread of the loop does to the base between two callbacks.
Turns(b, c) ==
  /\ c.current_event = b.current_event /\ c.current_event_waiters = b.current_event_waiters
  /\ Tells(b, c) /\ Keeps(b, c) /\ Used(c) \subseteq Used(b) \cup Internal
  /\ c.event_break = b.event_break

LEMMA TurnsTwice ==
  ASSUME NEW b, NEW c, NEW d, Turns(b, c), Turns(c, d)
  PROVE  Turns(b, d)
<1>1. Tells(b, d) /\ Keeps(b, d) BY DEF Turns, Tells, Keeps
<1> QED BY <1>1 DEF Turns

LEMMA DoesTurns ==
  ASSUME NEW b, NEW c, Does(b, c, {}), Keeps(b, c)
  PROVE  Turns(b, c)
BY DEF Does, SamePlace, Turns

LEMMA FieldsTurn ==
  ASSUME NEW b, NEW t, Sound(b, t), NEW c, Alike(b, c), c.tv_cache <= t,
         c.current_event = b.current_event, c.current_event_waiters = b.current_event_waiters,
         c.is_notify_pending = b.is_notify_pending, c.notify_fd = b.notify_fd,
         c.event_break = b.event_break
  PROVE  Sound(c, t) /\ Turns(b, c) /\ Busy(c) = Busy(b) /\ InHeap(c) = InHeap(b)
<1>1. /\ Sound(c, t) /\ ListSet(c) = ListSet(b) /\ Used(c) = Used(b)
      /\ Busy(c) = Busy(b) /\ InHeap(c) = InHeap(b)
  BY Replaced
<1> QED BY <1>1 DEF Turns, Tells, Keeps

LEMMA TurnHolds ==
  ASSUME IInv, ~Running, pc' \notin {"call", "drained", "return"}, Sound(base', now),
         Turns(base, base'), now' = now, other' = other, wanted' = wanted
  PROVE  Sound(base', now') /\ Scheduled' /\ Threads' /\ OnlyWanted'
<1>1. Scheduled /\ Threads /\ OnlyWanted BY Parts
<1>2. ~Running' BY DEF Running
<1>3. /\ base'.current_event = base.current_event
      /\ base'.current_event_waiters = base.current_event_waiters
      /\ Tells(base, base') /\ Keeps(base, base')
      /\ Used(base') \subseteq Used(base) \cup Internal
  BY DEF Turns
<1>4. Scheduled'
  <2>1. ListSet(base) BY <1>1 DEF Scheduled, Running
  <2> QED BY <1>3, <2>1 DEF Scheduled, Keeps
<1>5. Threads'
  <2>1. (Told(base))' BY <1>1, <1>3 DEF Threads, Told, Tells, Running
  <2> QED BY <1>1, <1>2, <1>3, <2>1 DEF Threads
<1>6. OnlyWanted' BY <1>1, <1>3, Events DEF OnlyWanted
<1>7. Sound(base', now') OBVIOUS
<1> QED BY <1>4, <1>5, <1>6, <1>7

LEMMA MinOfTwo ==
  ASSUME NEW m \in Int, NEW n \in Int
  PROVE  Min({m, n}) = IF m <= n THEN m ELSE n
<1>1. PICK x : x = IF m <= n THEN m ELSE n OBVIOUS
<1>2. x \in {m, n} /\ \A y \in {m, n} : x <= y BY <1>1
<1>3. /\ Min({m, n}) \in {m, n} /\ \A y \in {m, n} : Min({m, n}) <= y BY <1>2 DEF Min
<1> QED BY <1>1, <1>2, <1>3

\* How long the loop sleeps: not at all if something is active, for ever if
\* there is no timer.
LEMMA SleepIs ==
  ASSUME IInv, NEW sleep, sleep = IF NumActive(base) > 0 THEN 0 ELSE TimeoutNext(base, now),
         NEW until, until = IF sleep = -1 THEN -1 ELSE Min({now + sleep, MaxTime})
  PROVE  /\ until \in -1 .. MaxTime
         /\ until = -1 \/ now < until => Busy(base) = {}
         /\ until = -1 => InHeap(base) = {}
<1>1. /\ base \in Bases /\ now \in 1 .. MaxTime /\ Sound(base, now) /\ TimersOk(base)
      /\ now \in Nat /\ now <= MaxTime
  BY Parts DEF Rest, Sound
<1>2. NumActive(base) \in Nat /\ (NumActive(base) = 0 <=> Busy(base) = {}) BY <1>1, NoneActive
<1>3. Time(base, now) \in 1 .. MaxTime BY <1>1, ClockIs
<1>4. MaxTime \in Nat /\ MaxTime >= 1 BY Events
<1>5. CASE NumActive(base) > 0
  <2>1. sleep = 0 BY <1>5
  <2>2. until = Min({now, MaxTime}) BY <1>1, <2>1
  <2>3. until = now BY <1>1, <1>4, <2>2, MinOfTwo
  <2> QED BY <1>1, <2>3
<1>6. CASE NumActive(base) = 0
  <2>1. sleep = TimeoutNext(base, now) BY <1>6
  <2>2. CASE base.timeheap = << >>
    <3>1. sleep = -1 BY <2>1, <2>2 DEF TimeoutNext
    <3>2. InHeap(base) = {} BY <1>1, <2>2, HeapFirst
    <3> QED BY <1>2, <1>4, <1>6, <3>1, <3>2
  <2>3. CASE base.timeheap # << >>
    <3>1. base.timeheap[1] \in InHeap(base) BY <1>1, <2>3, HeapFirst
    <3>2. base.timeheap[1] \in Evs BY <1>1, <3>1, Fields DEF InHeap
    <3>3. PICK first \in Nat : first = base.ev_timeout[base.timeheap[1]] BY <1>1, <3>2, Fields
    <3>4. sleep = IF first <= Time(base, now) THEN 0 ELSE first - Time(base, now)
      BY <2>1, <2>3, <3>3 DEF TimeoutNext
    <3>5. sleep \in Nat BY <1>3, <1>4, <3>3, <3>4
    <3>6. until = Min({now + sleep, MaxTime}) BY <3>5
    <3>7. now + sleep \in Int /\ MaxTime \in Int BY <1>1, <1>4, <3>5
    <3>8. until = IF now + sleep <= MaxTime THEN now + sleep ELSE MaxTime
      BY <3>6, <3>7, MinOfTwo
    <3>9. until \in 0 .. MaxTime BY <1>1, <1>4, <3>5, <3>8
    <3> QED BY <1>2, <1>4, <1>6, <3>9
  <2> QED BY <2>2, <2>3
<1> QED BY <1>2, <1>5, <1>6

LEMMA GoToSleepHolds == ASSUME IInv, GoToSleep PROVE Kept
<1>1. /\ pc = "top" /\ ~base.event_break /\ pc' = "wait"
      /\ base' = [MakeLaterActive(NewTurn) EXCEPT !.tv_cache = 0]
      /\ UNCHANGED <<now, readable, ready, index, real, other, leaked, calls, wanted>>
  BY DEF GoToSleep
<1>2. /\ Rest /\ Sound(base, now) /\ base \in Bases /\ base.tv_cache <= now /\ now \in Nat
  BY Parts
<1>3. PICK sleep : /\ sleep = IF NumActive(base) > 0 THEN 0 ELSE TimeoutNext(base, now)
                   /\ wake' = IF sleep = -1 THEN -1 ELSE Min({now + sleep, MaxTime})
  BY DEF GoToSleep
<1>4. /\ wake' \in -1 .. MaxTime
      /\ wake' = -1 \/ now < wake' => Busy(base) = {}
      /\ wake' = -1 => InHeap(base) = {}
  BY <1>3, SleepIs
<1>5. Sound(NewTurn, now) /\ Turns(base, NewTurn) /\ Busy(NewTurn) = Busy(base)
      /\ InHeap(NewTurn) = InHeap(base)
  <2>1. PICK no \in BOOLEAN : no = FALSE OBVIOUS
  <2>2. NewTurn = [base EXCEPT !.event_continue = no, !.n_deferreds_queued = 0]
    BY <2>1 DEF NewTurn
  <2>3. NewTurn \in Bases BY <1>2, <2>2 DEF Bases
  <2>4. Alike(base, NewTurn) BY <1>2, <2>2, <2>3, AlikeIs DEF Bases
  <2>5. /\ NewTurn.tv_cache = base.tv_cache /\ NewTurn.current_event = base.current_event
        /\ NewTurn.current_event_waiters = base.current_event_waiters
        /\ NewTurn.is_notify_pending = base.is_notify_pending
        /\ NewTurn.notify_fd = base.notify_fd /\ NewTurn.event_break = base.event_break
    BY <1>2, <2>2 DEF Bases
  <2> QED BY <1>2, <2>4, <2>5, FieldsTurn
<1>6. PICK c : c = MakeLaterActive(NewTurn) OBVIOUS
<1>7. Follows("later", NewTurn, c, now) BY <1>5, <1>6, MadeLaterActive
<1>8. Sound(c, now) /\ Turns(NewTurn, c) /\ Quiet(NewTurn, c) BY <1>7, DoesTurns DEF Follows
<1>9. Sound(base', now) /\ Turns(c, base') /\ Busy(base') = Busy(c) /\ InHeap(base') = InHeap(c)
  <2>1. c \in Bases /\ base' = [c EXCEPT !.tv_cache = 0] BY <1>1, <1>6, <1>8 DEF Sound
  <2>2. 0 \in 0 .. MaxTime BY Events
  <2>3. base' \in Bases BY <2>1, <2>2 DEF Bases
  <2>4. Alike(c, base') BY <2>1, <2>3, AlikeIs DEF Bases
  <2>5. /\ base'.tv_cache = 0 /\ base'.current_event = c.current_event
        /\ base'.current_event_waiters = c.current_event_waiters
        /\ base'.is_notify_pending = c.is_notify_pending
        /\ base'.notify_fd = c.notify_fd /\ base'.event_break = c.event_break
    BY <2>1 DEF Bases
  <2> QED BY <1>2, <1>8, <2>4, <2>5, FieldsTurn
<1>10. Turns(base, base') BY <1>5, <1>8, <1>9, TurnsTwice
<1>11. Sound(base', now') /\ Scheduled' /\ Threads' /\ OnlyWanted'
  BY <1>1, <1>9, <1>10, TurnHolds DEF Running
<1>12. Rest' BY <1>1, <1>2, <1>4 DEF Rest
<1>13. Important' BY <1>1 DEF Important, Running
<1>14. Asleep'
  <2> SUFFICES ASSUME wake' = -1 \/ now < wake'
               PROVE  /\ Busy(base') = {} /\ base'.event_break = FALSE
                      /\ wake' = -1 => InHeap(base') = {}
    BY <1>1 DEF Asleep
  <2>1. Busy(base') = {} BY <1>4, <1>5, <1>8, <1>9 DEF Quiet
  <2>2. base'.event_break = FALSE BY <1>1, <1>2, <1>10, Fields DEF Turns
  <2>3. wake' = -1 => InHeap(base') = {} BY <1>4, <1>5, <1>8, <1>9 DEF Quiet
  <2> QED BY <2>1, <2>2, <2>3
<1> QED BY <1>10, <1>11, <1>12, <1>13, <1>14 DEF IInv, Kept, Turns

LEMMA DispatchHolds == ASSUME IInv, Dispatch PROVE Kept
<1>1. /\ pc = "polled" /\ ready' = {} /\ index' = 0 /\ real' = FALSE
      /\ UNCHANGED <<now, readable, wake, other, leaked, calls, wanted>>
  BY DEF Dispatch
<1>2. pc' \in {"process", "top"} BY DEF Dispatch
<1>3. PICK order \in SetToSeqs(ready) :
        base' = TimeoutProcess([ActivateReady(base, order) EXCEPT !.tv_cache = now], now)
  BY DEF Dispatch
<1>4. /\ Rest /\ Sound(base, now) /\ now \in Nat /\ now \in 1 .. MaxTime BY Parts DEF Rest
<1>5. order \in Seq(Evs)
  <2>1. ready \in SUBSET Evs BY <1>4, Events DEF Rest
  <2>2. Cardinality(ready) \in Nat BY <2>1, Events, FS_Subset, FS_CardinalityType
  <2>3. order \in [1 .. Cardinality(ready) -> ready] BY DEF SetToSeqs
  <2> QED BY <2>1, <2>2, <2>3
<1>6. PICK c : c = ActivateReady(base, order) OBVIOUS
<1>7. Follows("ready", base, c, now) BY <1>4, <1>5, <1>6, ReadyActivated
<1>8. Sound(c, now) /\ Turns(base, c) BY <1>7, DoesTurns DEF Follows
<1>9. PICK d : d = [c EXCEPT !.tv_cache = now] OBVIOUS
<1>10. Sound(d, now) /\ Turns(c, d)
  <2>1. c \in Bases /\ now \in 0 .. MaxTime BY <1>4, <1>8 DEF Sound
  <2>2. d \in Bases BY <1>9, <2>1 DEF Bases
  <2>3. Alike(c, d) BY <1>9, <2>1, <2>2, AlikeIs DEF Bases
  <2>4. /\ d.tv_cache = now /\ d.current_event = c.current_event
        /\ d.current_event_waiters = c.current_event_waiters
        /\ d.is_notify_pending = c.is_notify_pending
        /\ d.notify_fd = c.notify_fd /\ d.event_break = c.event_break
    BY <1>9, <2>1 DEF Bases
  <2>5. d.tv_cache <= now BY <1>4, <2>4
  <2> QED BY <1>8, <2>3, <2>4, <2>5, FieldsTurn
<1>11. base' = TimeoutProcess(d, now) BY <1>3, <1>6, <1>9
<1>12. Follows("timer", d, base', now) BY <1>4, <1>10, <1>11, TimeoutProcessed
<1>13. Sound(base', now) /\ Turns(d, base') BY <1>12, DoesTurns DEF Follows
<1>14. Turns(base, base') BY <1>8, <1>10, <1>13, TurnsTwice
<1>15. Sound(base', now') /\ Scheduled' /\ Threads' /\ OnlyWanted'
  BY <1>1, <1>2, <1>13, <1>14, TurnHolds DEF Running
<1>16. Rest'
  <2>a. real' \in BOOLEAN BY <1>1
  <2>b. index' \in 0 .. NumPri BY <1>1, Events
  <2>1. index' \in 0 .. NumPri /\ ready' \subseteq IoEvs /\ real' \in BOOLEAN
    BY <1>1, <2>a, <2>b
  <2> QED BY <1>1, <1>2, <1>4, <2>1 DEF Rest
<1>17. Important'
  <2>1. ~Running' /\ real' # TRUE BY <1>1, <1>2 DEF Running
  <2>2. \A f \in Users \ Deferred : Prio(f) >= index' BY <1>1, Events
  <2> QED BY <2>1, <2>2 DEF Important
<1>18. Asleep' BY <1>2 DEF Asleep
<1> QED BY <1>14, <1>15, <1>16, <1>17, <1>18 DEF IInv, Kept, Turns

---------------------------------------------------------------------------
(* A callback starts                                                       *)

LEMMA QueueOf ==
  ASSUME NEW b \in Bases, QueuesOk(b), NEW p \in Prios
  PROVE  /\ \A f \in Flagged(b, "ACTIVE") : Prio(f) = p => b.activequeues[p] # << >>
         /\ b.activequeues[p] # << >> =>
              /\ Head(b.activequeues[p]) \in Flagged(b, "ACTIVE")
              /\ Prio(Head(b.activequeues[p])) = p
<1>1. PICK S \in SUBSET Evs : S = {x \in Flagged(b, "ACTIVE") : Prio(x) = p} BY Fields
<1>2. PICK q : q = b.activequeues[p] OBVIOUS
<1>3. Holds(q, S) BY <1>1, <1>2 DEF QueuesOk
<1>4. ASSUME NEW f \in Flagged(b, "ACTIVE"), Prio(f) = p PROVE q # << >>
  <2>1. f \in S /\ f \in Evs BY <1>1, <1>4
  <2>2. PICK k \in DOMAIN q : q[k] = f BY <1>3, <2>1 DEF Holds, Lists
  <2> QED BY <2>2
<1>5. q # << >> => Head(q) \in S BY <1>3, Tailed
<1> QED BY <1>1, <1>2, <1>4, <1>5

\* The queue of the next event: nothing more important is active.
LEMMA Urgent ==
  ASSUME IInv, pc = "process", NEW p \in Candidates, \A q \in Candidates : p <= q,
         base.event_continue = FALSE,
         NEW f \in Users \ Deferred, f \in Flagged(base, "ACTIVE")
  PROVE  Prio(f) >= p
<1>1. /\ Important /\ base \in Bases /\ QueuesOk(base) /\ index \in Nat /\ real \in BOOLEAN
  BY Parts DEF Sound, Rest
<1>2. PICK r \in Prios : r = Prio(f) BY Events
<1>3. r >= index BY <1>1, <1>2 DEF Important
<1>4. p \in index .. NumPri - 1 /\ (real = TRUE => p = base.event_running_priority)
  BY DEF Candidates
<1>5. CASE real = TRUE
  <2>1. base.event_running_priority = index BY <1>1, <1>5 DEF Important
  <2> QED BY <1>2, <1>3, <1>4, <1>5, <2>1
<1>6. CASE real = FALSE
  <2>1. base.activequeues[r] # << >> BY <1>1, <1>2, QueueOf
  <2>2. r \in index .. NumPri - 1 BY <1>1, <1>2, <1>3, Events DEF Prios
  <2>3. r \in Candidates BY <1>6, <2>1, <2>2 DEF Candidates
  <2> QED BY <1>2, <2>3
<1> QED BY <1>1, <1>5, <1>6

\* The event leaves its queue, and if it is not persistent the base.
Taken(b, e) ==
  IF e \in Persist \cup Deferred \cup {th_notify} THEN QueueRemoveActive(b, e)
  ELSE EventDelNolock(b, e, FALSE)
Rerun(b, e, t) == IF e \in Persist THEN PersistReschedule(b, e, t) ELSE b

LEMMA TakenIs ==
  ASSUME NEW b, NEW t, Sound(b, t), NEW e \in Evs, e \in Flagged(b, "ACTIVE"),
         NEW c, c = Taken(b, e)
  PROVE  /\ Sound(c, t) /\ Does(b, c, {}) /\ (e # timeout_event => Keeps(b, c))
         /\ Flagged(c, "ACTIVE") \subseteq Flagged(b, "ACTIVE")
         /\ c.ev_res = b.ev_res /\ c.ev_timeout = b.ev_timeout
<1>1. CASE e \in Persist \cup Deferred \cup {th_notify}
  <2>1. c = RemoveFromActive(b, e) BY <1>1 DEF Taken, RemoveFromActive, Flagged
  <2>2. b \in Bases /\ QueuesOk(b) BY DEF Sound
  <2>3. Freed(b, c, e) BY <2>1, <2>2, RemovedFromActive
  <2>4. /\ c.ev_res = b.ev_res /\ c.ev_timeout = b.ev_timeout
        /\ Flagged(c, "ACTIVE") \subseteq Flagged(b, "ACTIVE")
    BY <2>3 DEF Freed, SameTimers, SameKinds
  <2>5. /\ Sound(c, t) /\ Does(b, c, {}) /\ (e # timeout_event => Keeps(b, c))
    BY <2>1, Cancelled
  <2> QED BY <2>4, <2>5
<1>2. CASE e \notin Persist \cup Deferred \cup {th_notify}
  <2>1. PICK need \in BOOLEAN : need = FALSE OBVIOUS
  <2>2. c = EventDelNolock(b, e, need) BY <1>2, <2>1 DEF Taken
  <2>3. /\ Sound(c, t) /\ Does(b, c, {}) /\ Gone(b, c, e) /\ (e # timeout_event => Keeps(b, c))
    BY <2>2, EventDeleted
  <2>4. /\ c.ev_res = b.ev_res /\ c.ev_timeout = b.ev_timeout
        /\ Flagged(c, "ACTIVE") \subseteq Flagged(b, "ACTIVE")
    BY <2>3 DEF Gone, Less
  <2> QED BY <2>3, <2>4
<1> QED BY <1>1, <1>2

LEMMA StartedFrom ==
  ASSUME NEW p, StartCallback(p)
  PROVE  \E e, b, c :
           /\ e = Head(base.activequeues[p]) /\ b = Taken(base, e) /\ c = PutPlace(b, e, 0, p)
           /\ base' = Rerun(c, e, now) /\ real' = (real \/ e \in Users)
<1>1. PICK e : e = Head(base.activequeues[p]) OBVIOUS
<1>2. PICK b : b = Taken(base, e) OBVIOUS
<1>3. PICK c : c = PutPlace(b, e, 0, p) OBVIOUS
<1>4. base' = Rerun(c, e, now) /\ real' = (real \/ e \in Users)
  BY <1>1, <1>2, <1>3 DEF StartCallback, Taken, PutPlace, Rerun
<1> QED BY <1>1, <1>2, <1>3, <1>4

LEMMA StartCallbackHolds ==
  ASSUME IInv, NEW p \in Prios, StartCallback(p)
  PROVE  IInv' /\ base'.current_event \in Evs /\ Prio(base'.current_event) = p
<1>1. /\ pc = "process" /\ p \in Candidates /\ \A q \in Candidates : p <= q
      /\ index' = p /\ pc' = "call"
      /\ UNCHANGED <<now, readable, wake, ready, other, leaked, calls, wanted>>
  BY DEF StartCallback
<1>2. /\ Rest /\ Sound(base, now) /\ Scheduled /\ Threads /\ OnlyWanted /\ base \in Bases
      /\ QueuesOk(base) /\ Elapsed(base, now) /\ base.tv_cache <= now /\ now \in 1 .. MaxTime
  BY Parts DEF Sound, Rest
<1>3. PICK e, b, c :
        /\ e = Head(base.activequeues[p]) /\ b = Taken(base, e) /\ c = PutPlace(b, e, 0, p)
        /\ base' = Rerun(c, e, now) /\ real' = (real \/ e \in Users)
  BY StartedFrom
<1>4. e \in Flagged(base, "ACTIVE") /\ e \in Evs /\ Prio(e) = p
  <2>1. base.activequeues[p] # << >> BY <1>1 DEF Candidates
  <2>2. e \in Flagged(base, "ACTIVE") /\ Prio(e) = p BY <1>2, <1>3, <2>1, QueueOf
  <2> QED BY <1>2, <2>2, Fields
<1>5. /\ Sound(b, now) /\ Does(base, b, {}) /\ (e # timeout_event => Keeps(base, b))
      /\ Flagged(b, "ACTIVE") \subseteq Flagged(base, "ACTIVE")
      /\ b.ev_res = base.ev_res /\ b.ev_timeout = base.ev_timeout
  BY <1>2, <1>3, <1>4, TakenIs
<1>6. Placed(b, c, e, 0, p)
  <2>1. b \in Bases /\ 0 \in 0 .. 1 /\ p \in Prios \cup {-1} /\ e \in Evs \cup {None}
    BY <1>4, <1>5 DEF Sound
  <2> QED BY <1>3, <2>1, PlacePut
<1>7. /\ Alike(b, c) /\ c.current_event = e /\ c.current_event_waiters = 0
      /\ c.event_running_priority = p /\ c.event_continue = b.event_continue
      /\ c.is_notify_pending = b.is_notify_pending /\ c.notify_fd = b.notify_fd
      /\ c.tv_cache = b.tv_cache /\ c.ev_res = b.ev_res /\ c.ev_timeout = b.ev_timeout
  BY <1>6 DEF Placed, Alike, SameKinds, SameTimers
<1>8. /\ Sound(c, now) /\ ListSet(c) = ListSet(b) /\ Used(c) = Used(b)
      /\ Flagged(c, "ACTIVE") = Flagged(b, "ACTIVE")
  <2>1. c.tv_cache <= now BY <1>5, <1>7 DEF Sound, Elapsed
  <2> QED BY <1>5, <1>7, <2>1, Replaced
<1>9. Sound(base', now) /\ Does(c, base', {e}) /\ Keeps(c, base')
  <2>1. CASE e \in Persist
    <3>1. base' = PersistReschedule(c, e, now) BY <1>3, <2>1 DEF Rerun
    <3>2. e \in Users \ Exits BY <2>1, Events
    <3>3. "TIMEOUT" \in c.ev_res[e] => c.ev_timeout[e] <= now
      BY <1>2, <1>4, <1>5, <1>7, <3>2 DEF Elapsed
    <3> QED BY <1>2, <1>8, <2>1, <3>1, <3>3, Rescheduled
  <2>2. CASE e \notin Persist
    <3>1. base' = c BY <1>3, <2>2 DEF Rerun
    <3> QED BY <1>8, <3>1 DEF Does, SamePlace, Tells, Continues, Keeps
  <2> QED BY <2>1, <2>2
<1>10. /\ base'.current_event = e /\ base'.current_event_waiters = 0
       /\ base'.event_running_priority = p /\ Tells(c, base') /\ Continues(c, base')
       /\ Used(base') \subseteq Used(c) \cup {e} \cup Internal
  BY <1>7, <1>9 DEF Does, SamePlace
<1>11. Tells(base, b) /\ Continues(base, b) /\ Used(b) \subseteq Used(base) \cup Internal
  BY <1>5 DEF Does
<1>12. Running' /\ ~Running BY <1>1 DEF Running
<1>13. Rest'
  <2>1. p \in 0 .. NumPri BY Events DEF Prios
  <2>2. real' \in BOOLEAN BY <1>3
  <2> QED BY <1>1, <1>2, <2>1, <2>2 DEF Rest
<1>14. Scheduled'
  <2>1. CASE e = timeout_event BY <1>1, <1>10, <2>1 DEF Scheduled
  <2>2. CASE e # timeout_event
    <3>1. ListSet(base) BY <1>1, <1>2 DEF Scheduled
    <3> QED BY <1>5, <1>8, <1>9, <2>2, <3>1 DEF Scheduled, Keeps
  <2> QED BY <2>1, <2>2
<1>15. Threads'
  <2>1. other.state # "waiting"
    <3>1. base.current_event = None BY <1>2, <1>12 DEF Threads
    <3>2. other.state = "waiting" => other.event \in Users /\ other.event = None
      BY <1>2, <3>1 DEF Threads
    <3> QED BY <3>2, Events
  <2>2. (Told(base))'
    <3>1. Told(base) BY <1>1, <1>2 DEF Threads
    <3>2. Told(b) BY <1>11, <3>1 DEF Told, Tells
    <3>3. Told(c) BY <1>7, <3>2 DEF Told
    <3> QED BY <1>10, <3>3 DEF Told, Tells
  <2>3. e # None BY <1>4, Events
  <2> QED BY <1>1, <1>2, <1>10, <1>12, <2>1, <2>2, <2>3 DEF Threads
<1>16. Important'
  <2>1. ASSUME base'.event_continue # TRUE,
               NEW f \in Users \ Deferred, f \in Flagged(base', "ACTIVE")
        PROVE  Prio(f) >= p
    <3>1. c.event_continue # TRUE BY <1>10, <2>1 DEF Continues
    <3>2. base.event_continue # TRUE BY <1>7, <1>11, <3>1 DEF Continues
    <3>3. base.event_continue = FALSE BY <1>2, <3>2, Fields
    <3>4. f \in Flagged(c, "ACTIVE") \/ Prio(f) >= p BY <1>7, <1>10, <2>1 DEF Continues
    <3>5. CASE f \in Flagged(c, "ACTIVE")
      <4>1. f \in Flagged(base, "ACTIVE") BY <1>5, <1>8, <3>5
      <4> QED BY <1>1, <3>3, <4>1, Urgent
    <3> QED BY <3>4, <3>5
  <2> QED BY <1>1, <1>10, <1>12, <2>1 DEF Important
<1>17. Asleep' BY <1>1 DEF Asleep
<1>18. OnlyWanted'
  <2>1. e \in Used(base) BY <1>4 DEF Used, Busy
  <2>2. Used(base') \subseteq Used(base) \cup Internal BY <1>8, <1>10, <1>11, <2>1
  <2> QED BY <1>1, <1>2, <2>2, Events DEF OnlyWanted
<1>19. Sound(base', now') BY <1>1, <1>9
<1> QED BY <1>4, <1>10, <1>13, <1>14, <1>15, <1>16, <1>17, <1>18, <1>19 DEF IInv

---------------------------------------------------------------------------
(* Theorems                                                                *)

LEMMA StutterHolds == ASSUME IInv, UNCHANGED vars PROVE Kept
<1>1. /\ Rest /\ Sound(base, now) /\ Scheduled /\ Threads /\ Important /\ Asleep /\ OnlyWanted
  BY Parts
<1>2. /\ pc' = pc /\ wake' = wake /\ index' = index /\ real' = real /\ ready' = ready
      /\ base' = base /\ now' = now /\ other' = other /\ leaked' = leaked /\ calls' = calls
      /\ wanted' = wanted /\ readable' = readable
  BY DEF vars
<1>3. Rest' BY <1>1, <1>2 DEF Rest
<1>4. Sound(base', now') BY <1>1, <1>2
<1>5. Scheduled' /\ OnlyWanted' BY <1>1, <1>2 DEF Scheduled, OnlyWanted
<1>6. Running' <=> Running BY <1>2 DEF Running
<1>7. Threads' BY <1>1, <1>2, <1>6 DEF Threads
<1>8. Important' BY <1>1, <1>2, <1>6 DEF Important
<1>9. Asleep' BY <1>1, <1>2 DEF Asleep
<1> QED BY <1>2, <1>3, <1>4, <1>5, <1>7, <1>8, <1>9 DEF IInv, Kept

LEMMA CallsHold == ASSUME IInv, NEW t \in Callers, Call(t) PROVE Kept
<1>1. CASE \E e \in Plain, tv \in Durs \cup {NoTimeout} : EventAdd(t, e, tv)
  BY <1>1, EventAddHolds
<1>2. CASE \E e \in Plain : EventDel(t, e) \/ EventRemoveTimer(t, e) \/ EventActive(t, e)
  BY <1>2, EventDelHolds, RemoveTimerHolds, EventActiveHolds
<1>3. CASE \E e \in Deferred : EventDeferredCbSchedule(t, e) \/ EventDeferredCbCancel(t, e)
  BY <1>3, DeferredHolds
<1>4. CASE EventBaseLoopbreak(t) BY <1>4, LoopbreakHolds
<1>5. CASE EventBaseLoopcontinue(t) BY <1>5, LoopcontinueHolds
<1>6. CASE EventBaseOnceFails(t) BY <1>6, OnceFailsHolds
<1>7. CASE \E e \in Exits, tv \in ExitDurs : EventBaseLoopexit(t, e, tv)
  BY <1>7, LoopexitHolds
<1> QED BY <1>1, <1>2, <1>3, <1>4, <1>5, <1>6, <1>7 DEF Call

\* Every step but the start of a callback leaves the callback that runs.
LEMMA StepHolds ==
  ASSUME IInv, [Next]_vars
  PROVE  Kept \/ \E p \in Prios : StartCallback(p)
<1>1. CASE StartLoop BY <1>1, StartLoopHolds
<1>2. CASE Loop
  <2>1. CASE LeaveLoop BY <2>1, LeaveLoopHolds
  <2>2. CASE GoToSleep BY <2>2, GoToSleepHolds
  <2>3. CASE Poll BY <2>3, PollHolds
  <2>4. CASE Dispatch BY <2>4, DispatchHolds
  <2>5. CASE EndProcess BY <2>5, EndProcessHolds
  <2>6. CASE Return BY <2>6, ReturnHolds
  <2>7. CASE Drain \/ Drained BY <2>7, DrainHolds
  <2>8. CASE CommonTimeout BY <2>8, CommonTimeoutHolds
  <2>9. CASE LoopexitCb BY <2>9, LoopexitCbHolds
  <2>10. CASE \E p \in Prios : StartCallback(p) BY <2>10
  <2> QED
    BY <1>2, <2>1, <2>2, <2>3, <2>4, <2>5, <2>6, <2>7, <2>8, <2>9, <2>10 DEF Loop
<1>3. CASE ReadAll \/ \E e \in Io : Arrive(e) BY <1>3, ReadAllHolds
<1>4. CASE FinishDel BY <1>4, FinishDelHolds
<1>5. CASE Tick BY <1>5, TickHolds
<1>6. CASE \E t \in {"loop", "other"} : Call(t) BY <1>6, CallsHold DEF Callers
<1>7. CASE UNCHANGED vars BY <1>7, StutterHolds
<1> QED BY <1>1, <1>2, <1>3, <1>4, <1>5, <1>6, <1>7 DEF Next

\* IInv is inductive: it holds after every step of the threads and the clock.
THEOREM Invariance == Spec => []IInv
<1>1. Init => IInv BY InitHolds
<1>2. IInv /\ [Next]_vars => IInv'
  <2> SUFFICES ASSUME IInv, [Next]_vars PROVE IInv' OBVIOUS
  <2>1. CASE Kept BY <2>1 DEF Kept
  <2>2. CASE \E p \in Prios : StartCallback(p) BY <2>2, StartCallbackHolds
  <2> QED BY <2>1, <2>2, StepHolds
<1> QED BY <1>1, <1>2, PTL DEF Spec

\* Whenever th_base_lock is free, and whatever calls were made in which order,
\* the heap is a heap, each event is once on exactly the lists that its flags
\* name, the common timeouts will be looked at in time, and no event is active
\* because of a timeout that has not elapsed (event_base_assert_ok_nolock_).
THEOREM BaseStaysOk == Spec => []Inv
<1>1. IInv => Inv BY InvHolds
<1> QED BY <1>1, Invariance, PTL

\* The loop never sleeps on an event, a timer or a break that another thread
\* gave it: either it has nothing to do or the descriptor of the notification
\* (evthread_notify_base) is readable.
THEOREM WakeupsReach == Spec => []NoLostWakeup
<1>1. IInv => NoLostWakeup BY InvHolds
<1> QED BY <1>1, Invariance, PTL

\* After event_del, neither a wait that had already seen the descriptor nor the
\* persistence of the event brings it back, and the thread that waits in
\* event_del for a callback is known to the loop which runs it.
THEOREM DeletesHold == Spec => []DeleteHolds
<1>1. IInv => DeleteHolds BY InvHolds
<1> QED BY <1>1, Invariance, PTL

\* No callback of event_process_active starts while an event of a more
\* important priority is active, unless event_base_loopcontinue was called.
THEOREM PrioritiesRespected == Spec => PriorityRespected
<1> DEFINE Respected ==
      \A e \in Users, f \in Users \ Deferred :
        (/\ base'.current_event = e /\ base.current_event # e
         /\ Prio(f) < Prio(e) /\ ~base.event_continue)
          => ~Has(base, f, "ACTIVE")
<1>1. IInv /\ [Next]_vars => [Respected]_vars
  <2> SUFFICES ASSUME IInv, [Next]_vars, NEW e \in Users, NEW f \in Users \ Deferred,
                      base'.current_event = e, base.current_event # e,
                      Prio(f) < Prio(e), ~base.event_continue, Has(base, f, "ACTIVE")
               PROVE  FALSE
    OBVIOUS
  <2>1. CASE Kept BY <2>1, Events DEF Kept
  <2>2. CASE \E p \in Prios : StartCallback(p)
    <3>1. PICK p \in Prios : StartCallback(p) BY <2>2
    <3>2. Prio(e) = p BY <3>1, StartCallbackHolds
    <3>3. pc = "process" /\ p \in Candidates /\ \A q \in Candidates : p <= q
      BY <3>1 DEF StartCallback
    <3>4. base.event_continue = FALSE BY Parts, Fields
    <3>5. f \in Flagged(base, "ACTIVE") BY Events DEF Flagged
    <3>6. Prio(f) >= p BY <3>3, <3>4, <3>5, Urgent
    <3>7. Prio(f) \in Nat /\ Prio(e) \in Nat BY Events
    <3> QED BY <3>2, <3>6, <3>7
  <2> QED BY <2>1, <2>2, StepHolds
<1> QED BY <1>1, Invariance, PTL DEF Spec, PriorityRespected
=============================================================================
