-------------------------- MODULE HashTableProofs --------------------------
(***************************************************************************)
(* Theorems about HashTable, for every number of elements, every hash      *)
(* function and every size of the table: the list and the buckets agree    *)
(* between any two steps of a rehash, and the table is a map of names.     *)
(***************************************************************************)
EXTENDS HashTable, FiniteSetTheorems, WellFoundedInduction, TLAPS

LEMMA Sizes == Size \in Nat /\ IsFiniteSet(Elems) /\ Null \notin Elems
BY HashTableAssumption, FS_CardinalityType DEF Size

\* A set of numbers has a least one: induction, for what follows.
LEMMA Least ==
  ASSUME NEW S \in SUBSET Nat, NEW n \in S
  PROVE  \E m \in S : \A k \in S : m <= k
<1>1. S # {} /\ S \subseteq Nat OBVIOUS
<1>2. PICK m \in S : \A k \in S : ~(<<k, m>> \in OpToRel(<, Nat))
  BY <1>1, WFMin, NatLessThanWellFounded
<1>3. \A k \in S : ~(k < m) BY <1>2 DEF OpToRel
<1> QED BY <1>3

---------------------------------------------------------------------------
(* Walking along a list                                                    *)

Walks(at, e, n) == at = [i \in 0 .. n |-> IF i = 0 THEN e ELSE Follow(at[i - 1])]

LEMMA WalkExists == ASSUME NEW e, NEW N \in Nat PROVE \E at : Walks(at, e, N)
<1> DEFINE Bad == {n \in Nat : ~\E at : Walks(at, e, n)}
<1> SUFFICES ASSUME N \in Bad PROVE FALSE OBVIOUS
<1>1. PICK m \in Bad : \A k \in Bad : m <= k BY Least
<1>2. m \in Nat /\ ~\E at : Walks(at, e, m) OBVIOUS
<1>3. CASE m = 0
  <2> DEFINE at == [i \in 0 .. 0 |-> e]
  <2>1. Walks(at, e, 0) BY DEF Walks
  <2> QED BY <1>2, <1>3, <2>1
<1>4. CASE m # 0
  <2>1. m - 1 \in Nat /\ m - 1 \notin Bad BY <1>1, <1>4
  <2>2. PICK g : Walks(g, e, m - 1) BY <2>1
  <2>3. PICK at : at = [i \in 0 .. m |-> IF i < m THEN g[i] ELSE Follow(g[m - 1])] OBVIOUS
  <2>4. \A i \in 0 .. m - 1 : at[i] = g[i] BY <2>1, <2>3
  <2>5. \A i \in 0 .. m : at[i] = IF i = 0 THEN e ELSE Follow(at[i - 1])
    <3> SUFFICES ASSUME NEW i \in 0 .. m
                 PROVE  at[i] = IF i = 0 THEN e ELSE Follow(at[i - 1])
      OBVIOUS
    <3>1. CASE i = m
      <4>1. at[m] = Follow(g[m - 1]) BY <2>1, <2>3
      <4>2. at[m - 1] = g[m - 1] BY <2>1, <2>4
      <4> QED BY <3>1, <4>1, <4>2, <1>4
    <3>2. CASE i # m
      <4>1. i \in 0 .. m - 1 BY <2>1, <3>2
      <4>2. g[i] = IF i = 0 THEN e ELSE Follow(g[i - 1]) BY <2>2, <4>1 DEF Walks
      <4>3. i # 0 => i - 1 \in 0 .. m - 1 BY <2>1, <4>1
      <4> QED BY <2>4, <4>1, <4>2, <4>3
    <3> QED BY <3>1, <3>2
  <2>6. Walks(at, e, m) BY <2>3, <2>5 DEF Walks
  <2> QED BY <1>2, <2>6
<1> QED BY <1>3, <1>4

LEMMA FromWalks == ASSUME NEW e PROVE Walks(From(e), e, Size)
<1>1. \E at : Walks(at, e, Size) BY Sizes, WalkExists
<1> QED BY <1>1 DEF From, Walks

\* s is the list that begins with e: its n elements, and NULL behind the last.
Path(e, n, s) ==
  /\ n \in Nat /\ s \in [1 .. n -> Elems]
  /\ \A i, j \in 1 .. n : s[i] = s[j] => i = j
  /\ e = IF n = 0 THEN Null ELSE s[1]
  /\ \A i \in 1 .. n : next[s[i]] = IF i = n THEN Null ELSE s[i + 1]

In(n, s) == {s[i] : i \in 1 .. n}

LEMMA FromPath ==
  ASSUME NEW e, NEW n, NEW s, Path(e, n, s)
  PROVE  \A i \in 0 .. Size : From(e)[i] = IF i < n THEN s[i + 1] ELSE Null
<1> DEFINE at == From(e)
           is(i) == at[i] = IF i < n THEN s[i + 1] ELSE Null
           Bad == {i \in 0 .. Size : ~is(i)}
<1> SUFFICES ASSUME NEW N \in Bad PROVE FALSE OBVIOUS
<1>1. Bad \in SUBSET Nat OBVIOUS
<1>2. PICK m \in Bad : \A k \in Bad : m <= k BY <1>1, Least
<1>3. m \in 0 .. Size /\ ~is(m) OBVIOUS
<1>4. at[m] = IF m = 0 THEN e ELSE Follow(at[m - 1]) BY <1>3, FromWalks DEF Walks
<1>5. CASE m = 0 BY <1>3, <1>4, <1>5 DEF Path
<1>6. CASE m # 0
  <2>1. m - 1 \in 0 .. Size /\ m - 1 \notin Bad BY <1>2, <1>3, <1>6, Sizes
  <2>2. is(m - 1) BY <2>1
  <2>3. CASE m - 1 < n
    <3>1. m \in 1 .. n /\ at[m - 1] = s[m] BY <1>3, <1>6, <2>2, <2>3, Sizes DEF Path
    <3>2. s[m] \in Elems BY <3>1 DEF Path
    <3>3. at[m] = next[s[m]] BY <1>4, <1>6, <3>1, <3>2, Sizes DEF Follow
    <3> QED BY <1>3, <3>1, <3>3 DEF Path
  <2>4. CASE ~(m - 1 < n)
    <3>1. ~(m < n) /\ at[m - 1] = Null BY <1>3, <1>6, <2>2, <2>4, Sizes DEF Path
    <3> QED BY <1>3, <1>4, <1>6, <3>1 DEF Follow
  <2> QED BY <2>3, <2>4
<1> QED BY <1>5, <1>6

LEMMA PathSize ==
  ASSUME NEW e, NEW n, NEW s, Path(e, n, s)
  PROVE  /\ n <= Size /\ IsFiniteSet(In(n, s)) /\ Cardinality(In(n, s)) = n
         /\ In(n, s) \subseteq Elems
<1>1. n \in Nat /\ s \in [1 .. n -> Elems] BY DEF Path
<1>2. s \in Bijection(1 .. n, In(n, s))
  BY <1>1 DEF Path, In, Bijection, Injection, Surjection, IsInjective
<1>3. IsFiniteSet(1 .. n) /\ Cardinality(1 .. n) = n
  <2>1. Cardinality(1 .. n) = IF 1 > n THEN 0 ELSE (n - 1) + 1 BY <1>1, FS_Interval
  <2> QED BY <1>1, <2>1, FS_Interval
<1>4. IsFiniteSet(In(n, s)) /\ Cardinality(In(n, s)) = n
  BY <1>2, <1>3, FS_Bijection DEF ExistsBijection
<1>5. In(n, s) \in SUBSET Elems BY <1>1 DEF In
<1> QED BY <1>4, <1>5, Sizes, FS_Subset DEF Size

LEMMA BehindPath ==
  ASSUME NEW e, NEW n, NEW s, Path(e, n, s)
  PROVE  Behind(e) = In(n, s)
<1>1. n \in Nat /\ n <= Size /\ s \in [1 .. n -> Elems] BY PathSize DEF Path
<1>2. \A i \in 0 .. Size - 1 : From(e)[i] = IF i < n THEN s[i + 1] ELSE Null
  BY FromPath, Sizes
<1>3. Behind(e) \subseteq In(n, s)
  <2> SUFFICES ASSUME NEW x \in Behind(e) PROVE x \in In(n, s) OBVIOUS
  <2>1. PICK i \in 0 .. Size - 1 : x = From(e)[i] /\ x # Null BY DEF Behind, Run
  <2>2. i < n /\ x = s[i + 1] BY <1>2, <2>1
  <2>3. i + 1 \in 1 .. n BY <1>1, <2>2
  <2> QED BY <2>2, <2>3 DEF In
<1>4. In(n, s) \subseteq Behind(e)
  <2> SUFFICES ASSUME NEW i \in 1 .. n PROVE s[i] \in Behind(e) BY DEF In
  <2>1. i - 1 \in 0 .. Size - 1 /\ i - 1 < n /\ (i - 1) + 1 = i BY <1>1, Sizes
  <2>2. From(e)[i - 1] = s[i] BY <1>2, <2>1
  <2>3. s[i] # Null BY <1>1, Sizes
  <2> QED BY <2>1, <2>2, <2>3 DEF Behind, Run
<1> QED BY <1>3, <1>4

\* The list from one of its places on.
Rest(n, s, a) == [i \in 1 .. (n - a) + 1 |-> s[(a + i) - 1]]

LEMMA RestPath ==
  ASSUME NEW e, NEW n, NEW s, Path(e, n, s), NEW a \in 1 .. n
  PROVE  Path(s[a], (n - a) + 1, Rest(n, s, a))
<1> DEFINE m == (n - a) + 1
<1>1. n \in Nat /\ a \in Nat /\ a >= 1 /\ a <= n BY DEF Path
<1>2. m \in Nat /\ m >= 1 BY <1>1
<1>3. \A i \in 1 .. m : (a + i) - 1 \in 1 .. n /\ Rest(n, s, a)[i] = s[(a + i) - 1]
  BY <1>1 DEF Rest
<1>4. Rest(n, s, a) \in [1 .. m -> Elems] BY <1>3 DEF Rest, Path
<1>5. ASSUME NEW i \in 1 .. m, NEW j \in 1 .. m, Rest(n, s, a)[i] = Rest(n, s, a)[j]
      PROVE i = j
  <2>1. (a + i) - 1 = (a + j) - 1 BY <1>3, <1>5 DEF Path
  <2> QED BY <1>1, <2>1
<1>6. s[a] = Rest(n, s, a)[1]
  <2>1. (a + 1) - 1 = a /\ 1 \in 1 .. m BY <1>1, <1>2
  <2> QED BY <1>3, <2>1
<1>7. ASSUME NEW i \in 1 .. m
      PROVE  next[Rest(n, s, a)[i]] = IF i = m THEN Null ELSE Rest(n, s, a)[i + 1]
  <2>1. (i = m <=> (a + i) - 1 = n) /\ ((a + i) - 1) + 1 = (a + (i + 1)) - 1 BY <1>1
  <2>2. i # m => i + 1 \in 1 .. m BY <1>2
  <2>3. next[s[(a + i) - 1]] = IF (a + i) - 1 = n THEN Null ELSE s[((a + i) - 1) + 1]
    BY <1>3 DEF Path
  <2> QED BY <1>3, <2>1, <2>2, <2>3
<1> HIDE DEF m
<1> QED BY <1>2, <1>4, <1>5, <1>6, <1>7 DEF Path, m

\* The first c elements of a list.
LEMMA RunPath ==
  ASSUME NEW e, NEW n, NEW s, Path(e, n, s), NEW c \in 0 .. n
  PROVE  Run(e, c) = {s[i] : i \in 1 .. c}
<1>1. n \in Nat /\ n <= Size BY PathSize DEF Path
<1>2. \A i \in 0 .. c - 1 : From(e)[i] = s[i + 1]
  <2> SUFFICES ASSUME NEW i \in 0 .. c - 1 PROVE From(e)[i] = s[i + 1] OBVIOUS
  <2>1. i \in 0 .. Size /\ i < n BY <1>1, Sizes
  <2> QED BY <2>1, FromPath
<1>3. \A i \in 0 .. c - 1 : i + 1 \in 1 .. c BY <1>1
<1>4. \A i \in 1 .. c : i - 1 \in 0 .. c - 1 /\ (i - 1) + 1 = i BY <1>1
<1>5. Run(e, c) \subseteq {s[i] : i \in 1 .. c} BY <1>2, <1>3 DEF Run
<1>6. {s[i] : i \in 1 .. c} \subseteq Run(e, c)
  <2> SUFFICES ASSUME NEW i \in 1 .. c PROVE s[i] \in Run(e, c) OBVIOUS
  <2> QED BY <1>2, <1>4 DEF Run
<1> QED BY <1>5, <1>6

\* What findElementWithHash finds among the first c elements of a list.
LEMMA SearchPath ==
  ASSUME NEW k, NEW e, NEW n, NEW s, Path(e, n, s), NEW c \in 0 .. n
  PROVE  \/ /\ Search(k, e, c) = Null
            /\ \A i \in 1 .. c : NameOf[pKey[s[i]]] # NameOf[k]
         \/ \E i \in 1 .. c : Search(k, e, c) = s[i] /\ NameOf[pKey[s[i]]] = NameOf[k]
<1> DEFINE at == From(e)
           M  == {i \in 0 .. c - 1 : at[i] # Null /\ NameOf[pKey[at[i]]] = NameOf[k]}
<1>1. n \in Nat /\ n <= Size /\ s \in [1 .. n -> Elems] BY PathSize DEF Path
<1>2. \A i \in 0 .. c - 1 : i + 1 \in 1 .. c /\ at[i] = s[i + 1] /\ at[i] # Null
  <2> SUFFICES ASSUME NEW i \in 0 .. c - 1
               PROVE  i + 1 \in 1 .. c /\ at[i] = s[i + 1] /\ at[i] # Null
    OBVIOUS
  <2>1. i \in 0 .. Size /\ i < n /\ i + 1 \in 1 .. c /\ i + 1 \in 1 .. n BY <1>1, Sizes
  <2>2. at[i] = s[i + 1] BY <2>1, FromPath
  <2> QED BY <1>1, <2>1, <2>2, Sizes
<1>3. \A i \in 1 .. c : i - 1 \in 0 .. c - 1 /\ (i - 1) + 1 = i BY <1>1
<1>4. CASE M = {}
  <2>1. Search(k, e, c) = Null BY <1>4 DEF Search
  <2>2. \A i \in 0 .. c - 1 : NameOf[pKey[at[i]]] # NameOf[k] BY <1>2, <1>4
  <2> HIDE DEF at, M
  <2>3. \A i \in 1 .. c : NameOf[pKey[s[i]]] # NameOf[k]
    <3> SUFFICES ASSUME NEW i \in 1 .. c PROVE NameOf[pKey[s[i]]] # NameOf[k] OBVIOUS
    <3>1. at[i - 1] = s[i] BY <1>2, <1>3
    <3> QED BY <1>3, <2>2, <3>1
  <2> QED BY <2>1, <2>3
<1>5. CASE M # {}
  <2> DEFINE m == CHOOSE i \in M : \A j \in M : i <= j
  <2>1. M \in SUBSET Nat OBVIOUS
  <2>2. \E i \in M : \A j \in M : i <= j BY <1>5, <2>1, Least
  <2>3. m \in M BY <2>2
  <2>4. Search(k, e, c) = at[m] BY <1>5 DEF Search
  <2>5. m \in 0 .. c - 1 /\ NameOf[pKey[at[m]]] = NameOf[k] BY <2>3
  <2> HIDE DEF at, M, m
  <2> QED BY <1>2, <2>4, <2>5
<1> QED BY <1>4, <1>5
---------------------------------------------------------------------------
(* The invariant                                                           *)

\* prev goes back over the n elements of s.
Back(n, s) == \A i \in 1 .. n : prev[s[i]] = IF i = 1 THEN Null ELSE s[i - 1]

\* The elements of s in bucket b are those from a on, as many as it counts.
RunAt(b, n, s, a) ==
  /\ a \in 1 .. n + 1 /\ ht[b].count \in Nat /\ a + ht[b].count <= n + 1
  /\ ht[b].count > 0 => ht[b].chain = s[a]
  /\ \A i \in 1 .. n : Bucket(pKey[s[i]]) = b <=> (a <= i /\ i < a + ht[b].count)

Runs(n, s) == \A b \in DOMAIN ht : \E a : RunAt(b, n, s, a)

\* A list with its buckets.
Table(n, s) == Path(first, n, s) /\ Back(n, s) /\ Runs(n, s)

---------------------------------------------------------------------------
(* insertElement                                                           *)

Inserted(n, s, p, e) ==
  [i \in 1 .. n + 1 |-> IF i < p THEN s[i] ELSE IF i = p THEN e ELSE s[i - 1]]

LEMMA InsertedAt ==
  ASSUME NEW n \in Nat, NEW s, NEW p \in 1 .. n + 1, NEW e, NEW t, t = Inserted(n, s, p, e)
  PROVE  /\ \A i \in 1 .. n : i < p => t[i] = s[i]
         /\ t[p] = e
         /\ \A i \in 1 .. n : i >= p => t[i + 1] = s[i]
         /\ \A i \in 1 .. n + 1 : \/ i < p /\ i \in 1 .. n /\ t[i] = s[i]
                                  \/ i = p /\ t[i] = e
                                  \/ i > p /\ i - 1 \in 1 .. n /\ i - 1 >= p /\ t[i] = s[i - 1]
<1>1. \A i \in 1 .. n + 1 : t[i] = IF i < p THEN s[i] ELSE IF i = p THEN e ELSE s[i - 1]
  BY DEF Inserted
<1>2. \A i \in 1 .. n : i \in 1 .. n + 1 /\ i + 1 \in 1 .. n + 1 /\ (i + 1) - 1 = i OBVIOUS
<1>3. \A i \in 1 .. n : i >= p => ~(i + 1 < p) /\ i + 1 # p OBVIOUS
<1>4. \A i \in 1 .. n : i >= p => t[i + 1] = s[i] BY <1>1, <1>2, <1>3
<1>5. \A i \in 1 .. n + 1 : \/ i < p /\ i \in 1 .. n /\ t[i] = s[i]
                            \/ i = p /\ t[i] = e
                            \/ i > p /\ i - 1 \in 1 .. n /\ i - 1 >= p /\ t[i] = s[i - 1]
  BY <1>1
<1>6. t[p] = e BY <1>1
<1>7. \A i \in 1 .. n : i < p => t[i] = s[i] BY <1>1, <1>2
<1> QED BY <1>4, <1>5, <1>6, <1>7

\* Where the new element goes: in front of the run of its bucket.
LEMMA LinkedAt ==
  ASSUME NEW n, NEW s, Path(first, n, s), Back(n, s),
         next \in [Elems -> used \cup {Null}], prev \in [Elems -> used \cup {Null}],
         NEW e \in Elems, e \notin In(n, s), NEW b, NEW p \in 1 .. n + 1,
         insertElement(e, b),
         IF htsize > 0 /\ ht[b].count > 0 THEN p <= n /\ ht[b].chain = s[p] ELSE p = 1
  PROVE  LET t == Inserted(n, s, p, e) IN
         /\ Path(first, n + 1, t)' /\ Back(n + 1, t)'
         /\ In(n + 1, t) = In(n, s) \cup {e}
         /\ \A x \in Elems : x # e /\ x \notin In(n, s) =>
              next'[x] = next[x] /\ prev'[x] = prev[x]
<1> DEFINE t == Inserted(n, s, p, e)
           head == IF htsize > 0 /\ ht[b].count > 0 THEN ht[b].chain ELSE Null
           succ == IF head # Null THEN head ELSE first
           pred == IF head # Null THEN prev[head] ELSE Null
<1>1. n \in Nat /\ s \in [1 .. n -> Elems] /\ (\A i \in 1 .. n : s[i] # Null /\ s[i] # e)
  BY Sizes DEF Path, In
<1>2. succ = IF p <= n THEN s[p] ELSE Null
  BY <1>1 DEF Path
<1>3. pred = IF p > 1 THEN s[p - 1] ELSE Null
  BY <1>1 DEF Back
<1>4. /\ next' = [x \in Elems |-> IF x = e THEN succ ELSE IF x = pred THEN e ELSE next[x]]
      /\ prev' = [x \in Elems |-> IF x = e THEN pred ELSE IF x = succ THEN e ELSE prev[x]]
      /\ first' = IF pred = Null THEN e ELSE first
  BY DEF insertElement
<1>0. t = Inserted(n, s, p, e) OBVIOUS
<1> HIDE DEF head, succ, pred, t
<1>5. /\ \A i \in 1 .. n : i < p => t[i] = s[i]
      /\ t[p] = e
      /\ \A i \in 1 .. n : i >= p => t[i + 1] = s[i]
      /\ \A i \in 1 .. n + 1 : \/ i < p /\ i \in 1 .. n /\ t[i] = s[i]
                               \/ i = p /\ t[i] = e
                               \/ i > p /\ i - 1 \in 1 .. n /\ i - 1 >= p /\ t[i] = s[i - 1]
  BY <1>0, <1>1, InsertedAt
<1>6. t \in [1 .. n + 1 -> Elems]
  <2>1. t = [i \in 1 .. n + 1 |-> t[i]] BY <1>0 DEF Inserted
  <2> QED BY <1>1, <1>5, <2>1
<1>7. ASSUME NEW i \in 1 .. n + 1, NEW j \in 1 .. n + 1, t[i] = t[j] PROVE i = j
  <2>1. \A x, y \in 1 .. n : s[x] = s[y] => x = y BY DEF Path
  <2>2. \/ i < p /\ i \in 1 .. n /\ t[i] = s[i]
        \/ i = p /\ t[i] = e
        \/ i > p /\ i - 1 \in 1 .. n /\ i - 1 >= p /\ t[i] = s[i - 1]
    BY <1>5
  <2>3. \/ j < p /\ j \in 1 .. n /\ t[j] = s[j]
        \/ j = p /\ t[j] = e
        \/ j > p /\ j - 1 \in 1 .. n /\ j - 1 >= p /\ t[j] = s[j - 1]
    BY <1>5
  <2> QED BY <1>1, <1>7, <2>1, <2>2, <2>3
<1>8. first' = t[1]
  <2>1. CASE p = 1 BY <1>3, <1>4, <1>5, <2>1
  <2>2. CASE p > 1
    <3>1. p - 1 \in 1 .. n /\ 1 \in 1 .. n BY <1>1, <2>2
    <3>2. first' = first BY <1>1, <1>3, <1>4, <2>2, <3>1
    <3>3. first = s[1] /\ t[1] = s[1] BY <1>1, <1>5, <2>2, <3>1 DEF Path
    <3> QED BY <3>2, <3>3
  <2> QED BY <1>1, <2>1, <2>2
<1>9. ASSUME NEW i \in 1 .. n + 1
      PROVE  /\ next'[t[i]] = IF i = n + 1 THEN Null ELSE t[i + 1]
             /\ prev'[t[i]] = IF i = 1 THEN Null ELSE t[i - 1]
  <2>0. \A x, y \in 1 .. n : s[x] = s[y] => x = y BY DEF Path
  <2>a. p = 1 \/ p - 1 \in 1 .. n BY <1>1
  <2>1. CASE i = p
    <3>1. next'[t[i]] = succ /\ prev'[t[i]] = pred BY <1>4, <1>5, <2>1
    <3>2. p # n + 1 => p \in 1 .. n /\ p <= n BY <1>1
    <3>3. p # n + 1 => t[p + 1] = s[p] BY <1>5, <3>2
    <3>4. p # 1 => t[p - 1] = s[p - 1] BY <1>1, <1>5, <2>a
    <3> QED BY <1>1, <1>2, <1>3, <2>1, <3>1, <3>2, <3>3, <3>4
  <2>2. CASE i < p
    <3>1. i \in 1 .. n /\ t[i] = s[i] /\ s[i] \in Elems BY <1>1, <1>5, <2>2
    <3>2. p \in 1 .. n => s[i] # s[p] BY <2>0, <2>2, <3>1
    <3>3. s[i] # succ BY <1>1, <1>2, <3>1, <3>2
    <3>4. prev'[t[i]] = prev[s[i]] BY <1>1, <1>4, <3>1, <3>3
    <3>5. i # 1 => i - 1 \in 1 .. n /\ t[i - 1] = s[i - 1] BY <1>1, <1>5, <2>2, <3>1
    <3>6. prev'[t[i]] = IF i = 1 THEN Null ELSE t[i - 1] BY <3>1, <3>4, <3>5 DEF Back
    <3>7. CASE i = p - 1
      <4>1. s[i] = pred BY <1>1, <1>3, <3>1, <3>7
      <4>2. next'[t[i]] = e BY <1>1, <1>4, <3>1, <4>1
      <4>3. i + 1 = p /\ i # n + 1 BY <1>1, <3>1, <3>7
      <4> QED BY <1>5, <3>6, <4>2, <4>3
    <3>8. CASE i # p - 1
      <4>1. s[i] # pred BY <1>1, <1>3, <2>0, <2>a, <3>1, <3>8
      <4>2. next'[t[i]] = next[s[i]] BY <1>1, <1>4, <3>1, <4>1
      <4>3. i # n /\ i # n + 1 /\ i + 1 \in 1 .. n /\ i + 1 < p BY <1>1, <2>2, <3>1, <3>8
      <4>4. next[s[i]] = s[i + 1] /\ t[i + 1] = s[i + 1] BY <1>5, <3>1, <4>3 DEF Path
      <4> QED BY <3>6, <4>2, <4>3, <4>4
    <3> QED BY <3>7, <3>8
  <2>3. CASE i > p
    <3> DEFINE k == i - 1
    <3>1. k \in 1 .. n /\ k >= p /\ t[i] = s[k] /\ s[k] \in Elems /\ i = k + 1
      BY <1>1, <1>5, <2>3
    <3> HIDE DEF k
    <3>2. p # 1 => p - 1 # k BY <1>1, <3>1
    <3>3. s[k] # pred BY <1>1, <1>3, <2>0, <2>a, <3>1, <3>2
    <3>4. next'[t[i]] = next[s[k]] BY <1>1, <1>4, <3>1, <3>3
    <3>5. k # n => k + 1 \in 1 .. n /\ k + 1 >= p BY <1>1, <3>1
    <3>6. k # n => t[i + 1] = s[k + 1] BY <1>5, <3>1, <3>5
    <3>7. (k = n <=> i = n + 1) BY <1>1, <3>1
    <3>8. next'[t[i]] = IF i = n + 1 THEN Null ELSE t[i + 1]
      BY <3>1, <3>4, <3>6, <3>7 DEF Path
    <3>9. CASE k = p
      <4>1. s[k] = succ BY <1>1, <1>2, <3>1, <3>9
      <4>2. prev'[t[i]] = e BY <1>1, <1>4, <3>1, <4>1
      <4>3. i - 1 = p /\ i # 1 BY <1>1, <3>1, <3>9
      <4> QED BY <1>5, <3>8, <4>2, <4>3
    <3>10. CASE k # p
      <4>0. p \in 1 .. n BY <1>1, <3>1
      <4>1. s[k] # succ BY <1>1, <1>2, <2>0, <3>1, <3>10, <4>0
      <4>2. prev'[t[i]] = prev[s[k]] BY <1>1, <1>4, <3>1, <4>1
      <4>3. k - 1 \in 1 .. n /\ k - 1 >= p /\ k # 1 /\ (k - 1) + 1 = i - 1 /\ i # 1
        BY <1>1, <3>1, <3>10
      <4>4. prev[s[k]] = s[k - 1] /\ t[i - 1] = s[k - 1] BY <1>5, <3>1, <4>3 DEF Back
      <4> QED BY <3>8, <4>2, <4>3, <4>4
    <3> QED BY <3>9, <3>10
  <2> QED BY <1>1, <2>1, <2>2, <2>3
<1>10. Path(first, n + 1, t)'
  <2>1. n + 1 \in Nat /\ n + 1 # 0 BY <1>1
  <2> QED BY <1>6, <1>7, <1>8, <1>9, <2>1 DEF Path
<1>11. Back(n + 1, t)' BY <1>9 DEF Back
<1>12. In(n + 1, t) = In(n, s) \cup {e}
  <2>1. \A i \in 1 .. n + 1 : t[i] \in In(n, s) \cup {e} BY <1>5 DEF In
  <2>2. \A i \in 1 .. n : \E j \in 1 .. n + 1 : s[i] = t[j]
    <3> SUFFICES ASSUME NEW i \in 1 .. n PROVE \E j \in 1 .. n + 1 : s[i] = t[j] OBVIOUS
    <3>1. i \in 1 .. n + 1 /\ i + 1 \in 1 .. n + 1 BY <1>1
    <3>2. i < p \/ i >= p BY <1>1
    <3> QED BY <1>5, <3>1, <3>2
  <2>3. \E j \in 1 .. n + 1 : e = t[j] BY <1>5
  <2> QED BY <2>1, <2>2, <2>3 DEF In
<1>13. ASSUME NEW x \in Elems, x # e, x \notin In(n, s)
       PROVE  next'[x] = next[x] /\ prev'[x] = prev[x]
  <2>1. \A i \in 1 .. n : x # s[i] BY <1>13 DEF In
  <2>2. p = 1 \/ p - 1 \in 1 .. n BY <1>1
  <2>3. p <= n => p \in 1 .. n BY <1>1
  <2>4. x # succ /\ x # pred BY <1>1, <1>2, <1>3, <1>13, <2>1, <2>2, <2>3, Sizes
  <2> QED BY <1>4, <1>13, <2>4
<1> QED BY <1>10, <1>11, <1>12, <1>13 DEF t
\* A run moves by one place if the new element is in front of it.
LEMMA RunsAt ==
  ASSUME NEW n \in Nat, NEW s, Runs(n, s), TypeOK,
         NEW e \in Elems, NEW b, b = Bucket(pKey[e]), NEW p \in 1 .. n + 1,
         insertElement(e, b), UNCHANGED <<htsize, pKey>>,
         \A i \in 1 .. n : s[i] # e,
         IF htsize > 0 /\ ht[b].count > 0 THEN RunAt(b, n, s, p) ELSE p = 1
  PROVE  Runs(n + 1, Inserted(n, s, p, e))'
<1> DEFINE t == Inserted(n, s, p, e)
<1>0. t = Inserted(n, s, p, e) OBVIOUS
<1> HIDE DEF t
<1>1. /\ \A i \in 1 .. n : i < p => t[i] = s[i]
      /\ t[p] = e
      /\ \A i \in 1 .. n : i >= p => t[i + 1] = s[i]
      /\ \A i \in 1 .. n + 1 : \/ i < p /\ i \in 1 .. n /\ t[i] = s[i]
                               \/ i = p /\ t[i] = e
                               \/ i > p /\ i - 1 \in 1 .. n /\ i - 1 >= p /\ t[i] = s[i - 1]
  BY <1>0, InsertedAt
<1>2. \A k : Bucket(k)' = Bucket(k) BY DEF Bucket
<1>3. SUFFICES ASSUME NEW d \in DOMAIN ht' PROVE \E a : RunAt(d, n + 1, t, a)'
  BY <1>0 DEF Runs
<1>4. /\ htsize \in Nat /\ htsize > 0 /\ d \in DOMAIN ht /\ ht[d].count \in Nat
      /\ ht' = [ht EXCEPT ![b] = [count |-> @.count + 1, chain |-> e]]
  <2>1. ht' = IF htsize = 0 THEN ht ELSE [ht EXCEPT ![b] = [count |-> @.count + 1, chain |-> e]]
    BY DEF insertElement
  <2>2. DOMAIN ht' = DOMAIN ht BY <2>1
  <2>3. htsize \in Nat /\ htsize # 0 /\ ht[d].count \in Nat BY <2>2 DEF TypeOK
  <2> QED BY <2>1, <2>2, <2>3
<1>5. PICK a : RunAt(d, n, s, a) BY <1>4 DEF Runs
<1>6. a \in 1 .. n + 1 /\ a + ht[d].count <= n + 1 BY <1>5 DEF RunAt
<1>7. \A i \in 1 .. n : Bucket(pKey[s[i]]) = d <=> (a <= i /\ i < a + ht[d].count)
  BY <1>5 DEF RunAt
<1>8. CASE d = b
  <2>1. ht'[d] = [count |-> ht[d].count + 1, chain |-> e] BY <1>4, <1>8
  <2>2. ht'[d].count = ht[d].count + 1 /\ ht'[d].chain = e BY <2>1
  <2>3. \A i \in 1 .. n : Bucket(pKey[s[i]]) = d <=> (p <= i /\ i < p + ht[d].count)
    <3>1. CASE ht[d].count > 0 BY <1>4, <1>8, <3>1 DEF RunAt
    <3>2. CASE ht[d].count = 0
      <4>1. \A i \in 1 .. n : Bucket(pKey[s[i]]) # d BY <1>6, <1>7, <3>2
      <4> QED BY <3>2, <4>1
    <3> QED BY <1>4, <3>1, <3>2
  <2>4. p + ht[d].count <= n + 1
    <3>1. CASE ht[d].count > 0 BY <1>4, <1>8, <3>1 DEF RunAt
    <3>2. CASE ht[d].count = 0 BY <3>2
    <3> QED BY <1>4, <3>1, <3>2
  <2>5. \A i \in 1 .. n + 1 : Bucket(pKey[t[i]]) = d <=> (p <= i /\ i < p + (ht[d].count + 1))
    <3> SUFFICES ASSUME NEW i \in 1 .. n + 1
                 PROVE  Bucket(pKey[t[i]]) = d <=> (p <= i /\ i < p + (ht[d].count + 1))
      OBVIOUS
    <3>1. CASE i < p /\ i \in 1 .. n /\ t[i] = s[i] BY <1>4, <2>3, <3>1
    <3>2. CASE i = p /\ t[i] = e BY <1>4, <1>8, <3>2
    <3>3. CASE i > p /\ i - 1 \in 1 .. n /\ i - 1 >= p /\ t[i] = s[i - 1]
      <4>1. Bucket(pKey[s[i - 1]]) = d <=> (p <= i - 1 /\ i - 1 < p + ht[d].count)
        BY <2>3, <3>3
      <4> QED BY <1>4, <3>3, <4>1
    <3> QED BY <1>1, <3>1, <3>2, <3>3
  <2>6. p \in 1 .. (n + 1) + 1 /\ p + (ht[d].count + 1) <= (n + 1) + 1 /\ ht[d].count + 1 \in Nat
    BY <1>4, <2>4
  <2>7. RunAt(d, n + 1, t, p)' BY <1>1, <1>2, <2>2, <2>5, <2>6 DEF RunAt
  <2> QED BY <2>7
<1>9. CASE d # b
  <2>1. ht'[d] = ht[d] BY <1>4, <1>9
  <2>2. CASE ht[d].count = 0
    <3>1. \A i \in 1 .. n : Bucket(pKey[s[i]]) # d BY <1>6, <1>7, <2>2
    <3>2. \A i \in 1 .. n + 1 : Bucket(pKey[t[i]]) # d BY <1>1, <1>9, <3>1
    <3>3. RunAt(d, n + 1, t, 1)' BY <1>2, <2>1, <2>2, <3>2 DEF RunAt
    <3> QED BY <3>3
  <2>3. CASE ht[d].count > 0
    <3>1. p <= a \/ p >= a + ht[d].count
      <4>1. CASE ht[b].count > 0
        <5>1. p \in 1 .. n /\ Bucket(pKey[s[p]]) = b
          BY <1>4, <4>1 DEF RunAt
        <5>2. Bucket(pKey[s[p]]) # d BY <1>9, <5>1
        <5> QED BY <1>4, <1>6, <1>7, <5>1, <5>2
      <4>2. CASE ~(ht[b].count > 0) BY <1>6, <4>2
      <4> QED BY <4>1, <4>2
    <3>2. CASE p <= a
      <4>1. \A i \in 1 .. n + 1 : Bucket(pKey[t[i]]) = d <=> (a + 1 <= i /\ i < (a + 1) + ht[d].count)
        <5> SUFFICES ASSUME NEW i \in 1 .. n + 1
            PROVE  Bucket(pKey[t[i]]) = d <=> (a + 1 <= i /\ i < (a + 1) + ht[d].count)
          OBVIOUS
        <5>1. CASE i < p /\ i \in 1 .. n /\ t[i] = s[i] BY <1>4, <1>6, <1>7, <3>2, <5>1
        <5>2. CASE i = p /\ t[i] = e BY <1>4, <1>6, <1>9, <3>2, <5>2
        <5>3. CASE i > p /\ i - 1 \in 1 .. n /\ i - 1 >= p /\ t[i] = s[i - 1]
          <6>1. Bucket(pKey[s[i - 1]]) = d <=> (a <= i - 1 /\ i - 1 < a + ht[d].count)
            BY <1>7, <5>3
          <6> QED BY <1>4, <1>6, <5>3, <6>1
        <5> QED BY <1>1, <5>1, <5>2, <5>3
      <4>2. a + 1 \in 1 .. (n + 1) + 1 /\ (a + 1) + ht[d].count <= (n + 1) + 1 BY <1>4, <1>6
      <4>3. ht[d].chain = t[a + 1]
        <5>1. ht[d].chain = s[a] BY <1>5, <2>3 DEF RunAt
        <5>2. a \in 1 .. n BY <1>4, <1>6, <2>3
        <5> QED BY <1>1, <3>2, <5>1, <5>2
      <4>4. RunAt(d, n + 1, t, a + 1)' BY <1>2, <1>4, <2>1, <4>1, <4>2, <4>3 DEF RunAt
      <4> QED BY <4>4
    <3>3. CASE p >= a + ht[d].count
      <4>1. \A i \in 1 .. n + 1 : Bucket(pKey[t[i]]) = d <=> (a <= i /\ i < a + ht[d].count)
        <5> SUFFICES ASSUME NEW i \in 1 .. n + 1
            PROVE  Bucket(pKey[t[i]]) = d <=> (a <= i /\ i < a + ht[d].count)
          OBVIOUS
        <5>1. CASE i < p /\ i \in 1 .. n /\ t[i] = s[i] BY <1>7, <5>1
        <5>2. CASE i = p /\ t[i] = e BY <1>4, <1>6, <1>9, <3>3, <5>2
        <5>3. CASE i > p /\ i - 1 \in 1 .. n /\ i - 1 >= p /\ t[i] = s[i - 1]
          <6>1. Bucket(pKey[s[i - 1]]) = d <=> (a <= i - 1 /\ i - 1 < a + ht[d].count)
            BY <1>7, <5>3
          <6> QED BY <1>4, <1>6, <3>3, <5>3, <6>1
        <5> QED BY <1>1, <5>1, <5>2, <5>3
      <4>2. a \in 1 .. (n + 1) + 1 /\ a + ht[d].count <= (n + 1) + 1 BY <1>4, <1>6
      <4>3. ht[d].chain = t[a]
        <5>1. ht[d].chain = s[a] BY <1>5, <2>3 DEF RunAt
        <5>2. a \in 1 .. n /\ a < p BY <1>4, <1>6, <2>3, <3>3
        <5> QED BY <1>1, <5>1, <5>2
      <4>4. RunAt(d, n + 1, t, a)' BY <1>2, <1>4, <2>1, <4>1, <4>2, <4>3 DEF RunAt
      <4> QED BY <4>4
    <3> QED BY <3>1, <3>2, <3>3
  <2> QED BY <1>4, <2>2, <2>3
<1> QED BY <1>8, <1>9

LEMMA BucketRange ==
  ASSUME TypeOK, NEW e \in used, htsize > 0
  PROVE  Bucket(pKey[e]) \in DOMAIN ht
<1>1. pKey[e] \in Keys BY DEF TypeOK
<1>2. HashOf[pKey[e]] \in Nat BY <1>1, HashTableAssumption
<1>3. htsize \in Nat /\ DOMAIN ht = 0 .. htsize - 1 BY DEF TypeOK, Buckets
<1> QED BY <1>2, <1>3 DEF Bucket

\* insertElement puts the element into the list and into its bucket.
LEMMA InsertKeepsTable ==
  ASSUME TypeOK, NEW n, NEW s, Table(n, s), NEW e \in used, e \notin In(n, s),
         insertElement(e, Bucket(pKey[e])), UNCHANGED <<htsize, pKey>>
  PROVE  \E t : /\ Table(n + 1, t)' /\ In(n + 1, t) = In(n, s) \cup {e}
                /\ \A x \in Elems : x # e /\ x \notin In(n, s) =>
                     next'[x] = next[x] /\ prev'[x] = prev[x]
<1> DEFINE b == Bucket(pKey[e])
<1>0. b = Bucket(pKey[e]) OBVIOUS
<1> HIDE DEF b
<1>1. n \in Nat /\ Path(first, n, s) /\ Back(n, s) /\ Runs(n, s) BY DEF Table, Path
<1>2. \A i \in 1 .. n : s[i] # e BY DEF In
<1>3. \E p \in 1 .. n + 1 :
        /\ IF htsize > 0 /\ ht[b].count > 0 THEN p <= n /\ ht[b].chain = s[p] ELSE p = 1
        /\ IF htsize > 0 /\ ht[b].count > 0 THEN RunAt(b, n, s, p) ELSE p = 1
  <2>1. CASE htsize > 0 /\ ht[b].count > 0 /\ b \in DOMAIN ht
    <3>1. PICK a : RunAt(b, n, s, a) BY <1>1, <2>1 DEF Runs
    <3>2. a \in 1 .. n + 1 /\ a <= n /\ ht[b].chain = s[a] BY <1>1, <2>1, <3>1 DEF RunAt
    <3> QED BY <2>1, <3>1, <3>2
  <2>2. CASE ~(htsize > 0 /\ ht[b].count > 0)
    <3>1. 1 \in 1 .. n + 1 BY <1>1
    <3> QED BY <2>2, <3>1
  <2>3. htsize > 0 => b \in DOMAIN ht
    BY <1>0, BucketRange
  <2> QED BY <2>1, <2>2, <2>3
<1>4. PICK p \in 1 .. n + 1 :
        /\ IF htsize > 0 /\ ht[b].count > 0 THEN p <= n /\ ht[b].chain = s[p] ELSE p = 1
        /\ IF htsize > 0 /\ ht[b].count > 0 THEN RunAt(b, n, s, p) ELSE p = 1
  BY <1>3
<1>5. PICK t : t = Inserted(n, s, p, e) OBVIOUS
<1>6. /\ Path(first, n + 1, t)' /\ Back(n + 1, t)'
      /\ In(n + 1, t) = In(n, s) \cup {e}
      /\ \A x \in Elems : x # e /\ x \notin In(n, s) =>
           next'[x] = next[x] /\ prev'[x] = prev[x]
  <2>1. e \in Elems /\ next \in [Elems -> used \cup {Null}] /\ prev \in [Elems -> used \cup {Null}]
    BY DEF TypeOK
  <2> QED BY <1>0, <1>1, <1>4, <1>5, <2>1, LinkedAt
<1>7. Runs(n + 1, t)'
  <2>1. e \in Elems BY DEF TypeOK
  <2> QED BY <1>0, <1>1, <1>2, <1>4, <1>5, <2>1, RunsAt
<1> QED BY <1>6, <1>7 DEF Table
---------------------------------------------------------------------------
(* removeElementGivenHash                                                  *)

Removed(n, s, p) == [i \in 1 .. n - 1 |-> IF i < p THEN s[i] ELSE s[i + 1]]

LEMMA RemovedAt ==
  ASSUME NEW n \in Nat, NEW s, NEW p \in 1 .. n, NEW t, t = Removed(n, s, p)
  PROVE  /\ \A i \in 1 .. n - 1 : \/ i < p /\ i \in 1 .. n /\ t[i] = s[i]
                                  \/ i >= p /\ i + 1 \in 1 .. n /\ t[i] = s[i + 1]
         /\ \A i \in 1 .. n : i < p => i \in 1 .. n - 1 /\ t[i] = s[i]
         /\ \A i \in 1 .. n : i > p => i - 1 \in 1 .. n - 1 /\ t[i - 1] = s[i]
<1>1. \A i \in 1 .. n - 1 : t[i] = IF i < p THEN s[i] ELSE s[i + 1] BY DEF Removed
<1>2. \A i \in 1 .. n - 1 : i \in 1 .. n /\ i + 1 \in 1 .. n OBVIOUS
<1>3. \A i \in 1 .. n : i < p => i \in 1 .. n - 1 OBVIOUS
<1>4. \A i \in 1 .. n : i > p => i - 1 \in 1 .. n - 1 /\ ~(i - 1 < p) /\ (i - 1) + 1 = i OBVIOUS
<1>5. \A i \in 1 .. n : i > p => t[i - 1] = s[i] BY <1>1, <1>4
<1>6. \A i \in 1 .. n - 1 : \/ i < p /\ i \in 1 .. n /\ t[i] = s[i]
                            \/ i >= p /\ i + 1 \in 1 .. n /\ t[i] = s[i + 1]
  BY <1>1, <1>2
<1>7. \A i \in 1 .. n : i < p => i \in 1 .. n - 1 /\ t[i] = s[i] BY <1>1, <1>3
<1> QED BY <1>4, <1>5, <1>6, <1>7

LEMMA UnlinkedAt ==
  ASSUME NEW n, NEW s, Path(first, n, s), Back(n, s),
         next \in [Elems -> used \cup {Null}], prev \in [Elems -> used \cup {Null}],
         NEW k, NEW p \in 1 .. n, NEW t, t = Removed(n, s, p), Delete(k, s[p])
  PROVE  /\ Path(first, n - 1, t)' /\ Back(n - 1, t)'
         /\ In(n - 1, t) = In(n, s) \ {s[p]}
<1> DEFINE e == s[p]
<1>0. e = s[p] OBVIOUS
<1>1. n \in Nat /\ s \in [1 .. n -> Elems] /\ (\A i \in 1 .. n : s[i] # Null)
      /\ \A i, j \in 1 .. n : s[i] = s[j] => i = j
  BY Sizes DEF Path
<1>2. next[e] = IF p = n THEN Null ELSE s[p + 1] BY DEF Path
<1>3. prev[e] = IF p = 1 THEN Null ELSE s[p - 1] BY DEF Back
<1>4. /\ next' = [x \in Elems |-> CASE x = e -> Null [] x = prev[e] -> next[e] [] OTHER -> next[x]]
      /\ prev' = [x \in Elems |-> CASE x = e -> Null [] x = next[e] -> prev[e] [] OTHER -> prev[x]]
      /\ first' = IF prev[e] = Null THEN next[e] ELSE first
  BY DEF Delete
<1> HIDE DEF e
<1>a. p - 1 \in 1 .. n \/ p = 1 BY <1>1
<1>b. p + 1 \in 1 .. n \/ p = n BY <1>1
<1>c. prev[e] # e /\ next[e] # e
  <2>1. p # 1 => s[p - 1] # s[p] BY <1>1, <1>a
  <2>2. p # n => s[p + 1] # s[p] BY <1>1, <1>b
  <2> QED BY <1>0, <1>1, <1>2, <1>3, <2>1, <2>2
<1>5. \A i \in 1 .. n : i # p =>
        /\ next'[s[i]] = IF i = p - 1 THEN next[e] ELSE next[s[i]]
        /\ prev'[s[i]] = IF i = p + 1 THEN prev[e] ELSE prev[s[i]]
  <2> SUFFICES ASSUME NEW i \in 1 .. n, i # p
               PROVE  /\ next'[s[i]] = IF i = p - 1 THEN next[e] ELSE next[s[i]]
                      /\ prev'[s[i]] = IF i = p + 1 THEN prev[e] ELSE prev[s[i]]
    OBVIOUS
  <2>1. s[i] \in Elems /\ s[i] # e /\ s[i] # Null BY <1>0, <1>1
  <2>2. s[i] = prev[e] <=> i = p - 1 BY <1>1, <1>3, <1>a, <2>1
  <2>3. s[i] = next[e] <=> i = p + 1 BY <1>1, <1>2, <1>b, <2>1
  <2> QED BY <1>4, <2>1, <2>2, <2>3
<1>6. /\ \A i \in 1 .. n - 1 : \/ i < p /\ i \in 1 .. n /\ t[i] = s[i]
                               \/ i >= p /\ i + 1 \in 1 .. n /\ t[i] = s[i + 1]
      /\ \A i \in 1 .. n : i < p => i \in 1 .. n - 1 /\ t[i] = s[i]
      /\ \A i \in 1 .. n : i > p => i - 1 \in 1 .. n - 1 /\ t[i - 1] = s[i]
  BY <1>1, RemovedAt
<1>7. t \in [1 .. n - 1 -> Elems]
  <2>1. t = [i \in 1 .. n - 1 |-> t[i]] BY DEF Removed
  <2> QED BY <1>1, <1>6, <2>1
<1>8. ASSUME NEW i \in 1 .. n - 1, NEW j \in 1 .. n - 1, t[i] = t[j] PROVE i = j
  <2>1. \/ i < p /\ i \in 1 .. n /\ t[i] = s[i]
        \/ i >= p /\ i + 1 \in 1 .. n /\ t[i] = s[i + 1]
    BY <1>6
  <2>2. \/ j < p /\ j \in 1 .. n /\ t[j] = s[j]
        \/ j >= p /\ j + 1 \in 1 .. n /\ t[j] = s[j + 1]
    BY <1>6
  <2> QED BY <1>1, <1>8, <2>1, <2>2
<1>9. first' = IF n - 1 = 0 THEN Null ELSE t[1]
  <2>1. CASE p = 1
    <3>1. first' = next[e] BY <1>3, <1>4, <2>1
    <3>2. CASE n = 1 BY <1>2, <2>1, <3>1, <3>2
    <3>3. CASE n # 1
      <4>1. 2 \in 1 .. n /\ 2 > p /\ 2 - 1 = 1 /\ 1 + 1 = 2 BY <1>1, <2>1, <3>3
      <4>2. t[1] = s[2] BY <1>6, <4>1
      <4> QED BY <1>1, <1>2, <2>1, <3>1, <3>3, <4>1, <4>2
    <3> QED BY <3>2, <3>3
  <2>2. CASE p # 1
    <3>1. 1 \in 1 .. n /\ 1 < p /\ n - 1 # 0 /\ n # 0 BY <1>1, <2>2
    <3>2. first' = first BY <1>1, <1>3, <1>4, <1>a, <2>2
    <3>3. first = s[1] /\ t[1] = s[1] BY <1>6, <3>1 DEF Path
    <3> QED BY <3>1, <3>2, <3>3
  <2> QED BY <2>1, <2>2
<1>10. ASSUME NEW i \in 1 .. n - 1
       PROVE  /\ next'[t[i]] = IF i = n - 1 THEN Null ELSE t[i + 1]
              /\ prev'[t[i]] = IF i = 1 THEN Null ELSE t[i - 1]
  <2>1. CASE i < p /\ i \in 1 .. n /\ t[i] = s[i]
    <3>1. i # p /\ i # p + 1 /\ i # n BY <1>1, <2>1
    <3>2. next'[t[i]] = IF i = p - 1 THEN next[e] ELSE next[s[i]] BY <1>5, <2>1, <3>1
    <3>3. prev'[t[i]] = prev[s[i]] BY <1>5, <2>1, <3>1
    <3>4. prev[s[i]] = IF i = 1 THEN Null ELSE s[i - 1] BY <2>1 DEF Back
    <3>5. i # 1 => i - 1 \in 1 .. n /\ i - 1 < p BY <1>1, <2>1
    <3>6. i # 1 => t[i - 1] = s[i - 1] BY <1>6, <3>5
    <3>7. next[s[i]] = s[i + 1] BY <2>1, <3>1 DEF Path
    <3>8. CASE i = p - 1
      <4>1. (i = n - 1 <=> p = n) /\ i + 1 = p /\ (p # n => p + 1 \in 1 .. n /\ p + 1 > p)
            /\ (p + 1) - 1 = i + 1
        BY <1>1, <2>1, <3>8
      <4>2. p # n => t[i + 1] = s[p + 1] BY <1>6, <4>1
      <4> QED BY <1>2, <3>2, <3>3, <3>4, <3>6, <3>8, <4>1, <4>2
    <3>9. CASE i # p - 1
      <4>1. i + 1 < p /\ i + 1 \in 1 .. n /\ i # n - 1 BY <1>1, <2>1, <3>9
      <4>2. t[i + 1] = s[i + 1] BY <1>6, <4>1
      <4> QED BY <3>2, <3>3, <3>4, <3>6, <3>7, <3>9, <4>1, <4>2
    <3> QED BY <3>8, <3>9
  <2>2. CASE i >= p /\ i + 1 \in 1 .. n /\ t[i] = s[i + 1]
    <3> DEFINE j == i + 1
    <3>0. j \in 1 .. n /\ j > p /\ t[i] = s[j] /\ j # p /\ j # p - 1 /\ i = j - 1 /\ i + 1 = (j + 1) - 1
      BY <1>1, <2>2
    <3> HIDE DEF j
    <3>1. next'[t[i]] = next[s[j]] BY <1>5, <3>0
    <3>2. prev'[t[i]] = IF j = p + 1 THEN prev[e] ELSE prev[s[j]] BY <1>5, <3>0
    <3>3. next[s[j]] = IF j = n THEN Null ELSE s[j + 1] BY <3>0 DEF Path
    <3>4. j # n => j + 1 \in 1 .. n /\ j + 1 > p BY <1>1, <3>0
    <3>5. j # n => t[i + 1] = s[j + 1] BY <1>6, <3>0, <3>4
    <3>6. i = n - 1 <=> j = n BY <1>1, <3>0
    <3>7. next'[t[i]] = IF i = n - 1 THEN Null ELSE t[i + 1] BY <3>1, <3>3, <3>5, <3>6
    <3>8. CASE j = p + 1
      <4>1. i = p /\ (p # 1 => p - 1 \in 1 .. n /\ p - 1 < p) BY <1>1, <3>0, <3>8
      <4>2. p # 1 => t[i - 1] = s[p - 1] BY <1>6, <4>1
      <4> QED BY <1>3, <3>2, <3>7, <3>8, <4>1, <4>2
    <3>9. CASE j # p + 1
      <4>1. i \in 1 .. n /\ i > p /\ i # 1 /\ j # 1 BY <1>1, <3>0, <3>9
      <4>2. t[i - 1] = s[i] BY <1>6, <4>1
      <4>3. prev[s[j]] = s[j - 1] BY <3>0, <4>1 DEF Back
      <4> QED BY <3>0, <3>2, <3>7, <3>9, <4>1, <4>2, <4>3
    <3> QED BY <3>8, <3>9
  <2> QED BY <1>6, <2>1, <2>2
<1>11. n - 1 \in Nat BY <1>1
<1>12. Path(first, n - 1, t)' BY <1>7, <1>8, <1>9, <1>10, <1>11 DEF Path
<1>13. Back(n - 1, t)' BY <1>10 DEF Back
<1>14. In(n - 1, t) = In(n, s) \ {s[p]}
  <2>1. ASSUME NEW i \in 1 .. n - 1 PROVE t[i] \in In(n, s) \ {s[p]}
    <3>1. CASE i < p /\ i \in 1 .. n /\ t[i] = s[i] BY <1>1, <3>1 DEF In
    <3>2. CASE i >= p /\ i + 1 \in 1 .. n /\ t[i] = s[i + 1]
      <4>1. i + 1 # p BY <1>1, <3>2
      <4> QED BY <1>1, <3>2, <4>1 DEF In
    <3> QED BY <1>6, <3>1, <3>2
  <2>2. ASSUME NEW i \in 1 .. n, s[i] # s[p] PROVE \E j \in 1 .. n - 1 : s[i] = t[j]
    <3>1. i < p \/ i > p BY <1>1, <2>2
    <3> QED BY <1>6, <3>1
  <2> QED BY <2>1, <2>2 DEF In
<1> QED BY <1>12, <1>13, <1>14

\* Deleting from a bucket leaves it, and the others, whole.
LEMMA RunsRemoved ==
  ASSUME TypeOK, NEW n, NEW s, Path(first, n, s), Runs(n, s),
         NEW k \in Keys, NEW p \in 1 .. n, NEW t, t = Removed(n, s, p), Delete(k, s[p]),
         s[p] \in used, NameOf[pKey[s[p]]] = NameOf[k]
  PROVE  Runs(n - 1, t)'
<1> SUFFICES ASSUME NEW d \in DOMAIN ht' PROVE \E a : RunAt(d, n - 1, t, a)'
  BY DEF Runs
<1> DEFINE e == s[p]
           b == Bucket(k)
           chain == IF ht[b].chain = e THEN next[e] ELSE ht[b].chain
<1>1. n \in Nat /\ s \in [1 .. n -> Elems] /\ (\A i, j \in 1 .. n : s[i] = s[j] => i = j)
  BY DEF Path
<1>2. count # 1
  <2>1. count = 1 => ht' = << >> BY DEF Delete
  <2>2. DOMAIN << >> = {} OBVIOUS
  <2> QED BY <2>1, <2>2
<1>3. /\ htsize' = htsize
      /\ ht' = IF htsize = 0 THEN ht
               ELSE [ht EXCEPT ![b] = [count |-> @.count - 1, chain |-> chain]]
      /\ pKey' = [x \in Elems |-> IF x \in {e} THEN Null ELSE pKey[x]]
  BY <1>2 DEF Delete, FreedKeys
<1>4. d \in DOMAIN ht /\ htsize \in Nat /\ htsize # 0
  <2>1. DOMAIN ht' = DOMAIN ht BY <1>3
  <2> QED BY <2>1 DEF TypeOK
<1>5. b = Bucket(pKey[e]) /\ b \in DOMAIN ht
  <2>1. pKey[e] \in Keys BY DEF TypeOK
  <2>2. HashOf[pKey[e]] = HashOf[k] BY <2>1, HashTableAssumption
  <2>3. b = Bucket(pKey[e]) BY <2>2 DEF Bucket
  <2> QED BY <1>4, <2>3, BucketRange
<1>6. next[e] = IF p = n THEN Null ELSE s[p + 1] BY DEF Path
<1>0. e = s[p] OBVIOUS
<1>7. /\ \A i \in 1 .. n - 1 : \/ i < p /\ i \in 1 .. n /\ t[i] = s[i]
                               \/ i >= p /\ i + 1 \in 1 .. n /\ t[i] = s[i + 1]
      /\ \A i \in 1 .. n : i < p => i \in 1 .. n - 1 /\ t[i] = s[i]
      /\ \A i \in 1 .. n : i > p => i - 1 \in 1 .. n - 1 /\ t[i - 1] = s[i]
  BY <1>1, RemovedAt
<1>8. \A i \in 1 .. n : i # p => Bucket(pKey[s[i]])' = Bucket(pKey[s[i]])
  BY <1>0, <1>1, <1>3 DEF Bucket
<1>9. PICK a : RunAt(d, n, s, a) BY <1>4 DEF Runs
<1>10. a \in 1 .. n + 1 /\ ht[d].count \in Nat /\ a + ht[d].count <= n + 1
  BY <1>9 DEF RunAt
<1>11. \A i \in 1 .. n : Bucket(pKey[s[i]]) = d <=> (a <= i /\ i < a + ht[d].count)
  BY <1>9 DEF RunAt
<1>12. d = b <=> (a <= p /\ p < a + ht[d].count) BY <1>0, <1>5, <1>11
<1>13. ht[d].count > 0 => ht[d].chain = s[a] BY <1>9 DEF RunAt
<1>14. d = b => ht'[d].count = ht[d].count - 1 /\ ht'[d].chain = chain
  BY <1>3, <1>4, <1>5
<1>15. d # b => ht'[d] = ht[d] BY <1>3, <1>4, <1>5
<1>16. chain = IF ht[b].chain = e THEN next[e] ELSE ht[b].chain OBVIOUS
<1> HIDE DEF e, b, chain
<1>17. CASE d = b
  <2>1. a \in Nat /\ a <= p /\ p < a + ht[d].count /\ p <= n /\ p \in Nat
    BY <1>1, <1>10, <1>12, <1>17
  <2>2. \A i \in 1 .. n - 1 : Bucket(pKey[t[i]])' = d <=> (a <= i /\ i < a + (ht[d].count - 1))
    <3> SUFFICES ASSUME NEW i \in 1 .. n - 1
                 PROVE  Bucket(pKey[t[i]])' = d <=> (a <= i /\ i < a + (ht[d].count - 1))
      OBVIOUS
    <3>1. CASE i < p /\ i \in 1 .. n /\ t[i] = s[i]
      <4>1. Bucket(pKey[t[i]])' = d <=> (a <= i /\ i < a + ht[d].count)
        BY <1>8, <1>11, <3>1
      <4> QED BY <1>10, <2>1, <3>1, <4>1
    <3>2. CASE i >= p /\ i + 1 \in 1 .. n /\ t[i] = s[i + 1]
      <4>1. i + 1 # p BY <2>1, <3>2
      <4>2. Bucket(pKey[t[i]])' = d <=> (a <= i + 1 /\ i + 1 < a + ht[d].count)
        BY <1>8, <1>11, <3>2, <4>1
      <4> QED BY <1>10, <2>1, <3>2, <4>2
    <3> QED BY <1>7, <3>1, <3>2
  <2>3. a \in 1 .. (n - 1) + 1 /\ a + (ht[d].count - 1) <= (n - 1) + 1 /\ ht[d].count - 1 \in Nat
    BY <1>1, <1>10, <2>1
  <2>4. ht[d].count - 1 > 0 => chain = t[a]
    <3> SUFFICES ASSUME ht[d].count - 1 > 0 PROVE chain = t[a] OBVIOUS
    <3>1. ht[d].chain = s[a] /\ a \in 1 .. n BY <1>1, <1>10, <1>13, <2>1
    <3>2. CASE a = p
      <4>1. p # n /\ p + 1 \in 1 .. n /\ p + 1 > p /\ (p + 1) - 1 = p BY <1>1, <1>10, <2>1, <3>2
      <4>2. t[p] = s[p + 1] BY <1>7, <4>1
      <4> QED BY <1>0, <1>6, <1>16, <1>17, <3>1, <3>2, <4>1, <4>2
    <3>3. CASE a # p
      <4>1. a < p /\ s[a] # e BY <1>0, <1>1, <2>1, <3>1, <3>3
      <4> QED BY <1>7, <1>16, <1>17, <3>1, <4>1
    <3> QED BY <3>2, <3>3
  <2>5. RunAt(d, n - 1, t, a)' BY <1>14, <1>17, <2>2, <2>3, <2>4 DEF RunAt
  <2> QED BY <2>5
<1>18. CASE d # b /\ ht[d].count = 0
  <2>1. \A i \in 1 .. n : Bucket(pKey[s[i]]) # d BY <1>10, <1>11, <1>18
  <2>2. \A i \in 1 .. n - 1 : Bucket(pKey[t[i]])' # d
    <3> SUFFICES ASSUME NEW i \in 1 .. n - 1 PROVE Bucket(pKey[t[i]])' # d OBVIOUS
    <3>1. CASE i < p /\ i \in 1 .. n /\ t[i] = s[i] BY <1>8, <2>1, <3>1
    <3>2. CASE i >= p /\ i + 1 \in 1 .. n /\ t[i] = s[i + 1]
      <4>1. i + 1 # p BY <3>2
      <4> QED BY <1>8, <2>1, <3>2, <4>1
    <3> QED BY <1>7, <3>1, <3>2
  <2>3. 1 \in 1 .. (n - 1) + 1 /\ 1 + 0 <= (n - 1) + 1 BY <1>1
  <2>4. RunAt(d, n - 1, t, 1)' BY <1>15, <1>18, <2>2, <2>3 DEF RunAt
  <2> QED BY <2>4
<1>19. CASE d # b /\ ht[d].count > 0 /\ p < a
  <2>1. a \in 1 .. n /\ a > p BY <1>1, <1>10, <1>19
  <2>2. \A i \in 1 .. n - 1 : Bucket(pKey[t[i]])' = d <=> (a - 1 <= i /\ i < (a - 1) + ht[d].count)
    <3> SUFFICES ASSUME NEW i \in 1 .. n - 1
                 PROVE  Bucket(pKey[t[i]])' = d <=> (a - 1 <= i /\ i < (a - 1) + ht[d].count)
      OBVIOUS
    <3>1. CASE i < p /\ i \in 1 .. n /\ t[i] = s[i]
      <4>1. Bucket(pKey[t[i]])' = d <=> (a <= i /\ i < a + ht[d].count)
        BY <1>8, <1>11, <3>1
      <4> QED BY <1>10, <2>1, <3>1, <4>1
    <3>2. CASE i >= p /\ i + 1 \in 1 .. n /\ t[i] = s[i + 1]
      <4>1. i + 1 # p BY <3>2
      <4>2. Bucket(pKey[t[i]])' = d <=> (a <= i + 1 /\ i + 1 < a + ht[d].count)
        BY <1>8, <1>11, <3>2, <4>1
      <4> QED BY <1>10, <2>1, <3>2, <4>2
    <3> QED BY <1>7, <3>1, <3>2
  <2>3. a - 1 \in 1 .. (n - 1) + 1 /\ (a - 1) + ht[d].count <= (n - 1) + 1
    BY <1>1, <1>10, <2>1
  <2>4. ht[d].chain = t[a - 1] BY <1>7, <1>13, <1>19, <2>1
  <2>5. RunAt(d, n - 1, t, a - 1)' BY <1>10, <1>15, <1>19, <2>2, <2>3, <2>4 DEF RunAt
  <2> QED BY <2>5
<1>20. CASE d # b /\ ht[d].count > 0 /\ p >= a + ht[d].count
  <2>1. a \in 1 .. n /\ a < p BY <1>1, <1>10, <1>20
  <2>2. \A i \in 1 .. n - 1 : Bucket(pKey[t[i]])' = d <=> (a <= i /\ i < a + ht[d].count)
    <3> SUFFICES ASSUME NEW i \in 1 .. n - 1
                 PROVE  Bucket(pKey[t[i]])' = d <=> (a <= i /\ i < a + ht[d].count)
      OBVIOUS
    <3>1. CASE i < p /\ i \in 1 .. n /\ t[i] = s[i] BY <1>8, <1>11, <3>1
    <3>2. CASE i >= p /\ i + 1 \in 1 .. n /\ t[i] = s[i + 1]
      <4>1. i + 1 # p BY <3>2
      <4>2. Bucket(pKey[t[i]])' = d <=> (a <= i + 1 /\ i + 1 < a + ht[d].count)
        BY <1>8, <1>11, <3>2, <4>1
      <4> QED BY <1>10, <1>20, <2>1, <3>2, <4>2
    <3> QED BY <1>7, <3>1, <3>2
  <2>3. a \in 1 .. (n - 1) + 1 /\ a + ht[d].count <= (n - 1) + 1 BY <1>1, <1>10, <1>20, <2>1
  <2>4. ht[d].chain = t[a] BY <1>7, <1>13, <1>20, <2>1
  <2>5. RunAt(d, n - 1, t, a)' BY <1>10, <1>15, <1>20, <2>2, <2>3, <2>4 DEF RunAt
  <2> QED BY <2>5
<1> QED BY <1>1, <1>10, <1>12, <1>17, <1>18, <1>19, <1>20

\* removeElementGivenHash takes the element out of the list and its bucket.
LEMMA DeleteKeepsTable ==
  ASSUME TypeOK, NEW n, NEW s, Table(n, s), NEW k \in Keys, NEW e \in In(n, s),
         e \in used, NameOf[pKey[e]] = NameOf[k], Delete(k, e)
  PROVE  \E t : Table(n - 1, t)' /\ In(n - 1, t) = In(n, s) \ {e}
<1>1. PICK p \in 1 .. n : e = s[p] BY DEF In
<1>2. PICK t : t = Removed(n, s, p) OBVIOUS
<1>3. Path(first, n, s) /\ Back(n, s) /\ Runs(n, s) BY DEF Table
<1>4. next \in [Elems -> used \cup {Null}] /\ prev \in [Elems -> used \cup {Null}]
  BY DEF TypeOK
<1>5. Delete(k, s[p]) /\ s[p] \in used /\ NameOf[pKey[s[p]]] = NameOf[k] BY <1>1
<1>6. /\ Path(first, n - 1, t)' /\ Back(n - 1, t)' /\ In(n - 1, t) = In(n, s) \ {e}
  BY <1>1, <1>2, <1>3, <1>4, <1>5, UnlinkedAt
<1>7. Runs(n - 1, t)' BY <1>2, <1>3, <1>5, RunsRemoved
<1> QED BY <1>6, <1>7 DEF Table
---------------------------------------------------------------------------
(* The inductive invariant                                                 *)

\* What belongs to whom: elements not allocated are on no list, the locals of
\* an insert are set when it uses them, and no two elements share a name.
Own ==
  /\ count = Cardinality(used)
  /\ DOMAIN pKey = Elems /\ DOMAIN data = Elems
  /\ \A x \in Elems \ used : next[x] = Null /\ prev[x] = Null
  /\ pc # "rehash" => elem = Null
  /\ pc = "idle" <=> new_elem = Null
  /\ pc \in {"resize", "insert"} => h = Bucket(pKey[new_elem])
  /\ \A x, y \in used : NameOf[pKey[x]] = NameOf[pKey[y]] => x = y

\* The table is the list s, and the list r is still to be moved to it.
Shape(n, s, m, r) ==
  /\ Table(n, s) /\ Path(elem, m, r)
  /\ In(n, s) \cap In(m, r) = {}
  /\ used = In(n, s) \cup In(m, r) \cup ({new_elem} \ {Null})
  /\ new_elem \notin In(n, s) \cup In(m, r)

Shaped == \E n, s, m, r : Shape(n, s, m, r)

IInv == TypeOK /\ Own /\ Shaped

\* An empty list is NULL, and NULL is an empty list.
LEMMA NullPath ==
  ASSUME NEW m, NEW r, Path(Null, m, r)
  PROVE  m = 0 /\ In(m, r) = {}
<1>1. m = 0
  <2> SUFFICES ASSUME m # 0 PROVE FALSE OBVIOUS
  <2>1. m \in Nat /\ 1 \in 1 .. m /\ r \in [1 .. m -> Elems] /\ r[1] = Null BY DEF Path
  <2> QED BY <2>1, Sizes
<1> QED BY <1>1 DEF In

LEMMA EmptyPath == Path(Null, 0, << >>) /\ In(0, << >>) = {}
<1>1. << >> \in [1 .. 0 -> Elems] OBVIOUS
<1> QED BY <1>1 DEF Path, In

\* Between two calls every element is on the list.
LEMMA IdleTable ==
  ASSUME TypeOK, Own, Shaped, pc = "idle"
  PROVE  \E n, s : Table(n, s) /\ used = In(n, s) /\ count = n /\ n \in Nat
<1>1. PICK n, s, m, r : Shape(n, s, m, r) BY DEF Shaped
<1>2. new_elem = Null /\ elem = Null /\ count = Cardinality(used) BY DEF Own
<1>3. Path(first, n, s) /\ Path(Null, m, r) BY <1>1, <1>2 DEF Shape, Table
<1>4. used = In(n, s) BY <1>1, <1>2, <1>3, NullPath DEF Shape
<1>5. Cardinality(In(n, s)) = n /\ n \in Nat BY SMTT(30), <1>3, PathSize DEF Path
<1> QED BY <1>1, <1>2, <1>4, <1>5 DEF Shape

\* Between two calls Find finds the element with the name, if there is one.
LEMMA FindIs ==
  ASSUME TypeOK, Own, Shaped, pc = "idle", NEW k \in Keys
  PROVE  \/ Find(k) = Null /\ \A x \in used : NameOf[pKey[x]] # NameOf[k]
         \/ Find(k) \in used /\ NameOf[pKey[Find(k)]] = NameOf[k]
<1>1. PICK n, s : Table(n, s) /\ used = In(n, s) /\ count = n /\ n \in Nat BY IdleTable
<1>2. Path(first, n, s) /\ Runs(n, s) BY <1>1 DEF Table
<1>3. \A x \in used : \E i \in 1 .. n : x = s[i] BY <1>1 DEF In
<1>4. \A i \in 1 .. n : s[i] \in used BY <1>1 DEF In
<1>5. CASE htsize = 0
  <2>1. Find(k) = Search(k, first, n) BY <1>1, <1>5 DEF Find
  <2>2. n \in 0 .. n BY <1>1
  <2>3. \/ /\ Search(k, first, n) = Null
           /\ \A i \in 1 .. n : NameOf[pKey[s[i]]] # NameOf[k]
        \/ \E i \in 1 .. n : Search(k, first, n) = s[i] /\ NameOf[pKey[s[i]]] = NameOf[k]
    BY <1>2, <2>2, SearchPath
  <2> QED BY <1>3, <1>4, <2>1, <2>3
<1>6. CASE htsize # 0
  <2> DEFINE b == Bucket(k)
             c == ht[b].count
  <2>1. b \in DOMAIN ht /\ c \in Nat
    <3>1. HashOf[k] \in Nat /\ htsize \in Nat BY HashTableAssumption DEF TypeOK
    <3>2. b \in 0 .. htsize - 1 BY <1>6, <3>1 DEF Bucket
    <3> QED BY <1>6, <3>2 DEF TypeOK, Buckets
  <2>2. PICK a : RunAt(b, n, s, a) BY <1>2, <2>1 DEF Runs
  <2>3. Find(k) = Search(k, ht[b].chain, c) BY <1>6 DEF Find
  <2>4. a \in 1 .. n + 1 /\ a + c <= n + 1 BY <2>2 DEF RunAt
  <2>5. \A i \in 1 .. n : NameOf[pKey[s[i]]] = NameOf[k] => a <= i /\ i < a + c
    <3> SUFFICES ASSUME NEW i \in 1 .. n, NameOf[pKey[s[i]]] = NameOf[k]
                 PROVE  a <= i /\ i < a + c
      OBVIOUS
    <3>1. pKey[s[i]] \in Keys BY <1>4 DEF TypeOK
    <3>2. Bucket(pKey[s[i]]) = b BY <3>1, HashTableAssumption DEF Bucket
    <3> QED BY <2>2, <3>2 DEF RunAt
  <2>6. CASE c = 0
    <3>1. \A i \in 1 .. n : NameOf[pKey[s[i]]] # NameOf[k] BY <2>4, <2>5, <2>6
    <3>2. Search(k, ht[b].chain, c) = Null BY <2>6 DEF Search
    <3> QED BY <1>3, <2>3, <3>1, <3>2
  <2>7. CASE c > 0
    <3> DEFINE e == s[a]
               l == (n - a) + 1
               t == Rest(n, s, a)
    <3>1. a \in 1 .. n /\ c \in 0 .. l BY <1>1, <2>1, <2>4, <2>7
    <3>2. ht[b].chain = e BY <2>2, <2>7 DEF RunAt
    <3>3. Path(e, l, t) BY <1>2, <3>1, RestPath
    <3>4. \A i \in 1 .. c : t[i] = s[(a + i) - 1] /\ (a + i) - 1 \in 1 .. n
      BY <1>1, <2>4, <3>1 DEF Rest
    <3> HIDE DEF e, l, t
    <3>5. \/ /\ Search(k, e, c) = Null
             /\ \A i \in 1 .. c : NameOf[pKey[t[i]]] # NameOf[k]
          \/ \E i \in 1 .. c : Search(k, e, c) = t[i] /\ NameOf[pKey[t[i]]] = NameOf[k]
      BY <3>1, <3>3, SearchPath
    <3>6. CASE \E i \in 1 .. c : Search(k, e, c) = t[i] /\ NameOf[pKey[t[i]]] = NameOf[k]
      BY <1>4, <2>3, <3>2, <3>4, <3>6
    <3>7. CASE /\ Search(k, e, c) = Null
               /\ \A i \in 1 .. c : NameOf[pKey[t[i]]] # NameOf[k]
      <4>1. \A i \in 1 .. n : NameOf[pKey[s[i]]] # NameOf[k]
        <5> SUFFICES ASSUME NEW i \in 1 .. n, NameOf[pKey[s[i]]] = NameOf[k] PROVE FALSE
          OBVIOUS
        <5>1. a <= i /\ i < a + c BY <2>5
        <5>2. (i - a) + 1 \in 1 .. c /\ (a + ((i - a) + 1)) - 1 = i BY <2>1, <3>1, <5>1
        <5>3. t[(i - a) + 1] = s[i] BY <3>4, <5>2
        <5> QED BY <3>7, <5>2, <5>3
      <4> QED BY <1>3, <2>3, <3>2, <3>7, <4>1
    <3> QED BY <3>5, <3>6, <3>7
  <2> QED BY <2>1, <2>6, <2>7
<1> QED BY <1>5, <1>6
---------------------------------------------------------------------------
(* One lemma per action                                                    *)

\* A table stays when its list stays and no element changes its bucket.
LEMMA SameTable ==
  ASSUME NEW n, NEW s, Table(n, s), UNCHANGED <<list, htsize>>,
         \A x \in In(n, s) : HashOf[pKey[x]]' = HashOf[pKey[x]]
  PROVE  Table(n, s)'
<1>1. first' = first /\ ht' = ht /\ next' = next /\ prev' = prev /\ htsize' = htsize
  BY DEF list
<1>2. \A i \in 1 .. n : Bucket(pKey[s[i]])' = Bucket(pKey[s[i]]) BY <1>1 DEF In, Bucket
<1>3. Path(first, n, s)' /\ Back(n, s)' BY <1>1 DEF Table, Path, Back
<1>4. ASSUME NEW b \in DOMAIN ht PROVE \E a : RunAt(b, n, s, a)'
  <2>1. PICK a : RunAt(b, n, s, a) BY DEF Table, Runs
  <2>2. RunAt(b, n, s, a)' BY <1>1, <1>2, <2>1 DEF RunAt
  <2> QED BY <2>2
<1>5. Runs(n, s)' BY <1>1, <1>4 DEF Runs
<1> QED BY <1>3, <1>5 DEF Table

LEMMA InitOK == Init => IInv
<1> SUFFICES ASSUME Init PROVE IInv OBVIOUS
<1> USE DEF Init
<1>0. DOMAIN << >> = {} OBVIOUS
<1>1. TypeOK BY <1>0 DEF TypeOK
<1>2. Cardinality({}) = 0 BY FS_EmptySet
<1>3. Own BY <1>2 DEF Own
<1>4. Path(first, 0, << >>) /\ Path(elem, 0, << >>) /\ In(0, << >>) = {} BY EmptyPath
<1>5. Back(0, << >>) BY DEF Back
<1>6. Runs(0, << >>) BY <1>0 DEF Runs
<1>7. Shape(0, << >>, 0, << >>) BY <1>4, <1>5, <1>6 DEF Shape, Table
<1> QED BY <1>1, <1>3, <1>7 DEF IInv, Shaped

LEMMA ReplaceOK ==
  ASSUME IInv, NEW k \in Keys, NEW d \in Data, Replace(k, Find(k), d)
  PROVE  IInv'
<1> DEFINE e == Find(k)
<1> USE DEF IInv
<1>0. pc = "idle" BY DEF Replace
<1>1. e \in used /\ NameOf[pKey[e]] = NameOf[k] BY <1>0, FindIs DEF Replace
<1> HIDE DEF e
<1>2. /\ data' = [data EXCEPT ![e] = d] /\ pKey' = [pKey EXCEPT ![e] = k]
      /\ asked' = k /\ ret' = data[e]
      /\ UNCHANGED <<list, count, htsize, used, pc, new_elem, h, elem>>
  BY DEF Replace, e
<1>3. used \subseteq Elems /\ DOMAIN pKey = Elems /\ DOMAIN data = Elems BY DEF TypeOK, Own
<1>4. \A x \in Elems : /\ pKey'[x] = IF x = e THEN k ELSE pKey[x]
                       /\ data'[x] = IF x = e THEN d ELSE data[x]
  BY <1>2, <1>3
<1>5. \A x \in used : NameOf[pKey'[x]] = NameOf[pKey[x]] BY <1>1, <1>3, <1>4
<1>6. TypeOK' BY <1>1, <1>2, <1>3, <1>4 DEF TypeOK, list, Buckets
<1>7. Own'
  <2>1. DOMAIN pKey' = Elems /\ DOMAIN data' = Elems BY <1>2, <1>3
  <2> QED BY <1>0, <1>2, <1>3, <1>5, <2>1 DEF Own, list
<1>8. Shaped'
  <2>1. PICK n, s, m, r : Shape(n, s, m, r) BY DEF Shaped
  <2>2. \A x \in used : HashOf[pKey'[x]] = HashOf[pKey[x]]
    <3>1. \A x \in used : pKey[x] \in Keys /\ pKey'[x] \in Keys BY <1>3, <1>4 DEF TypeOK
    <3> QED BY <1>5, <3>1, HashTableAssumption
  <2>3. In(n, s) \subseteq used BY <2>1 DEF Shape
  <2>4. Table(n, s)' BY <1>2, <2>1, <2>2, <2>3, SameTable DEF Shape
  <2>5. Path(elem, m, r)' BY <1>2, <2>1 DEF Path, Shape, list
  <2> QED BY <1>2, <2>1, <2>4, <2>5 DEF Shape, Shaped
<1> QED BY <1>6, <1>7, <1>8

LEMMA NothingOK ==
  ASSUME IInv, UNCHANGED <<list, count, htsize, data, pKey, used, pc, new_elem, h, elem>>,
         asked' \in Keys \cup {NoData}, ret' \in Data \cup {NoData}
  PROVE  IInv'
<1> USE DEF IInv
<1>1. TypeOK' BY DEF TypeOK, list, Buckets
<1>2. Own' BY DEF Own, list, Bucket
<1>3. Shaped'
  <2>1. PICK n, s, m, r : Shape(n, s, m, r) BY DEF Shaped
  <2>2. Table(n, s)' BY <2>1, SameTable DEF Shape
  <2>3. Path(elem, m, r)' BY <2>1 DEF Path, Shape, list
  <2> QED BY <2>1, <2>2, <2>3 DEF Shape, Shaped
<1> QED BY <1>1, <1>2, <1>3

LEMMA InsertNewOK ==
  ASSUME IInv, NEW k \in Keys, NEW d \in Data, InsertNew(k, Find(k), d)
  PROVE  IInv'
<1> USE DEF IInv
<1>0. pc = "idle" /\ Find(k) = Null BY DEF InsertNew
<1>1. \A x \in used : NameOf[pKey[x]] # NameOf[k]
  <2>1. Null \notin used BY Sizes DEF TypeOK
  <2> QED BY <1>0, <2>1, FindIs
<1>2. PICK new \in Elems \ used :
        /\ new_elem' = new /\ used' = used \cup {new}
        /\ data' = [data EXCEPT ![new] = d] /\ pKey' = [pKey EXCEPT ![new] = k]
  BY DEF InsertNew
<1>3. /\ h' = Bucket(k) /\ count' = count + 1 /\ pc' = "resize"
      /\ asked' = NoData /\ ret' = NoData /\ UNCHANGED <<list, htsize, elem>>
  BY DEF InsertNew
<1>4. used \subseteq Elems /\ DOMAIN pKey = Elems /\ DOMAIN data = Elems BY DEF TypeOK, Own
<1>5. \A x \in Elems : /\ pKey'[x] = IF x = new THEN k ELSE pKey[x]
                       /\ data'[x] = IF x = new THEN d ELSE data[x]
  BY <1>2, <1>4
<1>6. Bucket(k) \in Nat
  <2>1. HashOf[k] \in Nat /\ htsize \in Nat BY HashTableAssumption DEF TypeOK
  <2> QED BY <2>1 DEF Bucket
<1>7. TypeOK' BY <1>2, <1>3, <1>4, <1>5, <1>6 DEF TypeOK, list, Buckets
<1>8. Own'
  <2>1. DOMAIN pKey' = Elems /\ DOMAIN data' = Elems BY <1>2, <1>4
  <2>2. IsFiniteSet(used) BY <1>4, Sizes, FS_Subset
  <2>3. Cardinality(used') = Cardinality(used) + 1 BY <1>2, <2>2, FS_AddElement
  <2>4. count' = Cardinality(used') BY <1>3, <2>3 DEF Own
  <2>5. \A x, y \in used' : NameOf[pKey'[x]] = NameOf[pKey'[y]] => x = y
    BY <1>1, <1>2, <1>4, <1>5 DEF Own
  <2>6. pc' # "rehash" => elem' = Null BY <1>0, <1>3 DEF Own
  <2>7. new_elem' # Null BY <1>2, Sizes
  <2>8. h' = Bucket(pKey[new_elem])' BY <1>2, <1>3, <1>5 DEF Bucket
  <2>9. \A x \in Elems \ used' : next'[x] = Null /\ prev'[x] = Null
    BY <1>2, <1>3 DEF Own, list
  <2> QED BY <1>3, <2>1, <2>4, <2>5, <2>6, <2>7, <2>8, <2>9 DEF Own
<1>9. Shaped'
  <2>1. PICK n, s, m, r : Shape(n, s, m, r) BY DEF Shaped
  <2>2. In(n, s) \subseteq used /\ In(m, r) \subseteq used BY <2>1 DEF Shape
  <2>3. \A x \in In(n, s) : HashOf[pKey'[x]] = HashOf[pKey[x]] BY <1>2, <1>4, <1>5, <2>2
  <2>4. Table(n, s)' BY <1>3, <2>1, <2>3, SameTable DEF Shape
  <2>5. Path(elem, m, r)' BY <1>3, <2>1 DEF Path, Shape, list
  <2>6. new_elem = Null /\ new_elem' # Null BY <1>0, <1>2, Sizes DEF Own
  <2>7. /\ used' = In(n, s) \cup In(m, r) \cup ({new_elem'} \ {Null})
        /\ new_elem' \notin In(n, s) \cup In(m, r)
    BY <1>2, <2>1, <2>2, <2>6 DEF Shape
  <2>8. In(n, s) \cap In(m, r) = {} BY <2>1 DEF Shape
  <2>9. Shape(n, s, m, r)' BY <2>4, <2>5, <2>7, <2>8 DEF Shape
  <2> QED BY <2>9 DEF Shaped
<1> QED BY <1>7, <1>8, <1>9

LEMMA StayOK ==
  ASSUME IInv, Stay
  PROVE  IInv'
<1> USE DEF IInv, Stay
<1>1. TypeOK' BY DEF TypeOK, list, Buckets
<1>2. Own' BY DEF Own, list, Bucket
<1>3. Shaped'
  <2>1. PICK n, s, m, r : Shape(n, s, m, r) BY DEF Shaped
  <2>2. Table(n, s)' BY <2>1, SameTable DEF Shape
  <2>3. Path(elem, m, r)' BY <2>1 DEF Path, Shape, list
  <2> QED BY <2>1, <2>2, <2>3 DEF Shape, Shaped
<1> QED BY <1>1, <1>2, <1>3

LEMMA MovedOK ==
  ASSUME IInv, Moved
  PROVE  IInv'
<1> USE DEF IInv, Moved
<1>0. new_elem \in used BY Sizes DEF Own, TypeOK
<1>1. TypeOK'
  <2>1. Bucket(pKey[new_elem]) \in Nat
    <3>1. HashOf[pKey[new_elem]] \in Nat /\ htsize \in Nat
      BY <1>0, HashTableAssumption DEF TypeOK
    <3> QED BY <3>1 DEF Bucket
  <2> QED BY <2>1 DEF TypeOK, list, Buckets
<1>2. Own' BY DEF Own, list, Bucket
<1>3. Shaped'
  <2>1. PICK n, s, m, r : Shape(n, s, m, r) BY DEF Shaped
  <2>2. Table(n, s)' BY <2>1, SameTable DEF Shape
  <2>3. Path(elem, m, r)' BY <2>1 DEF Path, Shape, list
  <2> QED BY <2>1, <2>2, <2>3 DEF Shape, Shaped
<1> QED BY <1>1, <1>2, <1>3

\* The rest of a list behind its first element.
LEMMA TailPath ==
  ASSUME NEW e, NEW m, NEW r, Path(e, m, r), e # Null
  PROVE  /\ e \in In(m, r)
         /\ \E q : Path(next[e], m - 1, q) /\ In(m - 1, q) = In(m, r) \ {e}
<1>1. m \in Nat /\ m # 0 /\ 1 \in 1 .. m /\ e = r[1] /\ r \in [1 .. m -> Elems]
      /\ \A i, j \in 1 .. m : r[i] = r[j] => i = j
  BY DEF Path
<1>2. PICK q : q = [i \in 1 .. m - 1 |-> r[i + 1]] OBVIOUS
<1>3. \A i \in 1 .. m - 1 : q[i] = r[i + 1] /\ i + 1 \in 1 .. m BY <1>1, <1>2
<1>4. next[e] = IF m - 1 = 0 THEN Null ELSE q[1]
  <2>1. next[r[1]] = IF 1 = m THEN Null ELSE r[1 + 1] BY <1>1 DEF Path
  <2>2. m # 1 => 1 \in 1 .. m - 1 BY <1>1
  <2> QED BY <1>1, <1>3, <2>1, <2>2
<1>5. m - 1 \in Nat /\ q \in [1 .. m - 1 -> Elems] BY <1>1, <1>2, <1>3
<1>6. ASSUME NEW i \in 1 .. m - 1
      PROVE  next[q[i]] = IF i = m - 1 THEN Null ELSE q[i + 1]
  <2>1. next[r[i + 1]] = IF i + 1 = m THEN Null ELSE r[(i + 1) + 1] BY <1>3 DEF Path
  <2>2. (i + 1 = m <=> i = m - 1) /\ (i # m - 1 => i + 1 \in 1 .. m - 1) BY <1>1
  <2> QED BY <1>3, <2>1, <2>2
<1>7. ASSUME NEW i \in 1 .. m - 1, NEW j \in 1 .. m - 1, q[i] = q[j] PROVE i = j
  <2>1. i + 1 = j + 1 BY <1>1, <1>3, <1>7
  <2> QED BY <2>1
<1>8. Path(next[e], m - 1, q) BY <1>4, <1>5, <1>6, <1>7 DEF Path
<1>9. In(m - 1, q) = In(m, r) \ {e}
  <2>1. ASSUME NEW i \in 1 .. m - 1 PROVE q[i] \in In(m, r) \ {e}
    <3>1. i + 1 # 1 OBVIOUS
    <3> QED BY <1>1, <1>3, <3>1 DEF In
  <2>2. ASSUME NEW i \in 1 .. m, r[i] # e PROVE \E j \in 1 .. m - 1 : r[i] = q[j]
    <3>1. i - 1 \in 1 .. m - 1 /\ (i - 1) + 1 = i BY <1>1, <2>2
    <3> QED BY <1>3, <3>1
  <2> QED BY <2>1, <2>2 DEF In
<1> QED BY ZenonT(30), <1>1, <1>8, <1>9 DEF In

\* A list stays when no link of its elements changes.
LEMMA KeptPath ==
  ASSUME NEW e, NEW n, NEW s, Path(e, n, s), \A x \in In(n, s) : next'[x] = next[x]
  PROVE  Path(e, n, s)'
BY DEF Path, In

LEMMA InsertTypes ==
  ASSUME TypeOK, NEW e \in used, insertElement(e, Bucket(pKey[e])), UNCHANGED htsize
  PROVE  /\ first' \in used \cup {Null}
         /\ next' \in [Elems -> used \cup {Null}] /\ prev' \in [Elems -> used \cup {Null}]
         /\ DOMAIN ht' = DOMAIN ht
         /\ \A b \in DOMAIN ht :
              /\ ht'[b].count \in Nat
              /\ ht'[b].chain \in IF ht'[b].count = 0 THEN Elems \cup {Null} ELSE used
<1> DEFINE b == Bucket(pKey[e])
           head == IF htsize > 0 /\ ht[b].count > 0 THEN ht[b].chain ELSE Null
           succ == IF head # Null THEN head ELSE first
           pred == IF head # Null THEN prev[head] ELSE Null
<1>1. htsize > 0 => b \in DOMAIN ht BY BucketRange
<1>2. head \in used \cup {Null}
  <2>1. CASE htsize > 0 /\ ht[b].count > 0
    <3>1. b \in DOMAIN ht /\ ht[b].chain \in used BY <1>1, <2>1 DEF TypeOK
    <3> QED BY <2>1, <3>1
  <2>2. CASE ~(htsize > 0 /\ ht[b].count > 0) BY <2>2
  <2> QED BY <2>1, <2>2
<1>3. /\ ht' = IF htsize = 0 THEN ht
               ELSE [ht EXCEPT ![b] = [count |-> @.count + 1, chain |-> e]]
      /\ next' = [x \in Elems |-> IF x = e THEN succ ELSE IF x = pred THEN e ELSE next[x]]
      /\ prev' = [x \in Elems |-> IF x = e THEN pred ELSE IF x = succ THEN e ELSE prev[x]]
      /\ first' = IF pred = Null THEN e ELSE first
  BY DEF insertElement
<1> HIDE DEF b, head
<1>4. succ \in used \cup {Null} /\ pred \in used \cup {Null} BY <1>2 DEF TypeOK
<1> HIDE DEF succ, pred
<1>5. next' \in [Elems -> used \cup {Null}] /\ prev' \in [Elems -> used \cup {Null}]
  BY <1>3, <1>4 DEF TypeOK
<1>6. first' \in used \cup {Null} BY <1>3 DEF TypeOK
<1>7. DOMAIN ht' = DOMAIN ht BY <1>3
<1>8. ASSUME NEW d \in DOMAIN ht
      PROVE  /\ ht'[d].count \in Nat
             /\ ht'[d].chain \in IF ht'[d].count = 0 THEN Elems \cup {Null} ELSE used
  <2>1. htsize # 0 /\ htsize \in Nat /\ ht[d].count \in Nat BY DEF TypeOK
  <2>2. CASE d = b
    <3>1. ht'[d] = [count |-> ht[d].count + 1, chain |-> e] BY <1>3, <2>1, <2>2
    <3>2. ht'[d].count = ht[d].count + 1 /\ ht'[d].chain = e BY <3>1
    <3> QED BY <2>1, <3>2
  <2>3. CASE d # b
    <3>1. ht'[d] = ht[d] BY <1>3, <2>1, <2>3
    <3> QED BY <3>1 DEF TypeOK
  <2> QED BY <2>2, <2>3
<1> QED BY <1>5, <1>6, <1>7, <1>8

LEMMA RehashOK ==
  ASSUME IInv, Rehash
  PROVE  IInv'
<1> USE DEF IInv
<1>1. PICK extra \in 0 .. Slack : htsize' = NewSize + extra BY DEF Rehash
<1>2. /\ ht' = [b \in 0 .. htsize' - 1 |-> [count |-> 0, chain |-> Null]]
      /\ elem' = first /\ first' = Null /\ pc = "resize" /\ pc' = "rehash"
      /\ UNCHANGED <<next, prev, count, data, pKey, used, new_elem, h, asked, ret>>
  BY DEF Rehash
<1>3. htsize' \in Nat
  <2>1. Slack \in Nat /\ MaxBuckets \in Nat /\ count \in Nat BY HashTableAssumption DEF TypeOK
  <2>2. NewSize \in Nat BY <2>1 DEF NewSize
  <2> QED BY <1>1, <2>1, <2>2
<1>4. DOMAIN ht' = (IF htsize = 0 THEN {} ELSE Buckets)' BY <1>2, <1>3 DEF Buckets
<1>5. \A b \in DOMAIN ht' : ht'[b].count = 0 /\ ht'[b].chain = Null BY <1>2
<1>6. TypeOK' BY <1>2, <1>3, <1>4, <1>5 DEF TypeOK
<1>7. Own' BY <1>2 DEF Own
<1>8. Shaped'
  <2>1. PICK n, s, m, r : Shape(n, s, m, r) BY DEF Shaped
  <2>2. elem = Null BY <1>2 DEF Own
  <2>3. In(m, r) = {} BY <2>1, <2>2, NullPath DEF Shape
  <2>4. In(0, << >>) = {} /\ << >> \in [1 .. 0 -> Elems] BY EmptyPath
  <2>5. Path(first, 0, << >>)' BY <1>2, <2>4 DEF Path
  <2>6. Back(0, << >>)' BY DEF Back
  <2>7. Runs(0, << >>)'
    <3>1. \A b \in DOMAIN ht' : RunAt(b, 0, << >>, 1)' BY <1>5 DEF RunAt
    <3> QED BY <3>1 DEF Runs
  <2>8. Path(elem, n, s)' BY <1>2, <2>1 DEF Shape, Table, Path
  <2>9. used' = In(0, << >>) \cup In(n, s) \cup ({new_elem'} \ {Null})
    BY <1>2, <2>1, <2>3, <2>4 DEF Shape
  <2>10. new_elem' \notin In(0, << >>) \cup In(n, s) BY <1>2, <2>1, <2>4 DEF Shape
  <2>11. Shape(0, << >>, n, s)'
    BY <2>4, <2>5, <2>6, <2>7, <2>8, <2>9, <2>10 DEF Shape, Table
  <2> QED BY <2>11 DEF Shaped
<1> QED BY <1>6, <1>7, <1>8

LEMMA MoveOK ==
  ASSUME IInv, Move
  PROVE  IInv'
<1> USE DEF IInv
<1>1. /\ pc = "rehash" /\ elem # Null /\ elem' = next[elem]
      /\ insertElement(elem, Bucket(pKey[elem]))
      /\ UNCHANGED <<count, htsize, data, pKey, used, pc, new_elem, h, asked, ret>>
  BY DEF Move
<1>2. elem \in used /\ used \subseteq Elems BY <1>1 DEF TypeOK
<1>3. PICK n, s, m, r : Shape(n, s, m, r) BY DEF Shaped
<1>4. /\ Table(n, s) /\ Path(elem, m, r) /\ In(n, s) \cap In(m, r) = {}
      /\ used = In(n, s) \cup In(m, r) \cup ({new_elem} \ {Null})
      /\ new_elem \notin In(n, s) \cup In(m, r)
  BY <1>3 DEF Shape
<1>5. /\ elem \in In(m, r)
      /\ \E q : Path(next[elem], m - 1, q) /\ In(m - 1, q) = In(m, r) \ {elem}
  BY <1>1, <1>4, TailPath
<1>6. PICK q : Path(next[elem], m - 1, q) /\ In(m - 1, q) = In(m, r) \ {elem} BY <1>5
<1>7. elem \notin In(n, s) BY <1>4, <1>5
<1>8. PICK t : /\ Table(n + 1, t)' /\ In(n + 1, t) = In(n, s) \cup {elem}
               /\ \A x \in Elems : x # elem /\ x \notin In(n, s) =>
                    next'[x] = next[x] /\ prev'[x] = prev[x]
  BY <1>1, <1>2, <1>4, <1>7, InsertKeepsTable
<1>9. TypeOK'
  <2>1. /\ first' \in used \cup {Null}
        /\ next' \in [Elems -> used \cup {Null}] /\ prev' \in [Elems -> used \cup {Null}]
        /\ DOMAIN ht' = DOMAIN ht
        /\ \A b \in DOMAIN ht :
             /\ ht'[b].count \in Nat
             /\ ht'[b].chain \in IF ht'[b].count = 0 THEN Elems \cup {Null} ELSE used
    BY <1>1, <1>2, InsertTypes
  <2>2. elem' \in used \cup {Null} BY <1>1, <1>2 DEF TypeOK
  <2> QED BY <1>1, <2>1, <2>2 DEF TypeOK, Buckets
<1>10. Own'
  <2>1. \A x \in Elems \ used : next'[x] = Null /\ prev'[x] = Null
    BY <1>2, <1>4, <1>8 DEF Own
  <2> QED BY <1>1, <2>1 DEF Own
<1>11. Path(elem, m - 1, q)'
  <2>1. PICK x : x = next[elem] OBVIOUS
  <2>2. \A y \in In(m - 1, q) : next'[y] = next[y] BY <1>2, <1>4, <1>6, <1>8
  <2>3. Path(x, m - 1, q) BY <1>6, <2>1
  <2>4. Path(x, m - 1, q)' BY <2>2, <2>3, KeptPath
  <2> QED BY <1>1, <2>1, <2>4 DEF Path
<1>12. Shape(n + 1, t, m - 1, q)'
  <2>1. In(n + 1, t) \cap In(m - 1, q) = {} BY <1>4, <1>6, <1>8
  <2>2. used' = In(n + 1, t) \cup In(m - 1, q) \cup ({new_elem'} \ {Null})
    BY <1>1, <1>4, <1>5, <1>6, <1>8
  <2>3. new_elem' \notin In(n + 1, t) \cup In(m - 1, q) BY <1>1, <1>4, <1>5, <1>6, <1>8
  <2> QED BY <1>8, <1>11, <2>1, <2>2, <2>3 DEF Shape
<1>13. Shaped' BY <1>12 DEF Shaped
<1> QED BY <1>9, <1>10, <1>13

LEMMA FinishOK ==
  ASSUME IInv, Finish
  PROVE  IInv'
<1> USE DEF IInv
<1>1. /\ pc = "insert" /\ pc' = "idle" /\ new_elem' = Null /\ h' = 0
      /\ insertElement(new_elem, h)
      /\ asked' = pKey[new_elem] /\ ret' = NoData
      /\ UNCHANGED <<count, htsize, data, pKey, used, elem>>
  BY DEF Finish
<1>2. new_elem \in used /\ used \subseteq Elems /\ h = Bucket(pKey[new_elem]) /\ elem = Null
  BY <1>1, Sizes DEF TypeOK, Own
<1>3. PICK n, s, m, r : Shape(n, s, m, r) BY DEF Shaped
<1>4. /\ Table(n, s) /\ Path(elem, m, r)
      /\ used = In(n, s) \cup In(m, r) \cup ({new_elem} \ {Null})
      /\ new_elem \notin In(n, s) \cup In(m, r)
  BY <1>3 DEF Shape
<1>5. m = 0 /\ In(m, r) = {} BY <1>2, <1>4, NullPath
<1>6. insertElement(new_elem, Bucket(pKey[new_elem])) BY <1>1, <1>2
<1>7. PICK t : /\ Table(n + 1, t)' /\ In(n + 1, t) = In(n, s) \cup {new_elem}
               /\ \A x \in Elems : x # new_elem /\ x \notin In(n, s) =>
                    next'[x] = next[x] /\ prev'[x] = prev[x]
  BY <1>1, <1>2, <1>4, <1>6, InsertKeepsTable
<1>8. TypeOK'
  <2>1. /\ first' \in used \cup {Null}
        /\ next' \in [Elems -> used \cup {Null}] /\ prev' \in [Elems -> used \cup {Null}]
        /\ DOMAIN ht' = DOMAIN ht
        /\ \A b \in DOMAIN ht :
             /\ ht'[b].count \in Nat
             /\ ht'[b].chain \in IF ht'[b].count = 0 THEN Elems \cup {Null} ELSE used
    BY <1>1, <1>2, <1>6, InsertTypes
  <2>2. pKey[new_elem] \in Keys BY <1>2 DEF TypeOK
  <2> QED BY <1>1, <2>1, <2>2 DEF TypeOK, Buckets
<1>9. Own'
  <2>1. \A x \in Elems \ used : next'[x] = Null /\ prev'[x] = Null
    BY <1>2, <1>4, <1>7 DEF Own
  <2> QED BY <1>1, <1>2, <2>1 DEF Own
<1>10. Path(elem, 0, << >>)'
  <2>1. << >> \in [1 .. 0 -> Elems] BY EmptyPath
  <2> QED BY <1>1, <1>2, <2>1 DEF Path
<1>11. Shape(n + 1, t, 0, << >>)'
  <2>1. In(0, << >>) = {} BY EmptyPath
  <2>2. used' = In(n + 1, t) \cup In(0, << >>) \cup ({new_elem'} \ {Null})
    BY <1>1, <1>2, <1>4, <1>5, <1>7, <2>1
  <2>3. new_elem' \notin In(n + 1, t) \cup In(0, << >>)
    BY <1>1, <1>2, <1>4, <1>7, <2>1, Sizes
  <2> QED BY <1>7, <1>10, <2>1, <2>2, <2>3 DEF Shape
<1>12. Shaped' BY <1>11 DEF Shaped
<1> QED BY <1>8, <1>9, <1>12

\* Links and buckets of a table lead to elements of its list.
LEMMA TableTypes ==
  ASSUME NEW n, NEW s, Table(n, s)'
  PROVE  /\ first' \in In(n, s) \cup {Null}
         /\ \A x \in In(n, s) : /\ next'[x] \in In(n, s) \cup {Null}
                                /\ prev'[x] \in In(n, s) \cup {Null}
         /\ \A b \in DOMAIN ht' : /\ ht'[b].count \in Nat
                                  /\ ht'[b].count > 0 => ht'[b].chain \in In(n, s)
<1>1. Path(first, n, s)' /\ Back(n, s)' /\ Runs(n, s)' BY DEF Table
<1>2. n \in Nat /\ first' = (IF n = 0 THEN Null ELSE s[1]) BY <1>1 DEF Path
<1>3. first' \in In(n, s) \cup {Null} BY <1>2 DEF In
<1>4. ASSUME NEW i \in 1 .. n
      PROVE  next'[s[i]] \in In(n, s) \cup {Null} /\ prev'[s[i]] \in In(n, s) \cup {Null}
  <2>1. next'[s[i]] = IF i = n THEN Null ELSE s[i + 1] BY <1>1 DEF Path
  <2>2. prev'[s[i]] = IF i = 1 THEN Null ELSE s[i - 1] BY <1>1 DEF Back
  <2>3. (i # n => i + 1 \in 1 .. n) /\ (i # 1 => i - 1 \in 1 .. n) BY <1>2
  <2> QED BY <2>1, <2>2, <2>3 DEF In
<1>5. ASSUME NEW b \in DOMAIN ht'
      PROVE  ht'[b].count \in Nat /\ (ht'[b].count > 0 => ht'[b].chain \in In(n, s))
  <2>1. PICK a : RunAt(b, n, s, a)' BY <1>1 DEF Runs
  <2>2. /\ a \in 1 .. n + 1 /\ ht'[b].count \in Nat /\ a + ht'[b].count <= n + 1
        /\ ht'[b].count > 0 => ht'[b].chain = s[a]
    BY <2>1 DEF RunAt
  <2>3. ht'[b].count > 0 => a \in 1 .. n BY <1>2, <2>2
  <2> QED BY <2>2, <2>3 DEF In
<1> QED BY <1>3, <1>4, <1>5 DEF In

LEMMA DeleteOK ==
  ASSUME IInv, NEW k \in Keys, Delete(k, Find(k))
  PROVE  IInv'
<1> DEFINE e == Find(k)
           b == Bucket(k)
           chain == IF ht[b].chain = e THEN next[e] ELSE ht[b].chain
<1> USE DEF IInv
<1>0. pc = "idle" /\ e # Null BY DEF Delete
<1>1. e \in used /\ NameOf[pKey[e]] = NameOf[k] BY <1>0, FindIs
<1>2. Delete(k, e) OBVIOUS
<1> HIDE DEF e
<1>3. /\ next' = [x \in Elems |-> CASE x = e -> Null [] x = prev[e] -> next[e] [] OTHER -> next[x]]
      /\ prev' = [x \in Elems |-> CASE x = e -> Null [] x = next[e] -> prev[e] [] OTHER -> prev[x]]
      /\ used' = used \ {e} /\ count' = count - 1
      /\ asked' = k /\ ret' = data[e]
      /\ UNCHANGED <<pc, new_elem, h, elem>>
  BY <1>2 DEF Delete
<1>4. /\ pKey' = [x \in Elems |-> IF x \in {e} THEN Null ELSE pKey[x]]
      /\ data' = [x \in Elems |-> IF x \in {e} THEN NoData ELSE data[x]]
  BY <1>2 DEF Delete, Freed, FreedKeys
<1>5. IF count = 1 THEN htsize' = 0 /\ ht' = << >>
      ELSE /\ htsize' = htsize
           /\ ht' = IF htsize = 0 THEN ht
                    ELSE [ht EXCEPT ![b] = [count |-> @.count - 1, chain |-> chain]]
  BY <1>2 DEF Delete
<1>6. PICK n, s : Table(n, s) /\ used = In(n, s) /\ count = n /\ n \in Nat BY <1>0, IdleTable
<1>7. PICK t : Table(n - 1, t)' /\ In(n - 1, t) = In(n, s) \ {e}
  BY <1>1, <1>2, <1>6, DeleteKeepsTable
<1>8. PICK m : m = n - 1 OBVIOUS
<1>9. Table(m, t)' /\ In(m, t) = used' BY <1>3, <1>6, <1>7, <1>8
<1>10. /\ first' \in used' \cup {Null}
       /\ \A x \in used' : next'[x] \in used' \cup {Null} /\ prev'[x] \in used' \cup {Null}
       /\ \A d \in DOMAIN ht' : /\ ht'[d].count \in Nat
                                /\ ht'[d].count > 0 => ht'[d].chain \in used'
  <2>1. /\ first' \in In(m, t) \cup {Null}
        /\ \A x \in In(m, t) : /\ next'[x] \in In(m, t) \cup {Null}
                               /\ prev'[x] \in In(m, t) \cup {Null}
        /\ \A d \in DOMAIN ht' : /\ ht'[d].count \in Nat
                                 /\ ht'[d].count > 0 => ht'[d].chain \in In(m, t)
    BY <1>9, TableTypes
  <2> QED BY <1>9, <2>1
<1>11. used \subseteq Elems /\ e \in Elems BY <1>1 DEF TypeOK
<1>12. \A x \in Elems \ used' : next'[x] = Null /\ prev'[x] = Null
  <2>0. prev[e] # e /\ next[e] # e
    <3>1. PICK p \in 1 .. n : e = s[p] BY <1>1, <1>6 DEF In
    <3>2. /\ \A i, j \in 1 .. n : s[i] = s[j] => i = j
          /\ next[s[p]] = IF p = n THEN Null ELSE s[p + 1]
          /\ prev[s[p]] = IF p = 1 THEN Null ELSE s[p - 1]
      BY <1>6 DEF Table, Path, Back
    <3>3. (p # n => p + 1 \in 1 .. n) /\ (p # 1 => p - 1 \in 1 .. n) BY <1>6
    <3>4. p + 1 # p /\ p - 1 # p BY <1>6
    <3> QED BY <1>11, <3>1, <3>2, <3>3, <3>4, Sizes
  <2> SUFFICES ASSUME NEW x \in Elems \ used', x # e PROVE next'[x] = Null /\ prev'[x] = Null
    BY <1>3, <1>11, <2>0
  <2>1. x \notin used /\ x # Null BY <1>3, Sizes
  <2>2. x # prev[e] /\ x # next[e] BY <1>11, <2>1 DEF TypeOK
  <2>3. next[x] = Null /\ prev[x] = Null BY <2>1 DEF Own
  <2> QED BY <1>3, <2>2, <2>3
<1>13. \A d \in DOMAIN ht' : ht'[d].chain \in Elems \cup {Null}
  <2> SUFFICES ASSUME NEW d \in DOMAIN ht' PROVE ht'[d].chain \in Elems \cup {Null} OBVIOUS
  <2>1. count # 1
    <3>1. DOMAIN << >> = {} OBVIOUS
    <3> QED BY <1>5, <3>1
  <2>2. d \in DOMAIN ht /\ htsize # 0
    <3>1. DOMAIN ht' = DOMAIN ht BY <1>5, <2>1
    <3> QED BY <3>1 DEF TypeOK
  <2>3. ht[d].chain \in Elems \cup {Null} BY <1>11, <2>2 DEF TypeOK
  <2>4. next[e] \in Elems \cup {Null} BY <1>11 DEF TypeOK
  <2>5. CASE d = b
    <3>1. ht'[d].chain = chain BY <1>5, <2>1, <2>2, <2>5
    <3> QED BY <2>3, <2>4, <2>5, <3>1
  <2>6. CASE d # b
    <3>1. ht'[d] = ht[d] BY <1>5, <2>1, <2>2, <2>6
    <3> QED BY <2>3, <3>1
  <2> QED BY <2>5, <2>6
<1>14. TypeOK'
  <2>1. next' \in [Elems -> used' \cup {Null}] /\ prev' \in [Elems -> used' \cup {Null}]
    <3>1. \A x \in Elems : next'[x] \in used' \cup {Null} /\ prev'[x] \in used' \cup {Null}
      BY <1>10, <1>12
    <3>2. /\ next' = [x \in Elems |-> next'[x]] /\ prev' = [x \in Elems |-> prev'[x]]
      BY <1>3
    <3> QED BY <3>1, <3>2
  <2>2. DOMAIN ht' = (IF htsize = 0 THEN {} ELSE Buckets)'
    <3>1. DOMAIN << >> = {} OBVIOUS
    <3>2. CASE count = 1 BY <1>5, <3>1, <3>2
    <3>3. CASE count # 1
      <4>1. DOMAIN ht' = DOMAIN ht /\ htsize' = htsize BY <1>5, <3>3
      <4> QED BY <4>1 DEF TypeOK, Buckets
    <3> QED BY <3>2, <3>3
  <2>3. new_elem' = Null /\ elem' = Null BY <1>0, <1>3 DEF Own
  <2>4. \A x \in Elems : IF x \in used' THEN pKey'[x] \in Keys /\ data'[x] \in Data
                         ELSE pKey'[x] = Null /\ data'[x] = NoData
    BY <1>3, <1>4 DEF TypeOK
  <2>5. count' \in Nat /\ htsize' \in Nat /\ h' \in Nat
    <3>1. n # 0
      <4>1. e \in In(n, s) BY <1>1, <1>6
      <4> QED BY <4>1 DEF In
    <3>2. count' \in Nat BY <1>3, <1>6, <3>1
    <3>3. htsize' \in Nat BY <1>5 DEF TypeOK
    <3> QED BY <1>3, <3>2, <3>3 DEF TypeOK
  <2>6. ret' \in Data \cup {NoData} /\ asked' \in Keys \cup {NoData}
    BY <1>1, <1>3, <1>11 DEF TypeOK
  <2>7. used' \subseteq Elems /\ pc' \in {"idle", "resize", "rehash", "insert"}
    BY <1>0, <1>3, <1>11
  <2>8. \A d \in DOMAIN ht' : /\ ht'[d].count \in Nat
           /\ ht'[d].chain \in IF ht'[d].count = 0 THEN Elems \cup {Null} ELSE used'
    BY <1>10, <1>13
  <2> QED BY <1>10, <2>1, <2>2, <2>3, <2>4, <2>5, <2>6, <2>7, <2>8 DEF TypeOK
<1>15. Own'
  <2>1. IsFiniteSet(used) BY <1>11, Sizes, FS_Subset
  <2>2. Cardinality(used') = Cardinality(used) - 1 BY <1>1, <1>3, <2>1, FS_RemoveElement
  <2>3. count' = Cardinality(used') BY <1>3, <2>2 DEF Own
  <2>4. DOMAIN pKey' = Elems /\ DOMAIN data' = Elems BY <1>4
  <2>5. \A x \in used' : pKey'[x] = pKey[x] BY <1>3, <1>4, <1>11
  <2>6. \A x, y \in used' : NameOf[pKey'[x]] = NameOf[pKey'[y]] => x = y
    BY <1>3, <2>5 DEF Own
  <2> QED BY <1>0, <1>3, <1>12, <2>3, <2>4, <2>6 DEF Own
<1>16. Shaped'
  <2>1. new_elem' = Null /\ elem' = Null BY <1>0, <1>3 DEF Own
  <2>2. In(0, << >>) = {} /\ << >> \in [1 .. 0 -> Elems] BY EmptyPath
  <2>3. Path(elem, 0, << >>)' BY <2>1, <2>2 DEF Path
  <2>4. Null \notin used' BY <1>3, <1>11, Sizes
  <2>5. /\ used' = In(m, t) \cup In(0, << >>) \cup ({new_elem'} \ {Null})
        /\ new_elem' \notin In(m, t) \cup In(0, << >>)
    BY <1>9, <2>1, <2>2, <2>4
  <2>6. Shape(m, t, 0, << >>)' BY <1>9, <2>2, <2>3, <2>5 DEF Shape
  <2> QED BY <2>6 DEF Shaped
<1> QED BY <1>14, <1>15, <1>16

LEMMA ClearOK ==
  ASSUME IInv, Clear
  PROVE  IInv'
<1> DEFINE E == Behind(first)
<1> USE DEF IInv
<1>0. pc = "idle" BY DEF Clear
<1>1. PICK n, s : Table(n, s) /\ used = In(n, s) /\ count = n /\ n \in Nat BY <1>0, IdleTable
<1>2. E = used BY <1>1, BehindPath DEF Table
<1>3. used \subseteq Elems /\ new_elem = Null /\ elem = Null BY <1>0 DEF TypeOK, Own
<1>4. /\ used' = {} /\ first' = Null /\ count' = 0 /\ htsize' = 0 /\ ht' = << >>
      /\ next' = [x \in Elems |-> IF x \in used THEN Null ELSE next[x]]
      /\ prev' = [x \in Elems |-> IF x \in used THEN Null ELSE prev[x]]
      /\ pKey' = [x \in Elems |-> IF x \in used THEN Null ELSE pKey[x]]
      /\ data' = [x \in Elems |-> IF x \in used THEN NoData ELSE data[x]]
      /\ asked' = NoData /\ ret' = NoData /\ UNCHANGED <<pc, new_elem, h, elem>>
  BY <1>2 DEF Clear, Freed, FreedKeys
<1>5. \A x \in Elems : next'[x] = Null /\ prev'[x] = Null /\ pKey'[x] = Null /\ data'[x] = NoData
  BY <1>4 DEF TypeOK, Own
<1>6. DOMAIN ht' = {}
  <2>1. DOMAIN << >> = {} OBVIOUS
  <2> QED BY <1>4, <2>1
<1>7. TypeOK'
  <2>1. next' \in [Elems -> used' \cup {Null}] /\ prev' \in [Elems -> used' \cup {Null}]
    <3>1. next' = [x \in Elems |-> next'[x]] /\ prev' = [x \in Elems |-> prev'[x]] BY <1>4
    <3> QED BY <1>5, <3>1
  <2> QED BY <1>3, <1>4, <1>5, <1>6, <2>1 DEF TypeOK
<1>8. Own'
  <2>1. Cardinality({}) = 0 BY FS_EmptySet
  <2>2. DOMAIN pKey' = Elems /\ DOMAIN data' = Elems BY <1>4
  <2> QED BY <1>0, <1>3, <1>4, <1>5, <2>1, <2>2 DEF Own
<1>9. Shaped'
  <2>1. In(0, << >>) = {} /\ << >> \in [1 .. 0 -> Elems] BY EmptyPath
  <2>2. Path(first, 0, << >>)' /\ Path(elem, 0, << >>)' BY <1>3, <1>4, <2>1 DEF Path
  <2>3. Back(0, << >>)' BY DEF Back
  <2>4. Runs(0, << >>)' BY <1>6 DEF Runs
  <2>5. Shape(0, << >>, 0, << >>)'
    BY <1>3, <1>4, <2>1, <2>2, <2>3, <2>4 DEF Shape, Table
  <2> QED BY <2>5 DEF Shaped
<1> QED BY <1>7, <1>8, <1>9

LEMMA StepOK == IInv /\ [Next]_vars => IInv'
<1> SUFFICES ASSUME IInv, [Next]_vars PROVE IInv' OBVIOUS
<1>1. CASE Stay BY <1>1, StayOK
<1>2. CASE Rehash BY <1>2, RehashOK
<1>3. CASE Move BY <1>3, MoveOK
<1>4. CASE Moved BY <1>4, MovedOK
<1>5. CASE Finish BY <1>5, FinishOK
<1>6. CASE Clear BY <1>6, ClearOK
<1>7. ASSUME NEW k \in Keys, Delete(k, Find(k)) PROVE IInv' BY <1>7, DeleteOK
<1>8. ASSUME NEW k \in Keys, DeleteNothing(k, Find(k)) PROVE IInv'
  BY <1>8, NothingOK DEF DeleteNothing
<1>9. ASSUME NEW k \in Keys, NEW d \in Data, Replace(k, Find(k), d) PROVE IInv'
  BY <1>9, ReplaceOK
<1>10. ASSUME NEW k \in Keys, NEW d \in Data, InsertNew(k, Find(k), d) PROVE IInv'
  BY <1>10, InsertNewOK
<1>11. ASSUME NEW k \in Keys, NEW d \in Data, InsertFails(k, Find(k), d) PROVE IInv'
  BY <1>11, NothingOK DEF InsertFails
<1>12. CASE UNCHANGED vars
  <2>1. asked \in Keys \cup {NoData} /\ ret \in Data \cup {NoData} BY DEF IInv, TypeOK
  <2> QED BY <1>12, <2>1, NothingOK DEF vars
<1> QED
  BY <1>1, <1>2, <1>3, <1>4, <1>5, <1>6, <1>7, <1>8, <1>9, <1>10, <1>11, <1>12
  DEF Next, Loop, Insert
---------------------------------------------------------------------------
(* What follows from the invariant                                         *)

LEMMA InjSize ==
  ASSUME NEW c \in Nat, NEW u \in [1 .. c -> Elems], \A i, j \in 1 .. c : u[i] = u[j] => i = j
  PROVE  Cardinality(In(c, u)) = c
<1>1. u \in Bijection(1 .. c, In(c, u))
  BY DEF In, Bijection, Injection, Surjection, IsInjective
<1>2. IsFiniteSet(1 .. c) /\ Cardinality(1 .. c) = c
  <2>1. Cardinality(1 .. c) = IF 1 > c THEN 0 ELSE (c - 1) + 1 BY FS_Interval
  <2> QED BY <2>1, FS_Interval
<1> QED BY <1>1, <1>2, FS_Bijection DEF ExistsBijection

\* The elements that hash to a bucket are the run of the bucket.
LEMMA RunIs ==
  ASSUME NEW n, NEW s, Path(first, n, s), NEW b, NEW a, RunAt(b, n, s, a)
  PROVE  LET E == {e \in In(n, s) : Bucket(pKey[e]) = b}
         IN ht[b].count = Cardinality(E) /\ Run(ht[b].chain, ht[b].count) = E
<1> DEFINE E == {e \in In(n, s) : Bucket(pKey[e]) = b}
           c == ht[b].count
           u == [i \in 1 .. c |-> s[(a + i) - 1]]
<1>1. /\ n \in Nat /\ s \in [1 .. n -> Elems]
      /\ \A i, j \in 1 .. n : s[i] = s[j] => i = j
  BY DEF Path
<1>2. /\ a \in 1 .. n + 1 /\ c \in Nat /\ a + c <= n + 1
      /\ c > 0 => ht[b].chain = s[a]
      /\ \A i \in 1 .. n : Bucket(pKey[s[i]]) = b <=> (a <= i /\ i < a + c)
  BY DEF RunAt
<1>0. c = ht[b].count OBVIOUS
<1> HIDE DEF c
<1>3. \A i \in 1 .. c : (a + i) - 1 \in 1 .. n /\ u[i] = s[(a + i) - 1] BY <1>1, <1>2
<1>4. u \in [1 .. c -> Elems] BY <1>1, <1>3
<1>5. ASSUME NEW i \in 1 .. c, NEW j \in 1 .. c, u[i] = u[j] PROVE i = j
  <2>1. (a + i) - 1 = (a + j) - 1 BY <1>1, <1>3, <1>5
  <2> QED BY <1>1, <1>2, <2>1
<1>6. In(c, u) = E
  <2>1. ASSUME NEW i \in 1 .. c PROVE u[i] \in E
    <3>1. a <= (a + i) - 1 /\ (a + i) - 1 < a + c BY <1>1, <1>2
    <3> QED BY <1>2, <1>3, <3>1 DEF In
  <2>2. ASSUME NEW i \in 1 .. n, Bucket(pKey[s[i]]) = b PROVE \E j \in 1 .. c : s[i] = u[j]
    <3>1. a <= i /\ i < a + c BY <1>2, <2>2
    <3>2. (i - a) + 1 \in 1 .. c /\ (a + ((i - a) + 1)) - 1 = i BY <1>1, <1>2, <3>1
    <3> QED BY <1>3, <3>2
  <2> QED BY <2>1, <2>2 DEF In
<1>7. Cardinality(E) = c
  <2> HIDE DEF u, E
  <2> QED BY <1>2, <1>4, <1>5, <1>6, InjSize
<1>8. Run(ht[b].chain, c) = E
  <2>1. CASE c = 0
    <3>1. Run(ht[b].chain, c) = {} BY <2>1 DEF Run
    <3>2. E = {} BY <1>6, <2>1 DEF In
    <3> QED BY <3>1, <3>2
  <2>2. CASE c > 0
    <3>1. a \in 1 .. n /\ ht[b].chain = s[a] BY <1>1, <1>2, <2>2
    <3> DEFINE l == (n - a) + 1
               t == Rest(n, s, a)
    <3>2. Path(s[a], l, t) BY <3>1, RestPath
    <3>3. c \in 0 .. l BY <1>1, <1>2, <3>1
    <3>4. \A i \in 1 .. c : t[i] = u[i] BY <1>1, <1>2, <1>3, <3>1 DEF Rest
    <3> HIDE DEF l, t, u
    <3>5. PICK e : e = s[a] OBVIOUS
    <3>6. Path(e, l, t) BY <3>2, <3>5
    <3>7. Run(e, c) = {t[i] : i \in 1 .. c} BY <3>3, <3>6, RunPath
    <3>8. {t[i] : i \in 1 .. c} = In(c, u) BY <3>4 DEF In
    <3> QED BY <1>6, <3>1, <3>5, <3>7, <3>8
  <2> QED BY <1>2, <2>1, <2>2
<1> QED BY <1>0, <1>7, <1>8

LEMMA InvOK == IInv => Inv
<1> SUFFICES ASSUME IInv PROVE Inv OBVIOUS
<1> USE DEF IInv
<1>1. PICK n, s, m, r : Shape(n, s, m, r) BY DEF Shaped
<1>2. /\ Path(first, n, s) /\ Back(n, s) /\ Runs(n, s) /\ Path(elem, m, r)
      /\ In(n, s) \cap In(m, r) = {}
      /\ used = In(n, s) \cup In(m, r) \cup ({new_elem} \ {Null})
      /\ new_elem \notin In(n, s) \cup In(m, r)
  BY <1>1 DEF Shape, Table
<1>3. Behind(first) = In(n, s) /\ Behind(elem) = In(m, r) BY <1>2, BehindPath
<1>4. NothingLost BY <1>2, <1>3 DEF NothingLost, Own
<1>5. DoublyLinked
  <2>1. /\ n \in Nat /\ first = (IF n = 0 THEN Null ELSE s[1])
        /\ \A i \in 1 .. n : next[s[i]] = IF i = n THEN Null ELSE s[i + 1]
        /\ \A i \in 1 .. n : prev[s[i]] = IF i = 1 THEN Null ELSE s[i - 1]
        /\ \A i \in 1 .. n : s[i] # Null
    BY <1>2, Sizes DEF Path, Back
  <2>2. first # Null => prev[first] = Null
    <3> SUFFICES ASSUME first # Null PROVE prev[first] = Null OBVIOUS
    <3>1. n # 0 /\ first = s[1] /\ 1 \in 1 .. n BY <2>1
    <3> QED BY <2>1, <3>1
  <2>3. ASSUME NEW i \in 1 .. n
        PROVE  /\ next[s[i]] # Null => prev[next[s[i]]] = s[i]
               /\ prev[s[i]] # Null => next[prev[s[i]]] = s[i]
    <3>1. i # n => i + 1 \in 1 .. n /\ i + 1 # 1 /\ (i + 1) - 1 = i BY <2>1
    <3>2. i # 1 => i - 1 \in 1 .. n /\ i - 1 # n /\ (i - 1) + 1 = i BY <2>1
    <3> QED BY <2>1, <3>1, <3>2
  <2> QED BY <1>3, <2>2, <2>3 DEF DoublyLinked, In
<1>6. BucketRuns
  <2> SUFFICES ASSUME NEW b \in DOMAIN ht
               PROVE  LET E == {e \in Behind(first) : Bucket(pKey[e]) = b}
                      IN ht[b].count = Cardinality(E) /\ Run(ht[b].chain, ht[b].count) = E
    BY DEF BucketRuns
  <2>1. PICK a : RunAt(b, n, s, a) BY <1>2 DEF Runs
  <2> QED BY <1>2, <1>3, <2>1, RunIs
<1>7. Findable
  <2> SUFFICES ASSUME pc = "idle", NEW k \in Keys
               PROVE  {e \in used : NameOf[pKey[e]] = NameOf[k]}
                        = IF Find(k) = Null THEN {} ELSE {Find(k)}
    BY DEF Findable
  <2> DEFINE f == Find(k)
  <2>1. \/ f = Null /\ \A x \in used : NameOf[pKey[x]] # NameOf[k]
        \/ f \in used /\ NameOf[pKey[f]] = NameOf[k]
    BY FindIs
  <2> HIDE DEF f
  <2>2. CASE f = Null /\ \A x \in used : NameOf[pKey[x]] # NameOf[k] BY <2>2 DEF f
  <2>3. CASE f \in used /\ NameOf[pKey[f]] = NameOf[k]
    <3>1. f # Null BY <2>3, Sizes DEF TypeOK
    <3>2. \A x \in used : NameOf[pKey[x]] = NameOf[k] => x = f BY <2>3 DEF Own
    <3>3. {e \in used : NameOf[pKey[e]] = NameOf[k]} = {f} BY <2>3, <3>2
    <3> QED BY <3>1, <3>3 DEF f
  <2> QED BY <2>1, <2>2, <2>3
<1> QED BY <1>4, <1>5, <1>6, <1>7 DEF Inv

\* Whatever the hash function, whatever the sizes malloc grants and at every
\* step of a rehash: no element is lost, the links go both ways, each bucket
\* names exactly the run of its elements, and sqlite3HashFind finds the one
\* element with the name it looks for (Inv; the assertions of co_hash.c).
THEOREM TableIsSound == Spec => []Inv
<1>1. Init => IInv BY InitOK
<1>2. IInv /\ [Next]_vars => IInv' BY StepOK
<1>3. IInv => Inv BY InvOK
<1> QED BY <1>1, <1>2, <1>3, PTL DEF Spec
---------------------------------------------------------------------------
(* The table implements the map                                            *)

\* The entry of a name, as HashTable maps it.
TheMap ==
  [n \in Names |->
     IF \E e \in Live : NameOf[pKey[e]] = n
     THEN LET e == CHOOSE e \in Live : NameOf[pKey[e]] = n
          IN [key |-> pKey[e], data |-> data[e]]
     ELSE NoData]

Entry(e) == [key |-> pKey[e], data |-> data[e]]

\* v is what the live elements say of the name n.
Says(n, v) == \/ \E e \in Live : NameOf[pKey[e]] = n /\ v = Entry(e)
              \/ v = NoData /\ \A e \in Live : NameOf[pKey[e]] # n

Agree == \A n \in Names : \A v : Says(n, v) <=> v = TheMap[n]

LEMMA Entries == IInv => Agree
<1> SUFFICES ASSUME IInv, NEW n \in Names, NEW v PROVE Says(n, v) <=> v = TheMap[n]
  BY DEF Agree
<1>1. Live \subseteq used BY DEF Live
<1>2. CASE \E e \in Live : NameOf[pKey[e]] = n
  <2> DEFINE x == CHOOSE e \in Live : NameOf[pKey[e]] = n
  <2>1. x \in Live /\ NameOf[pKey[x]] = n BY <1>2
  <2>2. TheMap[n] = Entry(x) BY <1>2 DEF TheMap, Entry
  <2> HIDE DEF x
  <2>3. \A e \in Live : NameOf[pKey[e]] = n => e = x BY <1>1, <2>1 DEF IInv, Own
  <2>4. Says(n, v) <=> v = Entry(x) BY <2>1, <2>3 DEF Says
  <2> QED BY <2>2, <2>4
<1>3. CASE \A e \in Live : NameOf[pKey[e]] # n
  <2>1. TheMap[n] = NoData BY <1>3 DEF TheMap
  <2> QED BY <1>3, <2>1 DEF Says
<1> QED BY <1>2, <1>3

LEMMA EntryFields ==
  ASSUME IInv, NEW e \in used
  PROVE  /\ pKey[e] \in Keys /\ data[e] \in Data /\ NameOf[pKey[e]] \in Names
         /\ Entry(e) \in [key : Keys, data : Data] /\ Entry(e) # NoData
         /\ Entry(e).data = data[e]
<1>1. pKey[e] \in Keys /\ data[e] \in Data BY DEF IInv, TypeOK
<1>2. Entry(e) \in [key : Keys, data : Data] BY <1>1 DEF Entry
<1> QED BY <1>1, <1>2, HashTableAssumption DEF Entry, Names

\* Between two calls the map has what Find finds.
LEMMA OldIs ==
  ASSUME IInv, pc = "idle", NEW k \in Keys
  PROVE  /\ NameOf[k] \in Names /\ Live = used
         /\ Find(k) = Null => TheMap[NameOf[k]] = NoData
         /\ Find(k) # Null => /\ Find(k) \in used /\ NameOf[pKey[Find(k)]] = NameOf[k]
                              /\ TheMap[NameOf[k]] = Entry(Find(k))
<1>1. NameOf[k] \in Names BY DEF Names
<1>2. Live = used /\ Null \notin used BY Sizes DEF Live, IInv, Own, TypeOK
<1>3. \/ Find(k) = Null /\ \A x \in used : NameOf[pKey[x]] # NameOf[k]
      \/ Find(k) \in used /\ NameOf[pKey[Find(k)]] = NameOf[k]
  BY FindIs DEF IInv
<1>4. CASE Find(k) = Null /\ \A x \in used : NameOf[pKey[x]] # NameOf[k]
  <2>1. Says(NameOf[k], NoData) BY <1>2, <1>4 DEF Says
  <2> QED BY <1>1, <1>2, <1>4, <2>1, Entries DEF Agree
<1>5. CASE Find(k) \in used /\ NameOf[pKey[Find(k)]] = NameOf[k]
  <2>1. Says(NameOf[k], Entry(Find(k))) BY <1>2, <1>5 DEF Says
  <2> QED BY <1>1, <1>2, <1>5, <2>1, Entries DEF Agree
<1> QED BY <1>3, <1>4, <1>5

\* The map changes where the live elements say something else.
LEMMA SameMap ==
  ASSUME IInv, IInv', \A n \in Names : \A v : Says(n, v) => Says(n, v)'
  PROVE  TheMap' = TheMap
<1>1. \A n \in Names : TheMap'[n] = TheMap[n]
  <2> SUFFICES ASSUME NEW n \in Names PROVE TheMap'[n] = TheMap[n] OBVIOUS
  <2>1. PICK v : v = TheMap[n] OBVIOUS
  <2>2. Says(n, v)' BY <2>1, Entries DEF Agree
  <2>3. (IInv => Agree)' BY Entries, PTL
  <2>4. v = TheMap'[n] BY <2>2, <2>3 DEF Agree
  <2> QED BY <2>1, <2>4
<1>2. TheMap = [n \in Names |-> TheMap[n]] /\ TheMap' = [n \in Names |-> TheMap'[n]]
  BY DEF TheMap
<1> QED BY <1>1, <1>2

LEMMA ChangedMap ==
  ASSUME IInv, IInv', NEW f \in Names, NEW w, Says(f, w)',
         \A n \in Names : n # f => \A v : Says(n, v) => Says(n, v)'
  PROVE  TheMap' = [TheMap EXCEPT ![f] = w]
<1>0. (IInv => Agree)' BY Entries, PTL
<1>1. \A n \in Names : TheMap'[n] = IF n = f THEN w ELSE TheMap[n]
  <2> SUFFICES ASSUME NEW n \in Names PROVE TheMap'[n] = IF n = f THEN w ELSE TheMap[n]
    OBVIOUS
  <2>1. CASE n = f BY <1>0, <2>1 DEF Agree
  <2>2. CASE n # f
    <3>1. PICK v : v = TheMap[n] OBVIOUS
    <3>2. Says(n, v)' BY <2>2, <3>1, Entries DEF Agree
    <3>3. v = TheMap'[n] BY <1>0, <3>2 DEF Agree
    <3> QED BY <2>2, <3>1, <3>3
  <2> QED BY <2>1, <2>2
<1>2. TheMap = [n \in Names |-> TheMap[n]] /\ TheMap' = [n \in Names |-> TheMap'[n]]
  BY DEF TheMap
<1> QED BY <1>1, <1>2

LEMMA MapInit == Init => Map!MInit
<1> SUFFICES ASSUME Init PROVE Map!MInit OBVIOUS
<1>1. Live = {} /\ asked = NoData /\ ret = NoData BY DEF Init, Live
<1> QED BY <1>1 DEF Map!MInit, Map!Names, Names

\* What the map sees of a step.
MapVars == <<TheMap, asked, ret>>

MapBegin     == asked' = NoData /\ ret' = NoData /\ TheMap' = TheMap
MapPut(k, d) == /\ TheMap' = [TheMap EXCEPT ![NameOf[k]] = [key |-> k, data |-> d]]
                /\ asked' = k
                /\ ret' = IF TheMap[NameOf[k]] = NoData THEN NoData ELSE TheMap[NameOf[k]].data
MapRemove(k) == /\ TheMap' = [TheMap EXCEPT ![NameOf[k]] = NoData]
                /\ asked' = k
                /\ ret' = IF TheMap[NameOf[k]] = NoData THEN NoData ELSE TheMap[NameOf[k]].data
MapFull(k, d) == TheMap[NameOf[k]] = NoData /\ asked' = k /\ ret' = d /\ TheMap' = TheMap
MapClear == TheMap' = [n \in Names |-> NoData] /\ asked' = NoData /\ ret' = NoData
MapNext == \/ MapBegin \/ MapClear
           \/ \E k \in Keys : MapRemove(k) \/ \E d \in Data : MapPut(k, d) \/ MapFull(k, d)

LEMMA MapNextIs == [MapNext]_MapVars => [Map!MNext]_<<TheMap, asked, ret>>
<1> QED
  BY DEF MapNext, MapVars, MapBegin, MapPut, MapRemove, MapFull, MapClear, TheMap, Names,
         Map!MNext, Map!Begin, Map!Put, Map!Remove, Map!Full, Map!Clear, Map!Old, Map!Names

LEMMA FinishPuts ==
  ASSUME IInv, IInv', Finish
  PROVE  \E k \in Keys, d \in Data : MapPut(k, d)
<1>1. /\ pc = "insert" /\ new_elem' = Null /\ asked' = pKey[new_elem] /\ ret' = NoData
      /\ UNCHANGED <<data, pKey, used>>
  BY DEF Finish
<1>2. new_elem \in used /\ Null \notin used BY <1>1, Sizes DEF IInv, Own, TypeOK
<1>3. PICK x, k, d, f, w :
        x = new_elem /\ k = pKey[x] /\ d = data[x] /\ f = NameOf[k] /\ w = [key |-> k, data |-> d]
  OBVIOUS
<1>4. k \in Keys /\ d \in Data /\ f \in Names BY <1>2, <1>3, EntryFields
<1>5. Live = used \ {x} /\ Live' = used BY <1>1, <1>2, <1>3 DEF Live
<1>6. Says(f, w)' BY <1>1, <1>2, <1>3, <1>5 DEF Says, Entry
<1>7. \A n \in Names : n # f => \A v : Says(n, v) => Says(n, v)'
  <2> SUFFICES ASSUME NEW n \in Names, n # f, NEW v, Says(n, v) PROVE Says(n, v)' OBVIOUS
  <2>1. \A e \in used : Entry(e)' = Entry(e) BY <1>1 DEF Entry
  <2>2. NameOf[pKey[x]] # n BY <1>3
  <2> QED BY <1>1, <1>5, <2>1, <2>2 DEF Says
<1>8. TheMap' = [TheMap EXCEPT ![f] = w] BY <1>4, <1>6, <1>7, ChangedMap
<1>9. TheMap[f] = NoData
  <2>1. \A e \in Live : NameOf[pKey[e]] # f BY <1>2, <1>3, <1>5 DEF IInv, Own
  <2>2. Says(f, NoData) BY <2>1 DEF Says
  <2> QED BY <1>4, <2>2, Entries DEF Agree
<1>10. MapPut(k, d) BY <1>1, <1>3, <1>8, <1>9 DEF MapPut
<1> QED BY <1>4, <1>10

LEMMA ReplacePuts ==
  ASSUME IInv, IInv', NEW k \in Keys, NEW d \in Data, Replace(k, Find(k), d)
  PROVE  MapPut(k, d)
<1>1. PICK e, f, w : e = Find(k) /\ f = NameOf[k] /\ w = [key |-> k, data |-> d] OBVIOUS
<1>2. /\ pc = "idle" /\ e # Null
      /\ data' = [data EXCEPT ![e] = d] /\ pKey' = [pKey EXCEPT ![e] = k]
      /\ asked' = k /\ ret' = data[e] /\ UNCHANGED <<used, new_elem>>
  BY <1>1 DEF Replace
<1>3. f \in Names /\ Live = used /\ e \in used /\ NameOf[pKey[e]] = f /\ TheMap[f] = Entry(e)
  BY <1>1, <1>2, OldIs
<1>4. Live' = used BY <1>2, <1>3 DEF Live
<1>5. \A x \in used : /\ pKey'[x] = IF x = e THEN k ELSE pKey[x]
                      /\ data'[x] = IF x = e THEN d ELSE data[x]
  BY <1>2 DEF IInv, TypeOK, Own
<1>6. Says(f, w)' BY <1>1, <1>3, <1>4, <1>5 DEF Says, Entry
<1>7. \A n \in Names : n # f => \A v : Says(n, v) => Says(n, v)'
  <2> SUFFICES ASSUME NEW n \in Names, n # f, NEW v, Says(n, v) PROVE Says(n, v)' OBVIOUS
  <2>1. \A x \in used : x # e => Entry(x)' = Entry(x) BY <1>5 DEF Entry
  <2>2. \A x \in used : NameOf[pKey'[x]] = NameOf[pKey[x]] BY <1>1, <1>3, <1>5
  <2> QED BY <1>3, <1>4, <2>1, <2>2 DEF Says
<1>8. TheMap' = [TheMap EXCEPT ![f] = w] BY <1>3, <1>6, <1>7, ChangedMap
<1>9. Entry(e) # NoData /\ Entry(e).data = data[e] BY <1>3, EntryFields
<1> QED BY <1>1, <1>2, <1>3, <1>8, <1>9 DEF MapPut

LEMMA DeleteRemoves ==
  ASSUME IInv, IInv', NEW k \in Keys, Delete(k, Find(k))
  PROVE  MapRemove(k)
<1>1. PICK e, f : e = Find(k) /\ f = NameOf[k] OBVIOUS
<1>2. /\ pc = "idle" /\ e # Null /\ used' = used \ {e} /\ new_elem' = new_elem
      /\ pKey' = [x \in Elems |-> IF x \in {e} THEN Null ELSE pKey[x]]
      /\ data' = [x \in Elems |-> IF x \in {e} THEN NoData ELSE data[x]]
      /\ asked' = k /\ ret' = data[e]
  BY <1>1 DEF Delete, Freed, FreedKeys
<1>3. f \in Names /\ Live = used /\ e \in used /\ NameOf[pKey[e]] = f /\ TheMap[f] = Entry(e)
  BY <1>1, <1>2, OldIs
<1>4. Live' = used \ {e} BY <1>2, <1>3 DEF Live
<1>5. \A x \in used \ {e} : pKey'[x] = pKey[x] /\ data'[x] = data[x]
  BY <1>2 DEF IInv, TypeOK
<1>6. Says(f, NoData)' BY <1>3, <1>4, <1>5 DEF Says, IInv, Own
<1>7. \A n \in Names : n # f => \A v : Says(n, v) => Says(n, v)'
  <2> SUFFICES ASSUME NEW n \in Names, n # f, NEW v, Says(n, v) PROVE Says(n, v)' OBVIOUS
  <2>1. \A x \in used \ {e} : Entry(x)' = Entry(x) BY <1>5 DEF Entry
  <2> QED BY <1>3, <1>4, <1>5, <2>1 DEF Says
<1>8. TheMap' = [TheMap EXCEPT ![f] = NoData] BY <1>3, <1>6, <1>7, ChangedMap
<1>9. Entry(e) # NoData /\ Entry(e).data = data[e] BY <1>3, EntryFields
<1> QED BY <1>1, <1>2, <1>3, <1>8, <1>9 DEF MapRemove

LEMMA ClearClears ==
  ASSUME IInv, IInv', Clear
  PROVE  MapClear
<1>1. pc = "idle" BY DEF Clear
<1>2. PICK n, s : Table(n, s) /\ used = In(n, s) BY <1>1, IdleTable DEF IInv
<1>3. used' = used \ Behind(first) BY DEF Clear
<1>4. used' = {} BY <1>2, <1>3, BehindPath DEF Table
<1>5. \A i \in Names : Says(i, NoData)' BY <1>4 DEF Says, Live
<1>6. (IInv => Agree)' BY Entries, PTL
<1>7. \A i \in Names : TheMap'[i] = NoData BY <1>5, <1>6 DEF Agree
<1>8. TheMap' = [i \in Names |-> TheMap'[i]] BY DEF TheMap
<1>9. TheMap' = [i \in Names |-> NoData] BY <1>7, <1>8
<1> QED BY <1>9 DEF MapClear, Clear

LEMMA MapStepOK == IInv /\ IInv' /\ [Next]_vars => [MapNext]_MapVars
<1> SUFFICES ASSUME IInv, IInv', [Next]_vars PROVE [MapNext]_MapVars OBVIOUS
<1>1. ASSUME \A e \in Live : Entry(e)' = Entry(e), Live' = Live PROVE TheMap' = TheMap
  <2>1. \A e \in Live : pKey'[e] = pKey[e]
    <3>1. \A e \in Live : Entry(e).key = pKey[e] /\ Entry(e)'.key = pKey'[e] BY DEF Entry
    <3> QED BY <1>1, <3>1
  <2>2. \A n \in Names : \A v : Says(n, v) => Says(n, v)' BY <1>1, <2>1 DEF Says
  <2> QED BY <2>2, SameMap
<1>2. ASSUME UNCHANGED <<used, new_elem, pKey, data>> PROVE TheMap' = TheMap
  BY <1>1, <1>2 DEF Live, Entry
<1>3. CASE Stay \/ Rehash \/ Move \/ Moved
  BY <1>2, <1>3 DEF Stay, Rehash, Move, Moved, MapVars
<1>4. CASE UNCHANGED vars BY <1>2, <1>4 DEF vars, MapVars
<1>5. CASE Finish BY <1>5, FinishPuts DEF MapNext
<1>6. CASE Clear BY <1>6, ClearClears DEF MapNext
<1>7. ASSUME NEW k \in Keys, Delete(k, Find(k)) PROVE MapNext
  BY <1>7, DeleteRemoves DEF MapNext
<1>8. ASSUME NEW k \in Keys, NEW d \in Data, Replace(k, Find(k), d) PROVE MapNext
  BY <1>8, ReplacePuts DEF MapNext
<1>9. ASSUME NEW k \in Keys, DeleteNothing(k, Find(k)) PROVE MapNext
  <2>1. /\ pc = "idle" /\ Find(k) = Null /\ asked' = k /\ ret' = NoData
        /\ UNCHANGED <<used, new_elem, pKey, data>>
    BY <1>9 DEF DeleteNothing
  <2>2. TheMap' = TheMap BY <1>2, <2>1
  <2>3. TheMap[NameOf[k]] = NoData /\ NameOf[k] \in Names BY <2>1, OldIs
  <2>4. TheMap' = [TheMap EXCEPT ![NameOf[k]] = NoData]
    <3>1. TheMap = [n \in Names |-> TheMap[n]] BY DEF TheMap
    <3> QED BY <2>2, <2>3, <3>1
  <2>5. MapRemove(k) BY <2>1, <2>3, <2>4 DEF MapRemove
  <2> QED BY <2>5 DEF MapNext
<1>10. ASSUME NEW k \in Keys, NEW d \in Data, InsertFails(k, Find(k), d) PROVE MapNext
  <2>1. /\ pc = "idle" /\ Find(k) = Null /\ asked' = k /\ ret' = d
        /\ UNCHANGED <<used, new_elem, pKey, data>>
    BY <1>10 DEF InsertFails
  <2>2. TheMap' = TheMap BY <1>2, <2>1
  <2>3. TheMap[NameOf[k]] = NoData BY <2>1, OldIs
  <2>4. MapFull(k, d) BY <2>1, <2>2, <2>3 DEF MapFull
  <2> QED BY <2>4 DEF MapNext
<1>11. ASSUME NEW k \in Keys, NEW d \in Data, InsertNew(k, Find(k), d) PROVE MapNext
  <2>1. /\ pc = "idle" /\ Find(k) = Null /\ asked' = NoData /\ ret' = NoData
    BY <1>11 DEF InsertNew
  <2>2. PICK new \in Elems \ used :
          /\ new_elem' = new /\ used' = used \cup {new}
          /\ data' = [data EXCEPT ![new] = d] /\ pKey' = [pKey EXCEPT ![new] = k]
    BY <1>11 DEF InsertNew
  <2>3. Live = used BY <2>1, OldIs
  <2>4. Live' = Live BY <2>2, <2>3 DEF Live
  <2>5. \A e \in Live : Entry(e)' = Entry(e) BY <2>2, <2>3 DEF Entry, IInv, TypeOK, Own
  <2>6. TheMap' = TheMap BY <1>1, <2>4, <2>5
  <2> QED BY <2>1, <2>6 DEF MapNext, MapBegin
<1> QED
  BY <1>3, <1>4, <1>5, <1>6, <1>7, <1>8, <1>9, <1>10, <1>11 DEF Next, Loop, Insert

\* The table, with its buckets, stale chains and rehashes, is the map of names
\* that co_hash.c:213-236 describes: a call changes the entry it names and no
\* other, returns what was there, and keeps the last spelling of the key.
THEOREM TableIsAMap == Spec => ImplementsMap
<1>1. Init => IInv BY InitOK
<1>2. IInv /\ [Next]_vars => IInv' BY StepOK
<1>3. Init => Map!MInit BY MapInit
<1>4. IInv /\ IInv' /\ [Next]_vars => [Map!MNext]_<<TheMap, asked, ret>>
  BY MapStepOK, MapNextIs
<1> QED BY <1>1, <1>2, <1>3, <1>4, PTL DEF Spec, ImplementsMap, Map!MSpec, TheMap
=============================================================================
