---------------------------- MODULE EvBevProofs ----------------------------
(***************************************************************************)
(* Theorems about EvBev, for every number of bufferevents and every size of *)
(* buffers and buckets: bytes move only within the limits, and a bufferevent *)
(* is released once, after the last reference.                              *)
(***************************************************************************)
EXTENDS EvBev, FiniteSetTheorems, WellFoundedInduction, TLAPS

LEMMA Sizes ==
  /\ IsFiniteSet(Bevs) /\ None \notin Bevs /\ MaxLen \in Nat /\ Rate \in Nat \ {0}
  /\ \A c \in Cfgs : Burst[c] \in Nat
  /\ GroupBurst \in Nat /\ NoCfg \notin Cfgs
  /\ \A m \in Marks : m[1] \in Nat /\ m[2] \in Nat
<1>1. \A m \in Marks : m[1] \in Nat /\ m[2] \in Nat
  <2> SUFFICES ASSUME NEW m \in Marks PROVE m[1] \in Nat /\ m[2] \in Nat OBVIOUS
  <2>1. m \in (0 .. MaxLen) \X (0 .. MaxLen) BY EvBevAssumption DEF EvBevAssumption
  <2> QED BY <2>1, EvBevAssumption DEF EvBevAssumption
<1>2. \A c \in Cfgs : Burst[c] \in Nat /\ c # NoCfg
  BY EvBevAssumption DEF EvBevAssumption
<1> QED BY <1>1, <1>2, EvBevAssumption DEF EvBevAssumption

\* A set of numbers has a least one: induction, for what follows.
LEMMA LeastOne ==
  ASSUME NEW S \in SUBSET Nat, NEW n \in S
  PROVE  \E m \in S : \A k \in S : m <= k
<1>1. S # {} /\ S \subseteq Nat OBVIOUS
<1>2. PICK m \in S : \A k \in S : ~(<<k, m>> \in OpToRel(<, Nat))
  BY <1>1, WFMin, NatLessThanWellFounded
<1>3. \A k \in S : ~(k < m) BY <1>2 DEF OpToRel
<1> QED BY <1>3

---------------------------------------------------------------------------
(* Types                                                                   *)

Kinds == {"R", "W", "T", "D"}
Reasons == {"WM", "BW", "GROUP", "LOOKUP"}
Bev == [st : {"unused", "live", "freed"}, own : BOOLEAN, refcnt : Int,
        final : SUBSET Kinds, cbs : BOOLEAN, enabled : SUBSET D,
        susp : [D -> SUBSET Reasons], pend : SUBSET {"R", "W", "T"}, due : BOOLEAN,
        tv : SUBSET D, len : [D -> Int], low : [D -> Int], high : Int,
        sock : {"none", "trying", "up", "refused", "dead"}, connecting : BOOLEAN,
        refused : BOOLEAN, lookup : {"no", "pending", "cancelled"}, greet : BOOLEAN,
        tell : SUBSET (Events \cup {"read", "write"}), cfg : Cfgs \cup {NoCfg},
        limit : [D -> Int], owed : Nat]
Grp == [members : SUBSET Bevs, limit : [D -> Int], suspended : SUBSET D, again : SUBSET D,
        owed : Nat, due : BOOLEAN]
Entries == [b : Bevs \cup {None}, k : Kinds \cup {"free", "G"},
            what : {"none", "io", "timeout"} \cup Kinds]
Worlds == [bev : [Bevs -> Bev], grp : Grp, queue : Seq(Entries)]

Tasks(q) == {q[i] : i \in DOMAIN q}
Apart(q) == \A i, j \in DOMAIN q : q[i].b = q[j].b /\ q[i].k = q[j].k => i = j

LEMMA Directions == D = {"R", "W"} /\ "R" \in D /\ "W" \in D /\ "T" \notin D
BY DEF D

\* A bufferevent of the world is replaced.
LEMMA Put ==
  ASSUME NEW w \in Worlds, NEW b \in Bevs, NEW v \in Bev, NEW x, x = [w EXCEPT !.bev[b] = v]
  PROVE  /\ x \in Worlds /\ x.grp = w.grp /\ x.queue = w.queue /\ x.bev[b] = v
         /\ \A c \in Bevs \ {b} : x.bev[c] = w.bev[c]
BY DEF Worlds

\* The length of a buffer is a number.
LEMMA Lengths ==
  ASSUME NEW w \in Worlds, NEW b \in Bevs
  PROVE  w.bev[b].len["R"] \in Int /\ w.bev[b].len["W"] \in Int
<1>1. w.bev[b] \in Bev BY DEF Worlds
<1>2. w.bev[b].len \in [D -> Int] BY <1>1 DEF Bev
<1> QED BY <1>2, Directions

\* The queue without its i-th entry
LEMMA Without ==
  ASSUME NEW q \in Seq(Entries), NEW i \in DOMAIN q, NEW p, p = RemoveAt(q, i)
  PROVE  /\ p \in Seq(Entries) /\ Tasks(p) \subseteq Tasks(q)
         /\ \A e \in Tasks(q) : e # q[i] => e \in Tasks(p)
         /\ Apart(q) => Apart(p) /\ \A e \in Tasks(p) : e.b # q[i].b \/ e.k # q[i].k
<1>1. Len(q) \in Nat /\ i \in 1 .. Len(q) /\ DOMAIN q = 1 .. Len(q) OBVIOUS
<1>2. PICK s, t : s = SubSeq(q, 1, i - 1) /\ t = SubSeq(q, i + 1, Len(q)) OBVIOUS
<1>3. /\ s \in Seq(Entries) /\ t \in Seq(Entries) /\ Len(s) = i - 1 /\ Len(t) = Len(q) - i
      /\ \A j \in 1 .. i - 1 : s[j] = q[j]
      /\ \A j \in 1 .. Len(q) - i : t[j] = q[i + j]
  <2>1. /\ s \in Seq(Entries) /\ Len(s) = i - 1
        /\ \A j \in 1 .. i - 1 : s[j] = q[j]
    BY <1>1, <1>2
  <2>2. t \in Seq(Entries) /\ Len(t) = Len(q) - i BY <1>1, <1>2
  <2>3. ASSUME NEW j \in 1 .. Len(q) - i PROVE t[j] = q[i + j]
    <3>1. i + 1 + j - 1 = i + j /\ Len(q) + 1 - (i + 1) = Len(q) - i BY <1>1
    <3> QED BY <1>1, <1>2, <3>1
  <2> QED BY <2>1, <2>2, <2>3
<1>10. p = s \o t BY <1>2 DEF RemoveAt
<1>11. i - 1 \in Nat /\ Len(q) - i \in Nat /\ (i - 1) + (Len(q) - i) = Len(q) - 1 BY <1>1
<1>4. p \in Seq(Entries) /\ Len(p) = Len(q) - 1
  <2>1. s \in Seq(Entries) /\ t \in Seq(Entries) /\ Len(s) + Len(t) = Len(q) - 1
    BY <1>3, <1>11
  <2> QED BY <1>10, <2>1
<1>5. \A j \in 1 .. Len(q) - 1 : p[j] = IF j < i THEN q[j] ELSE q[j + 1]
  <2> SUFFICES ASSUME NEW j \in 1 .. Len(q) - 1 PROVE p[j] = IF j < i THEN q[j] ELSE q[j + 1]
    OBVIOUS
  <2>1. p[j] = IF j <= i - 1 THEN s[j] ELSE t[j - (i - 1)]
    <3>1. s \in Seq(Entries) /\ t \in Seq(Entries) BY <1>3
    <3>2. j \in 1 .. Len(s) + Len(t) BY <1>3, <1>11
    <3>3. (s \o t)[j] = IF j <= Len(s) THEN s[j] ELSE t[j - Len(s)] BY <3>1, <3>2
    <3> QED BY <1>3, <1>10, <3>3
  <2>2. CASE j < i BY <1>1, <1>3, <2>1, <2>2
  <2>3. CASE ~(j < i)
    <3>1. j - (i - 1) \in 1 .. Len(q) - i BY <1>1, <2>3
    <3>2. p[j] = t[j - (i - 1)] BY <1>1, <2>1, <2>3
    <3>3. i + (j - (i - 1)) = j + 1 BY <1>1
    <3> QED BY <1>3, <2>3, <3>1, <3>2, <3>3
  <2> QED BY <2>2, <2>3
<1>6. DOMAIN p = 1 .. Len(q) - 1 BY <1>4
<1>7. Tasks(p) \subseteq Tasks(q) BY <1>1, <1>5, <1>6 DEF Tasks
<1>8. \A e \in Tasks(q) : e # q[i] => e \in Tasks(p)
  <2> SUFFICES ASSUME NEW j \in 1 .. Len(q), q[j] # q[i] PROVE q[j] \in Tasks(p)
    BY <1>1 DEF Tasks
  <2>1. CASE j < i BY <1>1, <1>5, <1>6, <2>1 DEF Tasks
  <2>2. CASE ~(j < i)
    <3>1. j - 1 \in 1 .. Len(q) - 1 /\ ~(j - 1 < i) /\ (j - 1) + 1 = j BY <1>1, <2>2
    <3>2. p[j - 1] = q[j] BY <1>5, <3>1
    <3> QED BY <1>6, <3>1, <3>2 DEF Tasks
  <2> QED BY <2>1, <2>2
<1>9. ASSUME Apart(q) PROVE Apart(p)
  <2> SUFFICES ASSUME NEW j \in 1 .. Len(q) - 1, NEW m \in 1 .. Len(q) - 1,
                      p[j].b = p[m].b, p[j].k = p[m].k
               PROVE  j = m
    BY <1>6 DEF Apart
  <2> DEFINE at(n) == IF n < i THEN n ELSE n + 1
  <2>1. p[j] = q[at(j)] /\ p[m] = q[at(m)] BY <1>1, <1>5
  <2>2. at(j) \in DOMAIN q /\ at(m) \in DOMAIN q BY <1>1
  <2>3. at(j) = at(m) BY <1>9, <2>1, <2>2 DEF Apart
  <2> QED BY <2>3
<1>12. ASSUME Apart(q), NEW e \in Tasks(p) PROVE e.b # q[i].b \/ e.k # q[i].k
  <2>1. PICK j \in 1 .. Len(q) - 1 : e = p[j] BY <1>6 DEF Tasks
  <2>2. PICK m \in DOMAIN q : e = q[m] /\ m # i BY <1>1, <1>5, <2>1
  <2> QED BY <1>12, <2>2 DEF Apart
<1> QED BY <1>4, <1>7, <1>8, <1>9, <1>12

\* The queue with one more entry
LEMMA With ==
  ASSUME NEW q \in Seq(Entries), NEW e \in Entries, NEW p, p = Append(q, e)
  PROVE  /\ p \in Seq(Entries) /\ Tasks(p) = Tasks(q) \cup {e}
         /\ Apart(q) /\ (\A f \in Tasks(q) : f.b # e.b \/ f.k # e.k) => Apart(p)
<1>1. /\ Len(q) \in Nat /\ DOMAIN q = 1 .. Len(q) /\ p \in Seq(Entries)
      /\ DOMAIN p = 1 .. Len(q) + 1 /\ p[Len(q) + 1] = e
      /\ \A i \in 1 .. Len(q) : p[i] = q[i]
  OBVIOUS
<1>2. Tasks(p) = Tasks(q) \cup {e}
  <2>1. Tasks(p) \subseteq Tasks(q) \cup {e}
    <3> SUFFICES ASSUME NEW i \in 1 .. Len(q) + 1 PROVE p[i] \in Tasks(q) \cup {e}
      BY <1>1 DEF Tasks
    <3> QED BY <1>1 DEF Tasks
  <2>2. \A i \in DOMAIN q : i \in DOMAIN p /\ p[i] = q[i] BY <1>1
  <2>3. Tasks(q) \subseteq Tasks(p) BY <2>2 DEF Tasks
  <2>4. e \in Tasks(p) BY <1>1 DEF Tasks
  <2> QED BY <2>1, <2>3, <2>4
<1>3. ASSUME Apart(q), \A f \in Tasks(q) : f.b # e.b \/ f.k # e.k PROVE Apart(p)
  <2>1. \A i \in DOMAIN q : q[i].b # e.b \/ q[i].k # e.k BY <1>3 DEF Tasks
  <2> QED BY <1>1, <1>3, <2>1 DEF Apart
<1> QED BY <1>1, <1>2, <1>3

\* The queue without its first entry
LEMMA Rest ==
  ASSUME NEW q \in Seq(Entries), q # << >>, NEW p, p = Tail(q)
  PROVE  /\ p \in Seq(Entries) /\ Head(q) \in Entries /\ Head(q) \in Tasks(q)
         /\ Tasks(p) \subseteq Tasks(q) /\ Tasks(q) \subseteq Tasks(p) \cup {Head(q)}
         /\ Apart(q) => /\ Apart(p)
                        /\ \A f \in Tasks(p) : f.b # Head(q).b \/ f.k # Head(q).k
<1>1. /\ Len(q) \in Nat \ {0} /\ DOMAIN q = 1 .. Len(q) /\ p \in Seq(Entries)
      /\ DOMAIN p = 1 .. Len(q) - 1 /\ Head(q) = q[1] /\ Head(q) \in Entries
      /\ \A i \in 1 .. Len(q) - 1 : p[i] = q[i + 1] /\ i + 1 \in DOMAIN q
  OBVIOUS
<1>2. Tasks(p) \subseteq Tasks(q) BY <1>1 DEF Tasks
<1>3. Head(q) \in Tasks(q) BY <1>1 DEF Tasks
<1>4. Tasks(q) \subseteq Tasks(p) \cup {Head(q)}
  <2> SUFFICES ASSUME NEW i \in 1 .. Len(q), i # 1 PROVE q[i] \in Tasks(p)
    BY <1>1 DEF Tasks
  <2>1. i - 1 \in DOMAIN p /\ (i - 1) + 1 = i BY <1>1
  <2>2. p[i - 1] = q[i] BY <1>1, <2>1
  <2> QED BY <2>1, <2>2 DEF Tasks
<1>5. ASSUME Apart(q) PROVE Apart(p)
  <2> SUFFICES ASSUME NEW i \in 1 .. Len(q) - 1, NEW j \in 1 .. Len(q) - 1,
                      p[i].b = p[j].b, p[i].k = p[j].k
               PROVE  i = j
    BY <1>1 DEF Apart
  <2>1. i + 1 = j + 1 BY <1>1, <1>5 DEF Apart
  <2> QED BY <2>1
<1>6. ASSUME Apart(q), NEW f \in Tasks(p) PROVE f.b # Head(q).b \/ f.k # Head(q).k
  <2>1. PICK i \in DOMAIN p : f = p[i] BY DEF Tasks
  <2>2. i + 1 \in DOMAIN q /\ f = q[i + 1] /\ i + 1 # 1 /\ 1 \in DOMAIN q BY <1>1, <2>1
  <2> QED BY <1>1, <1>6, <2>2 DEF Apart
<1> QED BY <1>1, <1>2, <1>3, <1>4, <1>5, <1>6

---------------------------------------------------------------------------
(* What a function that is called for b leaves as it was                   *)

\* What only calls of the program and the last release change, and the bytes
Keeps(u, v) ==
  /\ u.st = v.st /\ u.own = v.own /\ u.final = v.final /\ u.cbs = v.cbs
  /\ u.lookup = "no" <=> v.lookup = "no"
  /\ v.due = TRUE => u.due = TRUE
  /\ u.final = Kinds => u.pend = v.pend
Same(u, v) == Keeps(u, v) /\ u.len = v.len

Deferred(w, c) == \E e \in Tasks(w.queue) : e.b = c /\ e.k = "D"
\* The references but for that of the deferred callback
Refs(w, c) == w.bev[c].refcnt - (IF Deferred(w, c) THEN 1 ELSE 0)

DEntry(b) == [b |-> b, k |-> "D", what |-> "none"]

Does(w, x, b) ==
  /\ x \in Worlds /\ x.grp.members = w.grp.members
  /\ \A c \in Bevs : Same(w.bev[c], x.bev[c]) /\ Refs(x, c) = Refs(w, c)
  /\ \A c \in Bevs \ (w.grp.members \cup {b}) : x.bev[c] = w.bev[c]
  /\ Apart(w.queue) => Apart(x.queue)
  /\ \A e \in Tasks(x.queue) : e \in Tasks(w.queue) \/ (e = DEntry(b) /\ w.bev[b].cbs = TRUE)
  /\ \A e \in Tasks(w.queue) : e.k \in {"D", "free", "G"} => e \in Tasks(x.queue)

Quiet(w, x, b) == Does(w, x, b) /\ Tasks(x.queue) \subseteq Tasks(w.queue)

LEMMA Twice ==
  ASSUME NEW w, NEW x, NEW y, NEW b \in Bevs, Does(w, x, b), Does(x, y, b)
  PROVE  Does(w, y, b)
<1>1. \A c \in Bevs : Same(w.bev[c], y.bev[c]) BY DEF Does, Same, Keeps
<1>2. \A c \in Bevs : Refs(y, c) = Refs(w, c) BY DEF Does
<1>3. x.bev[b].cbs = w.bev[b].cbs BY DEF Does, Same, Keeps
<1>4. \A e \in Tasks(y.queue) : e \in Tasks(w.queue) \/ (e = DEntry(b) /\ w.bev[b].cbs = TRUE)
  BY <1>3 DEF Does
<1> QED BY <1>1, <1>2, <1>4 DEF Does

LEMMA QuietTwice ==
  ASSUME NEW w, NEW x, NEW y, NEW b, Quiet(w, x, b), Quiet(x, y, b)
  PROVE  Quiet(w, y, b)
<1>1. \A c \in Bevs : Same(w.bev[c], y.bev[c]) BY DEF Quiet, Does, Same, Keeps
<1>2. \A c \in Bevs : Refs(y, c) = Refs(w, c) BY DEF Quiet, Does
<1> QED BY <1>1, <1>2 DEF Quiet, Does

LEMMA Nothing == ASSUME NEW w \in Worlds, NEW b PROVE Quiet(w, w, b)
BY DEF Quiet, Does, Same, Keeps

\* A member of the group is touched on behalf of another.
LEMMA OfMember ==
  ASSUME NEW w, NEW x, NEW b, NEW c \in w.grp.members, Quiet(w, x, c)
  PROVE  Quiet(w, x, b)
BY DEF Quiet, Does

LEMMA Touch ==
  ASSUME NEW w \in Worlds, NEW b \in Bevs, NEW v \in Bev, NEW x, x = [w EXCEPT !.bev[b] = v],
         Same(w.bev[b], v), v.refcnt = w.bev[b].refcnt
  PROVE  Quiet(w, x, b)
<1>1. /\ x \in Worlds /\ x.grp = w.grp /\ x.queue = w.queue /\ x.bev[b] = v
      /\ \A c \in Bevs \ {b} : x.bev[c] = w.bev[c]
  BY DEF Worlds
<1>2. \A c \in Bevs : Same(w.bev[c], x.bev[c]) /\ x.bev[c].refcnt = w.bev[c].refcnt
  BY <1>1 DEF Same, Keeps
<1>3. \A c \in Bevs : Refs(x, c) = Refs(w, c) BY <1>1, <1>2 DEF Refs, Deferred
<1> QED BY <1>1, <1>2, <1>3 DEF Quiet, Does

LEMMA DequeueQuiet ==
  ASSUME NEW w \in Worlds, NEW b \in Bevs, NEW k \in {"R", "W", "T"}, NEW x, x = Dequeue(w, b, k)
  PROVE  /\ Quiet(w, x, b) /\ x.bev = w.bev /\ x.grp = w.grp
         /\ Apart(w.queue) => \A e \in Tasks(x.queue) : e.b # b \/ e.k # k
<1>1. CASE ~Queued(w, b, k)
  <2>1. x = w BY <1>1 DEF Dequeue
  <2>2. \A e \in Tasks(w.queue) : e.b # b \/ e.k # k BY <1>1 DEF Queued, Tasks
  <2> QED BY <2>1, <2>2, Nothing
<1>2. CASE Queued(w, b, k)
  <2> DEFINE i == CHOOSE j \in DOMAIN w.queue : w.queue[j].b = b /\ w.queue[j].k = k
  <2>1. i \in DOMAIN w.queue /\ w.queue[i].b = b /\ w.queue[i].k = k BY <1>2 DEF Queued
  <2>2. PICK p : p = RemoveAt(w.queue, i) OBVIOUS
  <2>3. x = [w EXCEPT !.queue = p] BY <1>2, <2>2 DEF Dequeue
  <2> HIDE DEF i
  <2>4. w.queue \in Seq(Entries) BY DEF Worlds
  <2>5. /\ p \in Seq(Entries) /\ Tasks(p) \subseteq Tasks(w.queue)
        /\ \A e \in Tasks(w.queue) : e # w.queue[i] => e \in Tasks(p)
        /\ Apart(w.queue) => /\ Apart(p)
                             /\ \A e \in Tasks(p) : e.b # w.queue[i].b \/ e.k # w.queue[i].k
    BY <2>1, <2>2, <2>4, Without
  <2>6. x \in Worlds /\ x.bev = w.bev /\ x.grp = w.grp /\ x.queue = p BY <2>3, <2>5 DEF Worlds
  <2>7. \A e \in Tasks(w.queue) : e.k \in {"D", "free", "G"} => e \in Tasks(x.queue)
    BY <2>1, <2>5, <2>6
  <2>8. \A c \in Bevs : Deferred(x, c) <=> Deferred(w, c)
    BY <2>5, <2>6, <2>7 DEF Deferred
  <2>9. \A c \in Bevs : Refs(x, c) = Refs(w, c) BY <2>6, <2>8 DEF Refs
  <2>10. Apart(w.queue) => \A e \in Tasks(x.queue) : e.b # b \/ e.k # k BY <2>1, <2>5, <2>6
  <2> QED BY <2>5, <2>6, <2>7, <2>9, <2>10 DEF Quiet, Does, Same, Keeps
<1> QED BY <1>1, <1>2

LEMMA AddQuiet ==
  ASSUME NEW w \in Worlds, NEW b \in Bevs, NEW k \in {"R", "W", "T"}, NEW x, x = Add(w, b, k)
  PROVE  Quiet(w, x, b) /\ x.grp = w.grp /\ x.bev[b].susp = w.bev[b].susp
<1> USE DEF Kinds
<1>0. w.bev[b] \in Bev BY DEF Worlds
<1>1. CASE k \in w.bev[b].final BY <1>1, Nothing DEF Add
<1>2. CASE k \notin w.bev[b].final /\ k = "T"
  <2>1. PICK y : y = Dequeue(w, b, k) OBVIOUS
  <2>2. Quiet(w, y, b) /\ y.bev = w.bev /\ y.grp = w.grp BY <2>1, DequeueQuiet
  <2>3. y \in Worlds BY <2>2 DEF Quiet, Does
  <2>4. PICK v : v = [w.bev[b] EXCEPT !.pend = @ \cup {k}, !.due = FALSE] OBVIOUS
  <2>5. v \in Bev /\ Same(w.bev[b], v) /\ v.refcnt = w.bev[b].refcnt /\ v.susp = w.bev[b].susp
    <3>1. PICK p : p = w.bev[b].pend \cup {k} OBVIOUS
    <3>2. p \in SUBSET {"R", "W", "T"} BY <1>0, <1>2, <3>1 DEF Bev
    <3>3. v = [w.bev[b] EXCEPT !.pend = p, !.due = FALSE] BY <2>4, <3>1
    <3>4. v \in Bev BY <1>0, <3>2, <3>3 DEF Bev
    <3>5. Same(w.bev[b], v) BY <1>0, <1>2, <2>4 DEF Bev, Same, Keeps
    <3>6. v.refcnt = w.bev[b].refcnt /\ v.susp = w.bev[b].susp BY <1>0, <2>4 DEF Bev
    <3> QED BY <3>4, <3>5, <3>6
  <2>6. x = [y EXCEPT !.bev[b] = v] BY <1>2, <2>1, <2>2, <2>3, <2>4 DEF Add, Worlds
  <2>7. Quiet(y, x, b) BY <2>2, <2>3, <2>5, <2>6, Touch
  <2>8. x.grp = y.grp /\ x.bev[b] = v BY <2>3, <2>5, <2>6 DEF Worlds
  <2> QED BY <2>2, <2>5, <2>7, <2>8, QuietTwice
<1>3. CASE k \notin w.bev[b].final /\ k # "T"
  <2>4. PICK v : v = [w.bev[b] EXCEPT !.pend = @ \cup {k}] OBVIOUS
  <2>5. v \in Bev /\ Same(w.bev[b], v) /\ v.refcnt = w.bev[b].refcnt /\ v.susp = w.bev[b].susp
    BY <1>0, <1>3, <2>4 DEF Bev, Same, Keeps
  <2>6. x = [w EXCEPT !.bev[b] = v] BY <1>3, <2>4 DEF Add
  <2>7. Quiet(w, x, b) BY <2>5, <2>6, Touch
  <2> QED BY <2>5, <2>6, <2>7, Put
<1> QED BY <1>1, <1>2, <1>3

\* Nothing of the event is left.
Cleared(w, x, b, k) ==
  k \notin w.bev[b].final =>
    /\ x.bev[b].pend = w.bev[b].pend \ {k}
    /\ k = "T" => x.bev[b].due = FALSE
    /\ Apart(w.queue) => \A e \in Tasks(x.queue) : e.b # b \/ e.k # k

LEMMA DelQuiet ==
  ASSUME NEW w \in Worlds, NEW b \in Bevs, NEW k \in {"R", "W", "T"}, NEW x, x = Del(w, b, k)
  PROVE  /\ Quiet(w, x, b) /\ x.grp = w.grp /\ x.bev[b].susp = w.bev[b].susp
         /\ Cleared(w, x, b, k)
<1> USE DEF Kinds
<1>0. w.bev[b] \in Bev BY DEF Worlds
<1>1. CASE k \in w.bev[b].final BY <1>1, Nothing DEF Del, Cleared
<1>2. CASE k \notin w.bev[b].final
  <2>1. PICK y : y = Dequeue(w, b, k) OBVIOUS
  <2>2. /\ Quiet(w, y, b) /\ y.bev = w.bev /\ y.grp = w.grp
        /\ Apart(w.queue) => \A e \in Tasks(y.queue) : e.b # b \/ e.k # k
    BY <2>1, DequeueQuiet
  <2>3. y \in Worlds BY <2>2 DEF Quiet, Does
  <2>4. PICK v : v = [w.bev[b] EXCEPT !.pend = @ \ {k},
                                      !.due = IF k = "T" THEN FALSE ELSE @]
    OBVIOUS
  <2>5. /\ v \in Bev /\ Same(w.bev[b], v) /\ v.refcnt = w.bev[b].refcnt
        /\ v.susp = w.bev[b].susp /\ v.pend = w.bev[b].pend \ {k}
        /\ k = "T" => v.due = FALSE
    <3>1. PICK p : p = w.bev[b].pend \ {k} OBVIOUS
    <3>2. PICK g : g = IF k = "T" THEN FALSE ELSE w.bev[b].due OBVIOUS
    <3>3. p \in SUBSET {"R", "W", "T"} /\ g \in BOOLEAN /\ (g = TRUE => w.bev[b].due = TRUE)
      BY <1>0, <3>1, <3>2 DEF Bev
    <3>4. v = [w.bev[b] EXCEPT !.pend = p, !.due = g] BY <2>4, <3>1, <3>2
    <3>5. v \in Bev BY <1>0, <3>3, <3>4 DEF Bev
    <3>6. /\ v.refcnt = w.bev[b].refcnt /\ v.susp = w.bev[b].susp /\ v.pend = p /\ v.due = g
      BY <1>0, <3>4 DEF Bev
    <3>7. w.bev[b].final # Kinds BY <1>2
    <3>8. Same(w.bev[b], v) BY <1>0, <3>3, <3>4, <3>7 DEF Bev, Same, Keeps
    <3> QED BY <3>1, <3>2, <3>5, <3>6, <3>8
  <2>6. x = [y EXCEPT !.bev[b] = v] BY <1>2, <2>1, <2>2, <2>3, <2>4 DEF Del, Worlds
  <2>7. Quiet(y, x, b) BY <2>2, <2>3, <2>5, <2>6, Touch
  <2>8. x.grp = y.grp /\ x.bev[b] = v /\ x.queue = y.queue BY <2>3, <2>5, <2>6 DEF Worlds
  <2>9. Cleared(w, x, b, k) BY <2>2, <2>5, <2>8 DEF Cleared
  <2> QED BY <2>2, <2>5, <2>7, <2>8, <2>9, QuietTwice
<1> QED BY <1>1, <1>2

LEMMA SockEnableQuiet ==
  ASSUME NEW w \in Worlds, NEW b \in Bevs, NEW ds, NEW x, x = SockEnable(w, b, ds)
  PROVE  Quiet(w, x, b) /\ x.grp = w.grp /\ x.bev[b].susp = w.bev[b].susp
<1>1. PICK r : r = IF "R" \in ds THEN Add(w, b, "R") ELSE w OBVIOUS
<1>2. Quiet(w, r, b) /\ r.grp = w.grp /\ r.bev[b].susp = w.bev[b].susp
  BY <1>1, AddQuiet, Nothing
<1>3. r \in Worlds BY <1>2 DEF Quiet, Does
<1>4. x = IF "W" \in ds THEN Add(r, b, "W") ELSE r BY <1>1 DEF SockEnable, InTurn
<1>5. Quiet(r, x, b) /\ x.grp = r.grp /\ x.bev[b].susp = r.bev[b].susp
  BY <1>3, <1>4, AddQuiet, Nothing
<1> QED BY <1>2, <1>5, QuietTwice

LEMMA SockDisableQuiet ==
  ASSUME NEW w \in Worlds, NEW b \in Bevs, NEW ds, NEW x, x = SockDisable(w, b, ds)
  PROVE  Quiet(w, x, b) /\ x.grp = w.grp /\ x.bev[b].susp = w.bev[b].susp
<1>0. PICK es : es = IF w.bev[b].connecting THEN ds \ {"W"} ELSE ds OBVIOUS
<1>1. PICK r : r = IF "R" \in es THEN Del(w, b, "R") ELSE w OBVIOUS
<1>2. Quiet(w, r, b) /\ r.grp = w.grp /\ r.bev[b].susp = w.bev[b].susp
  BY <1>1, DelQuiet, Nothing
<1>3. r \in Worlds BY <1>2 DEF Quiet, Does
<1>4. x = IF "W" \in es THEN Del(r, b, "W") ELSE r BY <1>0, <1>1 DEF SockDisable, InTurn
<1>5. Quiet(r, x, b) /\ x.grp = r.grp /\ x.bev[b].susp = r.bev[b].susp
  BY <1>3, <1>4, DelQuiet, Nothing
<1> QED BY <1>2, <1>5, QuietTwice

LEMMA SuspendQuiet ==
  ASSUME NEW w \in Worlds, NEW b \in Bevs, NEW d \in D, NEW why \in Reasons,
         NEW x, x = Suspend(w, b, d, why)
  PROVE  Quiet(w, x, b) /\ x.grp = w.grp /\ why \in x.bev[b].susp[d]
<1>1. PICK y : y = IF w.bev[b].susp[d] = {} THEN SockDisable(w, b, {d}) ELSE w OBVIOUS
<1>2. Quiet(w, y, b) /\ y.grp = w.grp BY <1>1, SockDisableQuiet, Nothing
<1>3. y \in Worlds /\ y.bev[b] \in Bev BY <1>2 DEF Quiet, Does, Worlds
<1>4. PICK v : v = [y.bev[b] EXCEPT !.susp[d] = @ \cup {why}] OBVIOUS
<1>5. v \in Bev /\ Same(y.bev[b], v) /\ v.refcnt = y.bev[b].refcnt /\ why \in v.susp[d]
  <2>1. y.bev[b].susp \in [D -> SUBSET Reasons] BY <1>3 DEF Bev
  <2>2. PICK s : s = [y.bev[b].susp EXCEPT ![d] = @ \cup {why}] OBVIOUS
  <2>3. s \in [D -> SUBSET Reasons] /\ why \in s[d] BY <2>1, <2>2
  <2>4. v = [y.bev[b] EXCEPT !.susp = s] BY <1>4, <2>2
  <2>5. v \in Bev /\ v.susp = s BY <1>3, <2>3, <2>4 DEF Bev
  <2>6. Same(y.bev[b], v) /\ v.refcnt = y.bev[b].refcnt BY <1>3, <2>4 DEF Bev, Same, Keeps
  <2> QED BY <2>3, <2>5, <2>6
<1>6. x = [y EXCEPT !.bev[b] = v] BY <1>1, <1>4 DEF Suspend
<1>7. Quiet(y, x, b) BY <1>3, <1>5, <1>6, Touch
<1>8. x.grp = y.grp /\ x.bev[b] = v BY <1>3, <1>5, <1>6 DEF Worlds
<1> QED BY <1>2, <1>5, <1>7, <1>8, QuietTwice

LEMMA UnsuspendQuiet ==
  ASSUME NEW w \in Worlds, NEW b \in Bevs, NEW d \in D, NEW why, NEW x, x = Unsuspend(w, b, d, why)
  PROVE  Quiet(w, x, b) /\ x.grp = w.grp
<1>0. w.bev[b] \in Bev BY DEF Worlds
<1>1. PICK v : v = [w.bev[b] EXCEPT !.susp[d] = @ \ {why}] OBVIOUS
<1>2. v \in Bev /\ Same(w.bev[b], v) /\ v.refcnt = w.bev[b].refcnt
  BY <1>0, <1>1 DEF Bev, Same, Keeps
<1>3. PICK y : y = [w EXCEPT !.bev[b] = v] OBVIOUS
<1>4. Quiet(w, y, b) BY <1>2, <1>3, Touch
<1>5. y.grp = w.grp /\ y \in Worlds BY <1>2, <1>3 DEF Worlds
<1>6. y = [w EXCEPT !.bev[b].susp[d] = @ \ {why}] BY <1>1, <1>3
<1>7. x = IF y.bev[b].susp[d] = {} /\ d \in y.bev[b].enabled THEN SockEnable(y, b, {d}) ELSE y
  BY <1>6 DEF Unsuspend
<1>8. Quiet(y, x, b) /\ x.grp = y.grp BY <1>5, <1>7, SockEnableQuiet, Nothing
<1> QED BY <1>4, <1>5, <1>8, QuietTwice

LEMMA SuspendAllQuiet ==
  ASSUME NEW w \in Worlds, NEW b \in Bevs, NEW ds, NEW why \in Reasons,
         NEW x, x = SuspendAll(w, b, ds, why)
  PROVE  Quiet(w, x, b) /\ x.grp = w.grp
<1>1. PICK r : r = IF "R" \in ds THEN Suspend(w, b, "R", why) ELSE w OBVIOUS
<1>2. Quiet(w, r, b) /\ r.grp = w.grp BY <1>1, SuspendQuiet, Nothing, Directions
<1>3. r \in Worlds BY <1>2 DEF Quiet, Does
<1>4. x = IF "W" \in ds THEN Suspend(r, b, "W", why) ELSE r BY <1>1 DEF SuspendAll, InTurn
<1>5. Quiet(r, x, b) /\ x.grp = r.grp BY <1>3, <1>4, SuspendQuiet, Nothing, Directions
<1> QED BY <1>2, <1>5, QuietTwice

LEMMA UnsuspendAllQuiet ==
  ASSUME NEW w \in Worlds, NEW b \in Bevs, NEW ds, NEW why, NEW x, x = UnsuspendAll(w, b, ds, why)
  PROVE  Quiet(w, x, b) /\ x.grp = w.grp
<1>1. PICK r : r = IF "R" \in ds THEN Unsuspend(w, b, "R", why) ELSE w OBVIOUS
<1>2. Quiet(w, r, b) /\ r.grp = w.grp BY <1>1, UnsuspendQuiet, Nothing, Directions
<1>3. r \in Worlds BY <1>2 DEF Quiet, Does
<1>4. x = IF "W" \in ds THEN Unsuspend(r, b, "W", why) ELSE r BY <1>1 DEF UnsuspendAll, InTurn
<1>5. Quiet(r, x, b) /\ x.grp = r.grp BY <1>3, <1>4, UnsuspendQuiet, Nothing, Directions
<1> QED BY <1>2, <1>5, QuietTwice

LEMMA EnableQuiet ==
  ASSUME NEW w \in Worlds, NEW b \in Bevs, NEW ds \in SUBSET D, NEW x, x = EnableBev(w, b, ds)
  PROVE  Quiet(w, x, b)
<1>0. w.bev[b] \in Bev BY DEF Worlds
<1>1. PICK v : v = [w.bev[b] EXCEPT !.enabled = @ \cup ds] OBVIOUS
<1>2. v \in Bev /\ Same(w.bev[b], v) /\ v.refcnt = w.bev[b].refcnt BY <1>0, <1>1 DEF Bev, Same, Keeps
<1>3. PICK y : y = [w EXCEPT !.bev[b] = v] OBVIOUS
<1>4. Quiet(w, y, b) BY <1>2, <1>3, Touch
<1>5. y \in Worlds BY <1>4 DEF Quiet, Does
<1>6. y = [w EXCEPT !.bev[b].enabled = @ \cup ds] BY <1>1, <1>3
<1>7. Quiet(y, x, b) BY <1>5, <1>6, SockEnableQuiet DEF EnableBev
<1> QED BY <1>4, <1>7, QuietTwice

LEMMA DisableQuiet ==
  ASSUME NEW w \in Worlds, NEW b \in Bevs, NEW ds \in SUBSET D, NEW x, x = DisableBev(w, b, ds)
  PROVE  Quiet(w, x, b)
<1>0. w.bev[b] \in Bev BY DEF Worlds
<1>1. PICK v : v = [w.bev[b] EXCEPT !.enabled = @ \ ds] OBVIOUS
<1>2. v \in Bev /\ Same(w.bev[b], v) /\ v.refcnt = w.bev[b].refcnt BY <1>0, <1>1 DEF Bev, Same, Keeps
<1>3. PICK y : y = [w EXCEPT !.bev[b] = v] OBVIOUS
<1>4. Quiet(w, y, b) BY <1>2, <1>3, Touch
<1>5. y \in Worlds BY <1>4 DEF Quiet, Does
<1>6. y = [w EXCEPT !.bev[b].enabled = @ \ ds] BY <1>1, <1>3
<1>7. Quiet(y, x, b) BY <1>5, <1>6, SockDisableQuiet DEF DisableBev
<1> QED BY <1>4, <1>7, QuietTwice

---------------------------------------------------------------------------
(* The callbacks that are owed                                             *)

LEMMA Known ==
  ASSUME NEW w, NEW b PROVE Queued(w, b, "D") <=> Deferred(w, b)
BY DEF Queued, Deferred, Tasks

LEMMA ScheduleDoes ==
  ASSUME NEW w \in Worlds, NEW b \in Bevs, w.bev[b].cbs = TRUE, NEW x, x = Schedule(w, b)
  PROVE  Does(w, x, b)
<1>0. w.bev[b] \in Bev BY DEF Worlds
<1>1. CASE "D" \in w.bev[b].final \/ Queued(w, b, "D")
  BY <1>1, Nothing DEF Schedule, Quiet
<1>2. CASE ~("D" \in w.bev[b].final \/ Queued(w, b, "D"))
  <2>1. PICK e : e = DEntry(b) OBVIOUS
  <2>2. e \in Entries /\ e.b = b /\ e.k = "D" BY <2>1 DEF DEntry, Entries, Kinds
  <2>3. w.queue \in Seq(Entries) BY DEF Worlds
  <2>4. ~Deferred(w, b) BY <1>2, Known
  <2>5. PICK p : p = Append(w.queue, e) OBVIOUS
  <2>6. \A f \in Tasks(w.queue) : f.b # e.b \/ f.k # e.k BY <2>2, <2>4 DEF Deferred
  <2>7. /\ p \in Seq(Entries) /\ Tasks(p) = Tasks(w.queue) \cup {e}
        /\ Apart(w.queue) => Apart(p)
    BY <2>2, <2>3, <2>5, <2>6, With
  <2>8. PICK v : v = [w.bev[b] EXCEPT !.refcnt = @ + 1] OBVIOUS
  <2>9. v \in Bev /\ Same(w.bev[b], v) /\ v.refcnt = w.bev[b].refcnt + 1
    BY <1>0, <2>8 DEF Bev, Same, Keeps
  <2>10. x = [w EXCEPT !.queue = p, !.bev[b] = v]
    BY <1>2, <2>1, <2>5, <2>8 DEF Schedule, DEntry, Entry
  <2>15. PICK y : y = [w EXCEPT !.queue = p] OBVIOUS
  <2>16. y \in Worlds /\ y.grp = w.grp /\ y.queue = p /\ y.bev = w.bev
    BY <2>7, <2>15 DEF Worlds
  <2>17. x = [y EXCEPT !.bev[b] = v] BY <2>10, <2>15
  <2>18. /\ x \in Worlds /\ x.grp = y.grp /\ x.queue = y.queue /\ x.bev[b] = v
         /\ \A c \in Bevs \ {b} : x.bev[c] = y.bev[c]
    <3>1. PICK f : f = [y.bev EXCEPT ![b] = v] OBVIOUS
    <3>2. f \in [Bevs -> Bev] /\ f[b] = v /\ \A c \in Bevs \ {b} : f[c] = y.bev[c]
      BY <2>9, <2>16, <3>1 DEF Worlds
    <3>3. x = [y EXCEPT !.bev = f] BY <2>17, <3>1
    <3> QED BY <2>16, <3>2, <3>3 DEF Worlds
  <2>11. /\ x \in Worlds /\ x.grp = w.grp /\ x.queue = p /\ x.bev[b] = v
         /\ \A c \in Bevs \ {b} : x.bev[c] = w.bev[c]
    BY <2>16, <2>18
  <2>12. \A c \in Bevs : Same(w.bev[c], x.bev[c]) BY <2>9, <2>11 DEF Same, Keeps
  <2>13. Deferred(x, b) /\ \A c \in Bevs \ {b} : Deferred(x, c) <=> Deferred(w, c)
    BY <2>2, <2>7, <2>11 DEF Deferred
  <2>14. \A c \in Bevs : Refs(x, c) = Refs(w, c)
    <3>1. Refs(x, b) = (w.bev[b].refcnt + 1) - 1 BY <2>9, <2>11, <2>13 DEF Refs
    <3>2. Refs(w, b) = w.bev[b].refcnt - 0 BY <2>4 DEF Refs
    <3>3. w.bev[b].refcnt \in Int BY <1>0 DEF Bev
    <3>4. Refs(x, b) = Refs(w, b) BY <3>1, <3>2, <3>3
    <3>5. \A c \in Bevs \ {b} : Refs(x, c) = Refs(w, c) BY <2>11, <2>13 DEF Refs
    <3> QED BY <3>4, <3>5
  <2> QED BY <2>1, <2>7, <2>11, <2>12, <2>14 DEF Does
<1> QED BY <1>1, <1>2

Whats == Events \cup {"read", "write"}

LEMMA RunCbDoes ==
  ASSUME NEW w \in Worlds, NEW b \in Bevs, NEW what \in Whats, NEW x, x = RunCb(w, b, what)
  PROVE  Does(w, x, b)
<1>0. w.bev[b] \in Bev BY DEF Worlds
<1>1. CASE w.bev[b].cbs = FALSE BY <1>1, Nothing DEF RunCb, Quiet
<1>2. CASE w.bev[b].cbs = TRUE
  <2>1. PICK v : v = [w.bev[b] EXCEPT !.tell = @ \cup {what}] OBVIOUS
  <2>2. v \in Bev /\ Same(w.bev[b], v) /\ v.refcnt = w.bev[b].refcnt /\ v.cbs = TRUE
    BY <1>0, <1>2, <2>1 DEF Bev, Same, Keeps, Whats
  <2>3. PICK y : y = [w EXCEPT !.bev[b] = v] OBVIOUS
  <2>4. Quiet(w, y, b) BY <2>2, <2>3, Touch
  <2>5. y \in Worlds BY <2>4 DEF Quiet, Does
  <2>6. y = [w EXCEPT !.bev[b].tell = @ \cup {what}] BY <2>1, <2>3
  <2>7. y.bev[b].cbs = TRUE BY <2>2, <2>3 DEF Worlds
  <2>8. x = Schedule(y, b) BY <1>2, <2>6 DEF RunCb
  <2>9. Does(y, x, b) BY <2>5, <2>7, <2>8, ScheduleDoes
  <2> QED BY <2>4, <2>9, Twice DEF Quiet
<1>3. w.bev[b].cbs \in BOOLEAN BY <1>0 DEF Bev
<1> QED BY <1>1, <1>2, <1>3

LEMMA TriggerDoes ==
  ASSUME NEW w \in Worlds, NEW b \in Bevs, NEW d, NEW x, x = Trigger(w, b, d)
  PROVE  Does(w, x, b)
<1>1. "read" \in Whats /\ "write" \in Whats BY DEF Whats
<1>2. x = RunCb(w, b, "read") \/ x = RunCb(w, b, "write") \/ x = w BY DEF Trigger
<1> QED BY <1>1, <1>2, RunCbDoes, Nothing DEF Quiet

LEMMA WmCbQuiet ==
  ASSUME NEW w \in Worlds, NEW b \in Bevs, NEW x, x = WmCb(w, b) PROVE Quiet(w, x, b)
<1>1. "WM" \in Reasons BY DEF Reasons
<1>2. x = w \/ x = Suspend(w, b, "R", "WM") \/ x = Unsuspend(w, b, "R", "WM") BY DEF WmCb
<1> QED BY <1>1, <1>2, Directions, SuspendQuiet, UnsuspendQuiet, Nothing

LEMMA OutbufCbQuiet ==
  ASSUME NEW w \in Worlds, NEW b \in Bevs, NEW x, x = OutbufCb(w, b) PROVE Quiet(w, x, b)
<1>1. x = w \/ x = Add(w, b, "W") BY DEF OutbufCb
<1> QED BY <1>1, AddQuiet, Nothing

LEMMA FailDoes ==
  ASSUME NEW w \in Worlds, NEW b \in Bevs, NEW d \in D, NEW what \in Whats,
         NEW x, x = Fail(w, b, d, what)
  PROVE  Does(w, x, b)
<1>1. PICK y : y = DisableBev(w, b, {d}) OBVIOUS
<1>2. Quiet(w, y, b) BY <1>1, DisableQuiet
<1>3. y \in Worlds BY <1>2 DEF Quiet, Does
<1>4. Does(y, x, b) BY <1>1, <1>3, RunCbDoes DEF Fail
<1> QED BY <1>2, <1>4, Twice DEF Quiet

---------------------------------------------------------------------------
(* Bandwidth                                                               *)

LEMMA RefilledType ==
  ASSUME NEW l \in Int, NEW top \in Int, NEW n \in Nat PROVE Refilled(l, top, n) \in Int
<1>1. CASE n = 0 BY <1>1 DEF Refilled
<1>2. CASE n # 0
  <2>1. l + n * Rate \in Int BY Sizes
  <2> QED BY <1>2, <2>1 DEF Refilled
<1> QED BY <1>1, <1>2

LEMMA BucketsQuiet ==
  ASSUME NEW w \in Worlds, NEW b \in Bevs, w.bev[b].cfg # NoCfg, NEW x, x = UpdateBuckets(w, b)
  PROVE  /\ Quiet(w, x, b) /\ x.grp = w.grp
         /\ x.bev[b].susp = w.bev[b].susp /\ x.bev[b].cfg = w.bev[b].cfg
         /\ x.bev[b].high = w.bev[b].high
         /\ x.bev[b].sock = w.bev[b].sock
         /\ \A d \in D : x.bev[b].limit[d]
              = Refilled(w.bev[b].limit[d], Burst[w.bev[b].cfg], w.bev[b].owed)
<1>0. w.bev[b] \in Bev BY DEF Worlds
<1>1. PICK l : l = [d \in D |-> Refilled(w.bev[b].limit[d], Burst[w.bev[b].cfg], w.bev[b].owed)]
  OBVIOUS
<1>2. \A d \in D : Refilled(w.bev[b].limit[d], Burst[w.bev[b].cfg], w.bev[b].owed) \in Int
  <2>1. w.bev[b].cfg \in Cfgs /\ w.bev[b].owed \in Nat /\ w.bev[b].limit \in [D -> Int]
    BY <1>0 DEF Bev
  <2>2. Burst[w.bev[b].cfg] \in Int BY <2>1, Sizes
  <2>3. \A d \in D : w.bev[b].limit[d] \in Int BY <2>1
  <2> QED BY <2>1, <2>2, <2>3, RefilledType
<1>3. l \in [D -> Int] BY <1>1, <1>2
<1>4. PICK v : v = [w.bev[b] EXCEPT !.limit = l, !.owed = 0] OBVIOUS
<1>5. /\ v \in Bev /\ Same(w.bev[b], v) /\ v.refcnt = w.bev[b].refcnt /\ v.limit = l
      /\ v.susp = w.bev[b].susp /\ v.cfg = w.bev[b].cfg /\ v.high = w.bev[b].high
      /\ v.sock = w.bev[b].sock
  BY <1>0, <1>3, <1>4 DEF Bev, Same, Keeps
<1>6. x = [w EXCEPT !.bev[b] = v] BY <1>1, <1>4 DEF UpdateBuckets
<1>7. Quiet(w, x, b) BY <1>5, <1>6, Touch
<1>8. x.grp = w.grp /\ x.bev[b] = v BY <1>5, <1>6 DEF Worlds
<1> QED BY <1>1, <1>5, <1>7, <1>8

LEMMA AskRlimQuiet ==
  ASSUME NEW w \in Worlds, NEW b \in Bevs, NEW d \in D, NEW x, x = AskRlim(w, b, d)
  PROVE  /\ Quiet(w, x, b) /\ x.grp = w.grp
         /\ x.bev[b].susp[d] = {} =>
              /\ w.bev[b].susp[d] = {} /\ (b \in w.grp.members => d \notin w.grp.suspended)
              /\ x.bev[b].cfg = w.bev[b].cfg /\ x.bev[b].high = w.bev[b].high
              /\ x.bev[b].sock = w.bev[b].sock
              /\ w.bev[b].cfg # NoCfg => x.bev[b].limit[d]
                   = Refilled(w.bev[b].limit[d], Burst[w.bev[b].cfg], w.bev[b].owed)
<1>1. PICK y : y = IF w.bev[b].cfg = NoCfg THEN w ELSE UpdateBuckets(w, b) OBVIOUS
<1>2. /\ Quiet(w, y, b) /\ y.grp = w.grp
      /\ y.bev[b].susp = w.bev[b].susp /\ y.bev[b].cfg = w.bev[b].cfg
      /\ y.bev[b].high = w.bev[b].high /\ y.bev[b].sock = w.bev[b].sock
      /\ w.bev[b].cfg # NoCfg => y.bev[b].limit[d]
           = Refilled(w.bev[b].limit[d], Burst[w.bev[b].cfg], w.bev[b].owed)
  BY <1>1, BucketsQuiet, Nothing
<1>3. x = IF b \in w.grp.members /\ d \in w.grp.suspended THEN Suspend(y, b, d, "GROUP") ELSE y
  BY <1>1 DEF AskRlim
<1>4. CASE b \in w.grp.members /\ d \in w.grp.suspended
  <2>1. y \in Worlds /\ "GROUP" \in Reasons BY <1>2 DEF Quiet, Does, Reasons
  <2>2. Quiet(y, x, b) /\ x.grp = y.grp /\ x.bev[b].susp[d] # {}
    BY <1>3, <1>4, <2>1, SuspendQuiet
  <2> QED BY <1>2, <2>2, QuietTwice
<1>5. CASE ~(b \in w.grp.members /\ d \in w.grp.suspended) BY <1>2, <1>3, <1>5
<1> QED BY <1>4, <1>5

\* What may be moved is within the bucket and the share of the group.
LEMMA RlimMaxBounds ==
  ASSUME NEW w \in Worlds, NEW b \in Bevs, NEW d \in D, NEW n \in Nat \ {0},
         n <= RlimMax(w, b, d)
  PROVE  /\ w.bev[b].cfg # NoCfg => n <= w.bev[b].limit[d]
         /\ b \in w.grp.members => n <= Share(w, d)
<1>0. w.bev[b] \in Bev /\ w.grp \in Grp BY DEF Worlds
<1>1. /\ OwnMax(w, b, d) \in Int
      /\ w.bev[b].cfg # NoCfg => OwnMax(w, b, d) = w.bev[b].limit[d]
  BY <1>0, Sizes DEF OwnMax, Bev
<1>2. CASE b \notin w.grp.members
  <2>1. n <= Most(OwnMax(w, b, d), 0) BY <1>2 DEF RlimMax
  <2> QED BY <1>1, <1>2, <2>1 DEF Most
<1>3. CASE b \in w.grp.members
  <2>1. d \notin w.grp.suspended /\ n <= Most(Least(OwnMax(w, b, d), Share(w, d)), 0)
    BY <1>3 DEF RlimMax
  <2>2. Cardinality(w.grp.members) \in Nat \ {0}
    <3>1. w.grp.members \in SUBSET Bevs BY <1>0 DEF Grp
    <3>2. IsFiniteSet(w.grp.members) BY <3>1, Sizes, FS_Subset
    <3> QED BY <1>3, <3>2, FS_CardinalityType, FS_EmptySet
  <2>3. w.grp.limit[d] \in Int BY <1>0 DEF Grp
  <2>4. w.grp.limit[d] \div Cardinality(w.grp.members) \in Int BY <2>2, <2>3
  <2>5. Share(w, d) \in Int BY <2>4 DEF Share, Most
  <2>6. n <= Least(OwnMax(w, b, d), Share(w, d)) BY <1>1, <2>1, <2>5 DEF Most, Least
  <2> QED BY <1>1, <2>5, <2>6 DEF Least
<1> QED BY <1>2, <1>3

\* The members of the group, one after the other: every step touches one of them.
LEMMA EachQuiet ==
  ASSUME NEW w \in Worlds, NEW b, NEW N \in Nat, NEW who, NEW g,
         g[0] = w,
         \A i \in 1 .. N : g[i - 1] \in Worlds /\ g[i - 1].grp.members = w.grp.members
           => who[i] \in w.grp.members /\ Quiet(g[i - 1], g[i], who[i])
  PROVE  Quiet(w, g[N], b)
<1> DEFINE Bad == {i \in 0 .. N : ~Quiet(w, g[i], b)}
<1> SUFFICES ASSUME N \in Bad PROVE FALSE OBVIOUS
<1>1. Bad \in SUBSET Nat OBVIOUS
<1>2. PICK m \in Bad : \A k \in Bad : m <= k BY <1>1, LeastOne
<1>3. m \in 0 .. N /\ ~Quiet(w, g[m], b) OBVIOUS
<1>4. m # 0 BY <1>3, Nothing
<1>5. m \in 1 .. N /\ m - 1 \in 0 .. N /\ m - 1 \notin Bad BY <1>2, <1>3, <1>4
<1>6. Quiet(w, g[m - 1], b) BY <1>5
<1>7. g[m - 1] \in Worlds /\ g[m - 1].grp.members = w.grp.members BY <1>6 DEF Quiet, Does
<1>8. who[m] \in g[m - 1].grp.members /\ Quiet(g[m - 1], g[m], who[m]) BY <1>5, <1>7
<1>9. Quiet(g[m - 1], g[m], b) BY <1>8, OfMember
<1> QED BY <1>3, <1>6, <1>9, QuietTwice

LEMMA Listed ==
  ASSUME NEW S, IsFiniteSet(S), NEW s, s = SetToSeq(S)
  PROVE  /\ s \in Seq(S) /\ Len(s) = Cardinality(S) /\ Tasks(s) = S
         /\ \A i, j \in DOMAIN s : s[i] = s[j] => i = j
<1>1. Cardinality(S) \in Nat BY FS_CardinalityType
<1>2. PICK f : f \in Bijection(1 .. Cardinality(S), S)
  BY FS_NatBijection, FS_CountingElements DEF ExistsBijection
<1>3. f \in [1 .. Cardinality(S) -> S] /\ IsInjective(f)
  BY <1>2 DEF Bijection, Injection, IsInjective
<1>4. s \in [1 .. Cardinality(S) -> S] /\ IsInjective(s) BY <1>3 DEF SetToSeq
<1>5. s \in Seq(S) /\ Len(s) = Cardinality(S) BY <1>1, <1>4
<1>6. \A i, j \in DOMAIN s : s[i] = s[j] => i = j BY <1>4 DEF IsInjective
<1>7. Tasks(s) = S
  <2>1. s \in Injection(1 .. Cardinality(S), Tasks(s))
    BY <1>4, <1>6 DEF Injection, IsInjective, Tasks
  <2>2. s \in Surjection(1 .. Cardinality(S), Tasks(s)) BY <1>4 DEF Surjection, Tasks
  <2>3. ExistsBijection(1 .. Cardinality(S), Tasks(s))
    BY <2>1, <2>2 DEF ExistsBijection, Bijection
  <2>4. IsFiniteSet(1 .. Cardinality(S)) /\ Cardinality(1 .. Cardinality(S)) = Cardinality(S)
    <3>1. Cardinality(1 .. Cardinality(S))
            = IF 1 > Cardinality(S) THEN 0 ELSE (Cardinality(S) - 1) + 1
      BY <1>1, FS_Interval
    <3> QED BY <1>1, <3>1, FS_Interval
  <2>5. IsFiniteSet(Tasks(s)) /\ Cardinality(Tasks(s)) = Cardinality(S)
    BY <2>3, <2>4, FS_Bijection
  <2>6. Tasks(s) \in SUBSET S BY <1>4 DEF Tasks
  <2> QED BY <2>5, <2>6, FS_Subset
<1> QED BY <1>5, <1>6, <1>7

\* The loops over the members exist.
Suspended(g, n, w, who, d) ==
  g = [i \in 0 .. n |-> IF i = 0 THEN w ELSE Suspend(g[i - 1], who[i], d, "GROUP")]
Unsuspended(g, n, w, who, d) ==
  g = [i \in 0 .. n |-> IF i = 0 THEN w ELSE Unsuspend(g[i - 1], who[i], d, "GROUP")]

LEMMA SuspendLoop ==
  ASSUME NEW w, NEW who, NEW d, NEW N \in Nat PROVE \E g : Suspended(g, N, w, who, d)
<1> DEFINE Bad == {n \in Nat : ~\E g : Suspended(g, n, w, who, d)}
<1> SUFFICES ASSUME N \in Bad PROVE FALSE OBVIOUS
<1>1. PICK m \in Bad : \A k \in Bad : m <= k BY LeastOne
<1>2. m \in Nat /\ ~\E g : Suspended(g, m, w, who, d) OBVIOUS
<1>3. CASE m = 0
  <2> DEFINE g == [i \in 0 .. 0 |-> w]
  <2>1. Suspended(g, 0, w, who, d) BY DEF Suspended
  <2> QED BY <1>2, <1>3, <2>1
<1>4. CASE m # 0
  <2>1. m - 1 \in Nat /\ m - 1 \notin Bad BY <1>1, <1>4
  <2>2. PICK f : Suspended(f, m - 1, w, who, d) BY <2>1
  <2>3. PICK g : g = [i \in 0 .. m |-> IF i < m THEN f[i]
                                       ELSE Suspend(f[m - 1], who[m], d, "GROUP")]
    OBVIOUS
  <2>4. \A i \in 0 .. m : g[i] = IF i = 0 THEN w ELSE Suspend(g[i - 1], who[i], d, "GROUP")
    <3> SUFFICES ASSUME NEW i \in 0 .. m
                 PROVE  g[i] = IF i = 0 THEN w ELSE Suspend(g[i - 1], who[i], d, "GROUP")
      OBVIOUS
    <3>1. i # 0 => g[i - 1] = f[i - 1] BY <2>1, <2>3
    <3>2. CASE i = m BY <1>4, <2>3, <3>1, <3>2
    <3>3. CASE i # m
      <4>1. i \in 0 .. m - 1 /\ g[i] = f[i] BY <2>1, <2>3, <3>3
      <4>2. f[i] = IF i = 0 THEN w ELSE Suspend(f[i - 1], who[i], d, "GROUP")
        BY <2>2, <4>1 DEF Suspended
      <4> QED BY <3>1, <4>1, <4>2
    <3> QED BY <3>2, <3>3
  <2>5. Suspended(g, m, w, who, d) BY <2>3, <2>4 DEF Suspended
  <2> QED BY <1>2, <2>5
<1> QED BY <1>3, <1>4

LEMMA UnsuspendLoop ==
  ASSUME NEW w, NEW who, NEW d, NEW N \in Nat PROVE \E g : Unsuspended(g, N, w, who, d)
<1> DEFINE Bad == {n \in Nat : ~\E g : Unsuspended(g, n, w, who, d)}
<1> SUFFICES ASSUME N \in Bad PROVE FALSE OBVIOUS
<1>1. PICK m \in Bad : \A k \in Bad : m <= k BY LeastOne
<1>2. m \in Nat /\ ~\E g : Unsuspended(g, m, w, who, d) OBVIOUS
<1>3. CASE m = 0
  <2> DEFINE g == [i \in 0 .. 0 |-> w]
  <2>1. Unsuspended(g, 0, w, who, d) BY DEF Unsuspended
  <2> QED BY <1>2, <1>3, <2>1
<1>4. CASE m # 0
  <2>1. m - 1 \in Nat /\ m - 1 \notin Bad BY <1>1, <1>4
  <2>2. PICK f : Unsuspended(f, m - 1, w, who, d) BY <2>1
  <2>3. PICK g : g = [i \in 0 .. m |-> IF i < m THEN f[i]
                                       ELSE Unsuspend(f[m - 1], who[m], d, "GROUP")]
    OBVIOUS
  <2>4. \A i \in 0 .. m : g[i] = IF i = 0 THEN w ELSE Unsuspend(g[i - 1], who[i], d, "GROUP")
    <3> SUFFICES ASSUME NEW i \in 0 .. m
                 PROVE  g[i] = IF i = 0 THEN w ELSE Unsuspend(g[i - 1], who[i], d, "GROUP")
      OBVIOUS
    <3>1. i # 0 => g[i - 1] = f[i - 1] BY <2>1, <2>3
    <3>2. CASE i = m BY <1>4, <2>3, <3>1, <3>2
    <3>3. CASE i # m
      <4>1. i \in 0 .. m - 1 /\ g[i] = f[i] BY <2>1, <2>3, <3>3
      <4>2. f[i] = IF i = 0 THEN w ELSE Unsuspend(f[i - 1], who[i], d, "GROUP")
        BY <2>2, <4>1 DEF Unsuspended
      <4> QED BY <3>1, <4>1, <4>2
    <3> QED BY <3>2, <3>3
  <2>5. Unsuspended(g, m, w, who, d) BY <2>3, <2>4 DEF Unsuspended
  <2> QED BY <1>2, <2>5
<1> QED BY <1>3, <1>4

LEMMA PutGroup ==
  ASSUME NEW w \in Worlds, NEW b, NEW g \in Grp, g.members = w.grp.members,
         NEW x, x = [w EXCEPT !.grp = g]
  PROVE  Quiet(w, x, b) /\ x.bev = w.bev /\ x.grp = g /\ x.queue = w.queue
<1>1. x \in Worlds /\ x.bev = w.bev /\ x.grp = g /\ x.queue = w.queue BY DEF Worlds
<1>2. \A c \in Bevs : Refs(x, c) = Refs(w, c) BY <1>1 DEF Refs, Deferred
<1> QED BY <1>1, <1>2 DEF Quiet, Does, Same, Keeps

\* The sequence of the members that can be locked
LEMMA Lockable ==
  ASSUME NEW w \in Worlds, NEW busy, NEW who, who = SetToSeq(w.grp.members \ busy)
  PROVE  Len(who) \in Nat /\ \A i \in 1 .. Len(who) : who[i] \in w.grp.members
<1>1. PICK S : S = w.grp.members \ busy OBVIOUS
<1>2. S \in SUBSET Bevs BY <1>1 DEF Worlds, Grp
<1>3. IsFiniteSet(S) BY <1>2, Sizes, FS_Subset
<1>4. who \in Seq(S) BY <1>1, <1>3, Listed
<1>5. \A s \in Seq(S) : Len(s) \in Nat /\ \A i \in 1 .. Len(s) : s[i] \in S OBVIOUS
<1> QED BY <1>1, <1>4, <1>5

LEMMA GroupSuspendQuiet ==
  ASSUME NEW w \in Worlds, NEW b \in Bevs, NEW d \in D, NEW busy, NEW x, x = GroupSuspend(w, d, busy)
  PROVE  Quiet(w, x, b)
<1>1. PICK g : g = [w.grp EXCEPT !.suspended = @ \cup {d}, !.again = @ \ {d}] OBVIOUS
<1>2. g \in Grp /\ g.members = w.grp.members BY <1>1 DEF Worlds, Grp
<1>3. PICK y : y = [w EXCEPT !.grp = g] OBVIOUS
<1>14. Quiet(w, y, b) BY <1>2, <1>3, PutGroup
<1>4. Quiet(w, y, b) /\ y \in Worlds BY <1>14 DEF Quiet, Does
<1>5. y = [w EXCEPT !.grp.suspended = @ \cup {d}, !.grp.again = @ \ {d}]
  BY <1>1, <1>3 DEF Worlds
<1>6. PICK who : who = SetToSeq(y.grp.members \ busy) OBVIOUS
<1>7. Len(who) \in Nat /\ \A i \in 1 .. Len(who) : who[i] \in y.grp.members
  BY <1>4, <1>6, Lockable
<1>8. PICK N \in Nat : N = Len(who) BY <1>7
<1> DEFINE after == CHOOSE h : Suspended(h, N, y, who, d)
<1>9. x = after[N]
  BY <1>5, <1>6, <1>8 DEF GroupSuspend, EachMember, Suspended
<1>10. Suspended(after, N, y, who, d) BY SuspendLoop
<1> HIDE DEF after
<1>11. /\ after[0] = y
       /\ \A i \in 1 .. N : after[i] = Suspend(after[i - 1], who[i], d, "GROUP")
  BY <1>10 DEF Suspended
<1>12. \A i \in 1 .. N : after[i - 1] \in Worlds /\ after[i - 1].grp.members = y.grp.members
         => who[i] \in y.grp.members /\ Quiet(after[i - 1], after[i], who[i])
  <2> SUFFICES ASSUME NEW i \in 1 .. N, after[i - 1] \in Worlds
               PROVE  who[i] \in y.grp.members /\ Quiet(after[i - 1], after[i], who[i])
    OBVIOUS
  <2>1. who[i] \in y.grp.members /\ who[i] \in Bevs BY <1>4, <1>7, <1>8 DEF Worlds, Grp
  <2>2. "GROUP" \in Reasons BY DEF Reasons
  <2> QED BY <1>11, <2>1, <2>2, SuspendQuiet
<1>13. Quiet(y, x, b) BY <1>4, <1>9, <1>11, <1>12, EachQuiet
<1> QED BY <1>4, <1>13, QuietTwice

LEMMA GroupUnsuspendQuiet ==
  ASSUME NEW w \in Worlds, NEW b, NEW d \in D, NEW busy, NEW x,
         x = GroupUnsuspend(w, d, busy)
  PROVE  Quiet(w, x, b)
<1>1. PICK g : g = [w.grp EXCEPT !.suspended = @ \ {d},
                                 !.again = IF busy = {} THEN @ \ {d} ELSE @ \cup {d}] OBVIOUS
<1>2. g \in Grp /\ g.members = w.grp.members BY <1>1 DEF Worlds, Grp
<1>3. PICK y : y = [w EXCEPT !.grp = g] OBVIOUS
<1>14. Quiet(w, y, b) BY <1>2, <1>3, PutGroup
<1>4. Quiet(w, y, b) /\ y \in Worlds BY <1>14 DEF Quiet, Does
<1>5. y = [w EXCEPT !.grp.suspended = @ \ {d},
                    !.grp.again = IF busy = {} THEN @ \ {d} ELSE @ \cup {d}]
  BY <1>1, <1>3 DEF Worlds
<1>6. PICK who : who = SetToSeq(y.grp.members \ busy) OBVIOUS
<1>7. Len(who) \in Nat /\ \A i \in 1 .. Len(who) : who[i] \in y.grp.members
  BY <1>4, <1>6, Lockable
<1>8. PICK N \in Nat : N = Len(who) BY <1>7
<1> DEFINE after == CHOOSE h : Unsuspended(h, N, y, who, d)
<1>9. x = after[N]
  BY <1>5, <1>6, <1>8 DEF GroupUnsuspend, EachMember, Unsuspended
<1>10. Unsuspended(after, N, y, who, d) BY UnsuspendLoop
<1> HIDE DEF after
<1>11. /\ after[0] = y
       /\ \A i \in 1 .. N : after[i] = Unsuspend(after[i - 1], who[i], d, "GROUP")
  BY <1>10 DEF Unsuspended
<1>12. \A i \in 1 .. N : after[i - 1] \in Worlds /\ after[i - 1].grp.members = y.grp.members
         => who[i] \in y.grp.members /\ Quiet(after[i - 1], after[i], who[i])
  <2> SUFFICES ASSUME NEW i \in 1 .. N, after[i - 1] \in Worlds
               PROVE  who[i] \in y.grp.members /\ Quiet(after[i - 1], after[i], who[i])
    OBVIOUS
  <2>1. who[i] \in y.grp.members /\ who[i] \in Bevs BY <1>4, <1>7, <1>8 DEF Worlds, Grp
  <2> QED BY <1>11, <2>1, UnsuspendQuiet
<1>13. Quiet(y, x, b) BY <1>4, <1>9, <1>11, <1>12, EachQuiet
<1> QED BY <1>4, <1>13, QuietTwice

\* What follows when bytes have been taken from the bucket of b
LEMMA OwnSpendQuiet ==
  ASSUME NEW w \in Worlds, NEW b \in Bevs, NEW d \in D, NEW n \in Int, NEW used,
         used = [w EXCEPT !.bev[b].limit[d] = @ - n]
  PROVE  /\ used \in Worlds /\ Quiet(w, used, b)
         /\ \A y : y = Add(Suspend(used, b, d, "BW"), b, "T") => Quiet(w, y, b)
         /\ \A y : y = Unsuspend(used, b, d, "BW") => Quiet(w, y, b)
         /\ \A y : y = Unsuspend(Del(used, b, "T"), b, d, "BW") => Quiet(w, y, b)
<1>0. w.bev[b] \in Bev BY DEF Worlds
<1>9. PICK l : l = [w.bev[b].limit EXCEPT ![d] = @ - n] OBVIOUS
<1>10. w.bev[b].limit \in [D -> Int] BY <1>0 DEF Bev
<1>11. l \in [D -> Int] BY <1>9, <1>10
<1>1. PICK v : v = [w.bev[b] EXCEPT !.limit = l] OBVIOUS
<1>2. v \in Bev /\ Same(w.bev[b], v) /\ v.refcnt = w.bev[b].refcnt
  BY <1>0, <1>1, <1>11 DEF Bev, Same, Keeps
<1>3. used = [w EXCEPT !.bev[b] = v] BY <1>1, <1>9
<1>4. Quiet(w, used, b) BY <1>2, <1>3, Touch
<1>5. used \in Worlds BY <1>4 DEF Quiet, Does
<1>6. ASSUME NEW y, y = Add(Suspend(used, b, d, "BW"), b, "T") PROVE Quiet(w, y, b)
  <2>1. PICK s : s = Suspend(used, b, d, "BW") OBVIOUS
  <2>2. "BW" \in Reasons BY DEF Reasons
  <2>3. Quiet(used, s, b) BY <1>5, <2>1, <2>2, SuspendQuiet
  <2>4. s \in Worlds BY <2>3 DEF Quiet, Does
  <2>5. Quiet(s, y, b) BY <1>6, <2>1, <2>4, AddQuiet
  <2> QED BY <1>4, <2>3, <2>5, QuietTwice
<1>7. ASSUME NEW y, y = Unsuspend(used, b, d, "BW") PROVE Quiet(w, y, b)
  BY <1>4, <1>5, <1>7, UnsuspendQuiet, QuietTwice
<1>8. ASSUME NEW y, y = Unsuspend(Del(used, b, "T"), b, d, "BW") PROVE Quiet(w, y, b)
  <2>1. PICK s : s = Del(used, b, "T") OBVIOUS
  <2>2. Quiet(used, s, b) BY <1>5, <2>1, DelQuiet
  <2>3. s \in Worlds BY <2>2 DEF Quiet, Does
  <2>4. Quiet(s, y, b) BY <1>8, <2>1, <2>3, UnsuspendQuiet
  <2> QED BY <1>4, <2>2, <2>4, QuietTwice
<1> QED BY <1>4, <1>5, <1>6, <1>7, <1>8

LEMMA SpendQuiet ==
  ASSUME NEW w \in Worlds, NEW b \in Bevs, NEW d \in D, NEW n \in Int, NEW busy,
         NEW x, x = Spend(w, b, d, n, busy)
  PROVE  Quiet(w, x, b)
<1>1. PICK used : used = [w EXCEPT !.bev[b].limit[d] = @ - n] OBVIOUS
<1>2. PICK own :
        own = CASE w.bev[b].cfg = NoCfg -> w
                [] w.bev[b].cfg # NoCfg /\ w.bev[b].limit[d] - n <= 0 ->
                     Add(Suspend(used, b, d, "BW"), b, "T")
                [] w.bev[b].cfg # NoCfg /\ w.bev[b].limit[d] - n > 0 /\ "BW" \in w.bev[b].susp[d] ->
                     Unsuspend(IF "BW" \in w.bev[b].susp[Other(d)] THEN used ELSE Del(used, b, "T"),
                               b, d, "BW")
                [] OTHER -> used
  OBVIOUS
<1>3. Quiet(w, own, b)
  <2>1. w.bev[b].cfg \in Cfgs \cup {NoCfg} /\ w.bev[b].limit[d] \in Int BY DEF Worlds, Bev
  <2>2. /\ w.bev[b].limit[d] - n <= 0 => ~(w.bev[b].limit[d] - n > 0)
        /\ w.bev[b].limit[d] - n > 0 => ~(w.bev[b].limit[d] - n <= 0)
    BY <2>1
  <2>3. CASE w.bev[b].cfg = NoCfg BY <1>2, <2>3, Nothing
  <2>4. CASE w.bev[b].cfg # NoCfg /\ w.bev[b].limit[d] - n <= 0
    <3>1. own = Add(Suspend(used, b, d, "BW"), b, "T") BY <1>2, <2>2, <2>4
    <3> QED BY <1>1, <3>1, OwnSpendQuiet
  <2>5. CASE w.bev[b].cfg # NoCfg /\ w.bev[b].limit[d] - n > 0 /\ "BW" \in w.bev[b].susp[d]
    <3>1. own = Unsuspend(used, b, d, "BW") \/ own = Unsuspend(Del(used, b, "T"), b, d, "BW")
      BY <1>2, <2>2, <2>5
    <3> QED BY <1>1, <3>1, OwnSpendQuiet
  <2>6. CASE /\ w.bev[b].cfg # NoCfg /\ ~(w.bev[b].limit[d] - n <= 0)
             /\ ~(w.bev[b].limit[d] - n > 0 /\ "BW" \in w.bev[b].susp[d])
    <3>1. own = used BY <1>2, <2>6
    <3> QED BY <1>1, <3>1, OwnSpendQuiet
  <2> QED BY <2>3, <2>4, <2>5, <2>6
<1>4. own \in Worlds BY <1>3 DEF Quiet, Does
<1>17. own.grp \in Grp /\ own.grp.limit \in [D -> Int] BY <1>4 DEF Worlds, Grp
<1>18. PICK l : l = [own.grp.limit EXCEPT ![d] = @ - n] OBVIOUS
<1>19. l \in [D -> Int] BY <1>17, <1>18
<1>20. PICK g : g = [own.grp EXCEPT !.limit = l] OBVIOUS
<1>5. g = [own.grp EXCEPT !.limit[d] = @ - n] BY <1>18, <1>20
<1>6. g \in Grp /\ g.members = own.grp.members BY <1>17, <1>19, <1>20 DEF Grp
<1>7. PICK all : all = [own EXCEPT !.grp = g] OBVIOUS
<1>8. Quiet(own, all, b) /\ all.grp = g BY <1>4, <1>6, <1>7, PutGroup
<1>9. all \in Worlds BY <1>8 DEF Quiet, Does
<1>10. all = [own EXCEPT !.grp.limit[d] = @ - n] BY <1>4, <1>5, <1>7 DEF Worlds
<1>11. x = CASE b \notin w.grp.members -> own
             [] b \in w.grp.members /\ all.grp.limit[d] <= 0 -> GroupSuspend(all, d, busy)
             [] b \in w.grp.members /\ all.grp.limit[d] > 0 /\ d \in w.grp.suspended ->
                  GroupUnsuspend(all, d, busy)
             [] OTHER -> all
  BY <1>1, <1>2, <1>10 DEF Spend
<1>12. all.grp.limit[d] \in Int BY <1>9 DEF Worlds, Grp
<1>13. /\ all.grp.limit[d] <= 0 => ~(all.grp.limit[d] > 0)
       /\ all.grp.limit[d] > 0 => ~(all.grp.limit[d] <= 0)
  BY <1>12
<1>14. x = own \/ x = all \/ x = GroupSuspend(all, d, busy) \/ x = GroupUnsuspend(all, d, busy)
  <2>1. CASE b \notin w.grp.members BY <1>11, <2>1
  <2>2. CASE b \in w.grp.members /\ all.grp.limit[d] <= 0 BY <1>11, <1>13, <2>2
  <2>3. CASE b \in w.grp.members /\ all.grp.limit[d] > 0 /\ d \in w.grp.suspended
    BY <1>11, <1>13, <2>3
  <2>4. CASE /\ b \in w.grp.members /\ ~(all.grp.limit[d] <= 0)
             /\ ~(all.grp.limit[d] > 0 /\ d \in w.grp.suspended)
    BY <1>11, <2>4
  <2> QED BY <2>1, <2>2, <2>3, <2>4
<1>15. x = own \/ x = all \/ Quiet(all, x, b)
  BY <1>9, <1>14, GroupSuspendQuiet, GroupUnsuspendQuiet
<1>16. Quiet(w, all, b) BY <1>3, <1>8, QuietTwice
<1> QED BY <1>3, <1>15, <1>16, QuietTwice

---------------------------------------------------------------------------
(* The end of a connect                                                    *)

LEMMA EndConnectDoes ==
  ASSUME NEW w \in Worlds, NEW b \in Bevs, NEW x, x = EndConnect(w, b)
  PROVE  Does(w, x, b)
<1>0. w.bev[b] \in Bev BY DEF Worlds
<1>1. PICK v : v = [w.bev[b] EXCEPT !.connecting = FALSE, !.refused = FALSE] OBVIOUS
<1>2. v \in Bev /\ Same(w.bev[b], v) /\ v.refcnt = w.bev[b].refcnt BY <1>0, <1>1 DEF Bev, Same, Keeps
<1>3. PICK over : over = [w EXCEPT !.bev[b] = v] OBVIOUS
<1>4. Quiet(w, over, b) BY <1>2, <1>3, Touch
<1>5. over \in Worlds BY <1>4 DEF Quiet, Does
<1>6. over = Over(w, b) BY <1>1, <1>3 DEF Worlds, Over
<1>7. \/ x = w
      \/ x = RunCb(Del(Del(over, b, "W"), b, "R"), b, "error")
      \/ x = RunCb(over, b, "connected")
      \/ x = Del(RunCb(over, b, "connected"), b, "W")
  <2>1. Finished(w.bev[b]) \in {0, -1, 1} BY DEF Finished
  <2>2. CASE Finished(w.bev[b]) = 0 BY <2>2 DEF EndConnect
  <2>3. CASE Finished(w.bev[b]) = -1 BY <1>6, <2>3 DEF EndConnect
  <2>4. CASE Finished(w.bev[b]) = 1 BY <1>6, <2>4 DEF EndConnect
  <2> QED BY <2>1, <2>2, <2>3, <2>4
<1>8. "error" \in Whats /\ "connected" \in Whats BY DEF Whats, Events
<1>9. CASE x = RunCb(Del(Del(over, b, "W"), b, "R"), b, "error")
  <2>1. PICK y : y = Del(over, b, "W") OBVIOUS
  <2>2. Quiet(over, y, b) BY <1>5, <2>1, DelQuiet
  <2>3. y \in Worlds BY <2>2 DEF Quiet, Does
  <2>4. PICK z : z = Del(y, b, "R") OBVIOUS
  <2>5. Quiet(y, z, b) BY <2>3, <2>4, DelQuiet
  <2>6. z \in Worlds BY <2>5 DEF Quiet, Does
  <2>7. Does(z, x, b) BY <1>8, <1>9, <2>1, <2>4, <2>6, RunCbDoes
  <2>8. Quiet(w, z, b) BY <1>4, <2>2, <2>5, QuietTwice
  <2> QED BY <2>7, <2>8, Twice DEF Quiet
<1>10. PICK told : told = RunCb(over, b, "connected") OBVIOUS
<1>11. Does(over, told, b) BY <1>5, <1>8, <1>10, RunCbDoes
<1>14. Does(w, told, b) BY <1>4, <1>11, Twice DEF Quiet
<1>12. Does(w, told, b) /\ told \in Worlds BY <1>14 DEF Does
<1>13. CASE x = Del(told, b, "W")
  <2>1. Quiet(told, x, b) BY <1>12, <1>13, DelQuiet
  <2> QED BY <1>12, <2>1, Twice DEF Quiet
<1> QED BY <1>7, <1>9, <1>10, <1>12, <1>13, Nothing DEF Quiet

---------------------------------------------------------------------------
(* References                                                              *)

\* As Does, but the buffers may change.
Moves(w, x, b) ==
  /\ x \in Worlds /\ x.grp.members = w.grp.members
  /\ \A c \in Bevs : Keeps(w.bev[c], x.bev[c]) /\ Refs(x, c) = Refs(w, c)
  /\ \A c \in Bevs \ (w.grp.members \cup {b}) : x.bev[c] = w.bev[c]
  /\ Apart(w.queue) => Apart(x.queue)
  /\ \A e \in Tasks(x.queue) : e \in Tasks(w.queue) \/ (e = DEntry(b) /\ w.bev[b].cbs = TRUE)
  /\ \A e \in Tasks(w.queue) : e.k \in {"D", "free", "G"} => e \in Tasks(x.queue)

LEMMA DoesMoves == ASSUME NEW w, NEW x, NEW b, Does(w, x, b) PROVE Moves(w, x, b)
BY DEF Does, Moves, Same

LEMMA MovesTwice ==
  ASSUME NEW w, NEW x, NEW y, NEW b \in Bevs, Moves(w, x, b), Moves(x, y, b)
  PROVE  Moves(w, y, b)
<1>1. \A c \in Bevs : Keeps(w.bev[c], y.bev[c]) BY DEF Moves, Keeps
<1>2. \A c \in Bevs : Refs(y, c) = Refs(w, c) BY DEF Moves
<1>3. x.bev[b].cbs = w.bev[b].cbs BY DEF Moves, Keeps
<1>4. \A e \in Tasks(y.queue) : e \in Tasks(w.queue) \/ (e = DEntry(b) /\ w.bev[b].cbs = TRUE)
  BY <1>3 DEF Moves
<1> QED BY <1>1, <1>2, <1>4 DEF Moves

LEMMA TouchMoves ==
  ASSUME NEW w \in Worlds, NEW b \in Bevs, NEW v \in Bev, NEW x, x = [w EXCEPT !.bev[b] = v],
         Keeps(w.bev[b], v), v.refcnt = w.bev[b].refcnt
  PROVE  Moves(w, x, b)
<1>1. /\ x \in Worlds /\ x.grp = w.grp /\ x.queue = w.queue /\ x.bev[b] = v
      /\ \A c \in Bevs \ {b} : x.bev[c] = w.bev[c]
  BY DEF Worlds
<1>2. \A c \in Bevs : Keeps(w.bev[c], x.bev[c]) /\ x.bev[c].refcnt = w.bev[c].refcnt
  BY <1>1 DEF Keeps
<1>3. \A c \in Bevs : Refs(x, c) = Refs(w, c) BY <1>1, <1>2 DEF Refs, Deferred
<1> QED BY <1>1, <1>2, <1>3 DEF Moves

Of(p) == IF p THEN 1 ELSE 0
AtDeferred(l, c) == l.at \in {"taken", "telling"} /\ l.b = c /\ l.k = "D"

\* One bufferevent: its references have their holders, and what has been
\* finalized, released or not yet made has none.
Counted(w, l, c) ==
  LET v == w.bev[c]
  IN /\ v.final \in {{}, Kinds}
     /\ v.st # "live" => /\ v.own = FALSE /\ v.lookup = "no" /\ v.final = {}
                         /\ v.due = FALSE /\ c \notin w.grp.members
     /\ v.st = "live" =>
          /\ v.refcnt = Of(v.own = TRUE) + Of(v.lookup # "no")
                          + Of(Deferred(w, c)) + Of(AtDeferred(l, c))
          /\ v.own = FALSE => v.cbs = FALSE
     /\ v.final = Kinds => v.pend = {} /\ v.due = FALSE /\ v.refcnt = 0
     /\ v.st = "freed" => v.refcnt = 0 /\ v.pend = {}

\* Who has references is not finalized, and the other way around.
Alive(w, c) == w.bev[c].st = "live" => (w.bev[c].final = {} <=> w.bev[c].refcnt > 0)

\* The active queue, and the callback that the loop is at
QueueFits(w, l) ==
  /\ Apart(w.queue)
  /\ \A e \in Tasks(w.queue) :
       /\ e.b = None <=> e.k = "G"
       /\ e.b # None => /\ w.bev[e.b].st = "live"
                        /\ e.k = "free" <=> w.bev[e.b].final # {}
       /\ l.at = "poll" => e.k \in {"D", "free"}
LoopFits(w, l) ==
  /\ \/ l.at \in {"poll", "run"} /\ l.b = None
     \/ l.at = "taken" /\ l.k = "G" /\ l.b = None
     \/ l.at = "taken" /\ l.k \in Kinds /\ l.b \in Bevs
     \/ l.at = "telling" /\ l.k = "D" /\ l.b \in Bevs
  /\ l.b \in Bevs => w.bev[l.b].st = "live"

Base(w, l) == /\ w \in Worlds /\ QueueFits(w, l) /\ LoopFits(w, l)
              /\ \A c \in Bevs : Counted(w, l, c)
Sound(w, l) == Base(w, l) /\ \A c \in Bevs : Alive(w, c)

\* The function is called for a bufferevent that is there, or for none.
For(w, x, b) == \/ b \in Bevs /\ w.bev[b].st = "live"
                \/ b \notin Bevs /\ Tasks(x.queue) \subseteq Tasks(w.queue)

LEMMA MovesBase ==
  ASSUME NEW w, NEW l, NEW b, NEW x, Base(w, l), Moves(w, x, b), For(w, x, b)
  PROVE  Base(x, l)
<1>0. w \in Worlds /\ x \in Worlds BY DEF Base, Moves
<1>1. \A c \in Bevs : w.bev[c] \in Bev /\ x.bev[c] \in Bev BY <1>0 DEF Worlds
<1>2. \A c \in Bevs : Keeps(w.bev[c], x.bev[c]) BY DEF Moves
<1> USE DEF For
<1>3. b \in Bevs /\ w.bev[b].cbs = TRUE => w.bev[b].final = {} /\ w.bev[b].own = TRUE
  <2> SUFFICES ASSUME b \in Bevs, w.bev[b].cbs = TRUE
               PROVE  w.bev[b].final = {} /\ w.bev[b].own = TRUE
    OBVIOUS
  <2>1. w.bev[b].own = TRUE BY <1>1 DEF Base, Counted, Bev
  <2>2. w.bev[b].refcnt = 1 + Of(w.bev[b].lookup # "no") + Of(Deferred(w, b)) + Of(AtDeferred(l, b))
    BY <2>1 DEF Base, Counted, Of
  <2>3. w.bev[b].refcnt # 0 BY <2>2 DEF Of
  <2> QED BY <2>1, <2>3 DEF Base, Counted
<1>4. QueueFits(x, l)
  <2>1. DEntry(b).b = b /\ DEntry(b).k = "D" /\ (b \in Bevs => b # None) BY Sizes DEF DEntry
  <2>2. Apart(x.queue) BY DEF Base, QueueFits, Moves
  <2>3. \A e \in Tasks(x.queue) :
          /\ e.b = None <=> e.k = "G"
          /\ e.b # None => /\ x.bev[e.b].st = "live"
                           /\ e.k = "free" <=> x.bev[e.b].final # {}
          /\ l.at = "poll" => e.k \in {"D", "free"}
    <3> SUFFICES ASSUME NEW e \in Tasks(x.queue)
                 PROVE  /\ e.b = None <=> e.k = "G"
                        /\ e.b # None => /\ x.bev[e.b].st = "live"
                                         /\ e.k = "free" <=> x.bev[e.b].final # {}
                        /\ l.at = "poll" => e.k \in {"D", "free"}
      OBVIOUS
    <3>1. CASE e \in Tasks(w.queue)
      <4>1. e \in Entries BY <1>0, <3>1 DEF Worlds, Tasks
      <4>2. e.b # None => e.b \in Bevs BY <4>1 DEF Entries
      <4> QED BY <1>2, <3>1, <4>2 DEF Base, QueueFits, Keeps
    <3>2. CASE b \in Bevs /\ e = DEntry(b) /\ w.bev[b].cbs = TRUE
      BY <1>2, <1>3, <2>1, <3>2 DEF Keeps
    <3> QED BY <3>1, <3>2 DEF Moves
  <2> QED BY <2>2, <2>3 DEF QueueFits
<1>5. LoopFits(x, l) BY <1>2 DEF Base, LoopFits, Keeps
<1>6. ASSUME NEW c \in Bevs PROVE Counted(x, l, c)
  <2>1. Counted(w, l, c) BY DEF Base
  <2>2. Keeps(w.bev[c], x.bev[c]) /\ Refs(x, c) = Refs(w, c) BY DEF Moves
  <2>3. x.bev[c].refcnt \in Int /\ w.bev[c].refcnt \in Int BY <1>1 DEF Bev
  <2>4. x.bev[c].refcnt - Of(Deferred(x, c)) = w.bev[c].refcnt - Of(Deferred(w, c))
    BY <2>2 DEF Refs, Of
  <2>5. x.bev[c].st = "live" =>
          x.bev[c].refcnt = Of(x.bev[c].own = TRUE) + Of(x.bev[c].lookup # "no")
                              + Of(Deferred(x, c)) + Of(AtDeferred(l, c))
    <3> DEFINE dx == Of(Deferred(x, c))
               dw == Of(Deferred(w, c))
               o == Of(w.bev[c].own = TRUE)
               k == Of(w.bev[c].lookup # "no")
               a == Of(AtDeferred(l, c))
    <3>1. dx \in Int /\ dw \in Int /\ o \in Int /\ k \in Int /\ a \in Int BY DEF Of
    <3>2. Of(x.bev[c].own = TRUE) = o /\ Of(x.bev[c].lookup # "no") = k BY <2>2 DEF Keeps, Of
    <3>3. x.bev[c].st = "live" => w.bev[c].refcnt = o + k + dw + a
      BY <2>1, <2>2 DEF Counted, Keeps
    <3>4. x.bev[c].refcnt - dx = w.bev[c].refcnt - dw BY <2>4
    <3> HIDE DEF dx, dw, o, k, a
    <3>5. x.bev[c].st = "live" => x.bev[c].refcnt = o + k + dx + a BY <2>3, <3>1, <3>3, <3>4
    <3> QED BY <3>2, <3>5 DEF dx, a
  <2>6. w.bev[c].final = Kinds => x.bev[c].refcnt = 0
    <3> SUFFICES ASSUME w.bev[c].final = Kinds PROVE x.bev[c].refcnt = 0 OBVIOUS
    <3>0. w.bev[c].final # {} /\ w.bev[c].refcnt = 0 /\ w.bev[c].st = "live"
      BY <1>1, <2>1 DEF Counted, Kinds
    <3>1. ~Deferred(w, c)
      <4> SUFFICES ASSUME NEW e \in Tasks(w.queue), e.b = c, e.k = "D" PROVE FALSE
        BY DEF Deferred
      <4> QED BY <3>0, Sizes DEF Base, QueueFits
    <3>2. ~Deferred(x, c)
      <4> SUFFICES ASSUME NEW e \in Tasks(x.queue), e.b = c, e.k = "D" PROVE FALSE
        BY DEF Deferred
      <4>1. w.bev[c].final = x.bev[c].final BY <2>2 DEF Keeps
      <4> QED BY <1>4, <3>0, <4>1, Sizes DEF QueueFits
    <3> QED BY <2>3, <2>4, <3>0, <3>1, <3>2 DEF Of
  <2>7. x.bev[c].st # "live" => x.bev[c] = w.bev[c]
    <3> SUFFICES ASSUME x.bev[c].st # "live" PROVE x.bev[c] = w.bev[c] OBVIOUS
    <3>1. w.bev[c].st # "live" /\ c # b BY <2>2 DEF Keeps
    <3>2. c \notin w.grp.members BY <2>1, <3>1 DEF Counted
    <3> QED BY <3>1, <3>2 DEF Moves
  <2>8. x.grp.members = w.grp.members BY DEF Moves
  <2>9. x.bev[c].due \in BOOLEAN /\ w.bev[c].due \in BOOLEAN BY <1>1 DEF Bev
  <2> QED BY <2>1, <2>2, <2>5, <2>6, <2>7, <2>8, <2>9 DEF Counted, Keeps
<1> QED BY <1>0, <1>4, <1>5, <1>6 DEF Base

LEMMA MovesAlive ==
  ASSUME NEW w, NEW l, NEW b, NEW x, Base(w, l), Moves(w, x, b), For(w, x, b),
         NEW c \in Bevs, Alive(w, c)
  PROVE  Alive(x, c)
<1>0. w \in Worlds /\ x \in Worlds /\ Base(x, l) BY MovesBase DEF Base, Moves
<1>1. w.bev[c] \in Bev /\ x.bev[c] \in Bev BY <1>0 DEF Worlds
<1>2. Keeps(w.bev[c], x.bev[c]) /\ Refs(x, c) = Refs(w, c) BY DEF Moves
<1>3. SUFFICES ASSUME x.bev[c].st = "live" PROVE x.bev[c].final = {} <=> x.bev[c].refcnt > 0
  BY DEF Alive
<1>4. Counted(w, l, c) /\ Counted(x, l, c) BY <1>0 DEF Base
<1>5. w.bev[c].st = "live" /\ w.bev[c].final = x.bev[c].final BY <1>2, <1>3 DEF Keeps
<1>6. w.bev[c].final = {} <=> w.bev[c].refcnt > 0 BY <1>5 DEF Alive
<1>7. CASE w.bev[c].final = Kinds
  <2>1. x.bev[c].refcnt = 0 BY <1>4, <1>5, <1>7 DEF Counted
  <2> QED BY <1>5, <1>7, <2>1 DEF Kinds
<1>8. CASE w.bev[c].final = {}
  <2>1. x.bev[c].refcnt - Of(Deferred(x, c)) = w.bev[c].refcnt - Of(Deferred(w, c))
    BY <1>2 DEF Refs, Of
  <2>2. Deferred(w, c) => Deferred(x, c) BY DEF Deferred, Moves
  <2>3. x.bev[c].refcnt \in Int /\ w.bev[c].refcnt \in Int BY <1>1 DEF Bev
  <2>4. x.bev[c].refcnt >= w.bev[c].refcnt BY <2>1, <2>2, <2>3 DEF Of
  <2> QED BY <1>5, <1>6, <1>8, <2>3, <2>4
<1> QED BY <1>4, <1>7, <1>8 DEF Counted

LEMMA MovesSound ==
  ASSUME NEW w, NEW l, NEW b, NEW x, Sound(w, l), Moves(w, x, b), For(w, x, b)
  PROVE  Sound(x, l)
BY MovesBase, MovesAlive DEF Sound

\* The world with a reference less to b
Less(y, b) == [y EXCEPT !.bev[b].refcnt = @ - 1]

\* A handler that takes a reference when it begins and gives it back at the end
LEMMA Bracket ==
  ASSUME NEW w \in Worlds, NEW b \in Bevs, NEW h, h = Incref(w, b), NEW y, Moves(h, y, b)
  PROVE  Moves(w, Less(y, b), b)
<1>0. y \in Worlds /\ w.bev[b] \in Bev /\ y.bev[b] \in Bev BY DEF Worlds, Moves
<1>1. PICK z : z = Less(y, b) OBVIOUS
<1>2. w.bev[b].refcnt \in Int /\ y.bev[b].refcnt \in Int BY <1>0 DEF Bev
<1>3. /\ h \in Worlds /\ h.grp = w.grp /\ h.queue = w.queue
      /\ \A c \in Bevs \ {b} : h.bev[c] = w.bev[c]
      /\ h.bev[b].refcnt = w.bev[b].refcnt + 1 /\ Keeps(w.bev[b], h.bev[b])
  <2>1. PICK n \in Int : n = w.bev[b].refcnt + 1 BY <1>2
  <2>2. PICK v : v = [w.bev[b] EXCEPT !.refcnt = n] OBVIOUS
  <2>3. v \in Bev /\ v.refcnt = n /\ Keeps(w.bev[b], v) BY <1>0, <2>2 DEF Bev, Keeps
  <2>4. h = [w EXCEPT !.bev[b] = v] BY <2>1, <2>2 DEF Incref
  <2>5. /\ h \in Worlds /\ h.grp = w.grp /\ h.queue = w.queue /\ h.bev[b] = v
        /\ \A c \in Bevs \ {b} : h.bev[c] = w.bev[c]
    BY <2>3, <2>4 DEF Worlds
  <2> QED BY <2>1, <2>3, <2>5
<1>4. /\ z \in Worlds /\ z.grp = y.grp /\ z.queue = y.queue
      /\ \A c \in Bevs \ {b} : z.bev[c] = y.bev[c]
      /\ z.bev[b].refcnt = y.bev[b].refcnt - 1 /\ Keeps(y.bev[b], z.bev[b])
  <2>1. PICK n \in Int : n = y.bev[b].refcnt - 1 BY <1>2
  <2>2. PICK v : v = [y.bev[b] EXCEPT !.refcnt = n] OBVIOUS
  <2>3. v \in Bev /\ v.refcnt = n /\ Keeps(y.bev[b], v) BY <1>0, <2>2 DEF Bev, Keeps
  <2>4. z = [y EXCEPT !.bev[b] = v] BY <1>1, <2>1, <2>2 DEF Less
  <2>5. /\ z \in Worlds /\ z.grp = y.grp /\ z.queue = y.queue /\ z.bev[b] = v
        /\ \A c \in Bevs \ {b} : z.bev[c] = y.bev[c]
    BY <1>0, <2>3, <2>4 DEF Worlds
  <2> QED BY <2>1, <2>3, <2>5
<1>5. \A c \in Bevs : Keeps(w.bev[c], z.bev[c]) BY <1>3, <1>4 DEF Moves, Keeps
<1>6. \A c \in Bevs : Refs(z, c) = Refs(w, c)
  <2>1. \A c \in Bevs : Deferred(z, c) <=> Deferred(y, c) BY <1>4 DEF Deferred
  <2>2. \A c \in Bevs : Deferred(h, c) <=> Deferred(w, c) BY <1>3 DEF Deferred
  <2>3. \A c \in Bevs \ {b} : Refs(z, c) = Refs(w, c) BY <1>3, <1>4, <2>1, <2>2 DEF Moves, Refs
  <2>4. y.bev[b].refcnt - Of(Deferred(y, b)) = (w.bev[b].refcnt + 1) - Of(Deferred(w, b))
    BY <1>3, <2>2 DEF Moves, Refs, Of
  <2>5. Of(Deferred(y, b)) \in Int /\ Of(Deferred(w, b)) \in Int BY DEF Of
  <2>6. (y.bev[b].refcnt - 1) - Of(Deferred(y, b)) = w.bev[b].refcnt - Of(Deferred(w, b))
    BY <1>2, <2>4, <2>5
  <2>7. Refs(z, b) = Refs(w, b) BY <1>4, <2>1, <2>6 DEF Refs, Of
  <2> QED BY <2>3, <2>7
<1>7. h.bev[b].cbs = w.bev[b].cbs BY <1>3 DEF Keeps
<1>8. Moves(w, z, b) BY <1>3, <1>4, <1>5, <1>6, <1>7 DEF Moves
<1> QED BY <1>1, <1>8

\* bufferevent_decref_and_unlock_ when the last reference goes: the loop is left
\* with the finalizer only.
LEMMA FinalizeSound ==
  ASSUME NEW z, NEW l, NEW b \in Bevs, Base(z, l), z.bev[b].st = "live", z.bev[b].refcnt = 0,
         z.bev[b].final = {}, "bufferevent_decref_and_unlock_" \in Repaired,
         Running(b) \in Kinds \cup {"none"}, \A c \in Bevs \ {b} : Alive(z, c),
         NEW x, x = Finalize(z, b)
  PROVE  Sound(x, l)
<1>0. z \in Worlds /\ z.bev[b] \in Bev /\ Apart(z.queue) BY DEF Base, QueueFits, Worlds
<1>1. PICK r : r = Del(z, b, "R") OBVIOUS
<1>2. /\ Quiet(z, r, b) /\ r.bev[b].pend = z.bev[b].pend \ {"R"}
      /\ \A e \in Tasks(r.queue) : e.b # b \/ e.k # "R"
  <2>1. Quiet(z, r, b) /\ Cleared(z, r, b, "R") BY <1>0, <1>1, DelQuiet
  <2> QED BY <1>0, <2>1 DEF Cleared
<1>3. r \in Worlds /\ r.bev[b].final = {} /\ Apart(r.queue)
  BY <1>0, <1>2 DEF Quiet, Does, Same, Keeps
<1>4. PICK s : s = Del(r, b, "W") OBVIOUS
<1>5. /\ Quiet(r, s, b) /\ s.bev[b].pend = r.bev[b].pend \ {"W"}
      /\ \A e \in Tasks(s.queue) : e.b # b \/ e.k # "W"
  <2>1. Quiet(r, s, b) /\ Cleared(r, s, b, "W") BY <1>3, <1>4, DelQuiet
  <2> QED BY <1>3, <2>1 DEF Cleared
<1>6. s \in Worlds /\ s.bev[b].final = {} /\ Apart(s.queue)
  BY <1>3, <1>5 DEF Quiet, Does, Same, Keeps
<1>7. PICK t : t = Del(s, b, "T") OBVIOUS
<1>8. /\ Quiet(s, t, b) /\ t.bev[b].pend = s.bev[b].pend \ {"T"} /\ t.bev[b].due = FALSE
      /\ \A e \in Tasks(t.queue) : e.b # b \/ e.k # "T"
  <2>1. Quiet(s, t, b) /\ Cleared(s, t, b, "T") BY <1>6, <1>7, DelQuiet
  <2> QED BY <1>6, <2>1 DEF Cleared
<1>9. Quiet(z, t, b) BY <1>2, <1>5, <1>8, QuietTwice
<1>10. t \in Worlds /\ t.bev[b] \in Bev BY <1>9 DEF Quiet, Does, Worlds
<1>11. t.bev[b].pend = {}
  <2>1. z.bev[b].pend \subseteq {"R", "W", "T"} BY <1>0 DEF Bev
  <2> QED BY <1>2, <1>5, <1>8, <2>1
<1>12. Moves(z, t, b) BY <1>9, DoesMoves DEF Quiet
<1>13. Base(t, l) BY <1>12, MovesBase DEF For
<1>14. \A c \in Bevs \ {b} : Alive(t, c) BY <1>12, MovesAlive DEF For
<1>15. Counted(z, l, b) /\ Counted(t, l, b) BY <1>13 DEF Base
<1>16. Keeps(z.bev[b], t.bev[b]) BY <1>12 DEF Moves
<1>17. t.bev[b].st = "live" /\ t.bev[b].final = {} BY <1>16 DEF Keeps
<1>18. /\ z.bev[b].own = FALSE /\ z.bev[b].lookup = "no" /\ ~Deferred(z, b)
       /\ ~AtDeferred(l, b)
  <2>1. Of(z.bev[b].own = TRUE) + Of(z.bev[b].lookup # "no") + Of(Deferred(z, b))
          + Of(AtDeferred(l, b)) = 0
    BY <1>15 DEF Counted
  <2>3. z.bev[b].own \in BOOLEAN BY <1>0 DEF Bev
  <2>4. z.bev[b].own # TRUE /\ z.bev[b].lookup = "no" /\ ~Deferred(z, b) /\ ~AtDeferred(l, b)
    <3> DEFINE o == Of(z.bev[b].own = TRUE)
               k == Of(z.bev[b].lookup # "no")
               d == Of(Deferred(z, b))
               a == Of(AtDeferred(l, b))
    <3>1. o \in {0, 1} /\ k \in {0, 1} /\ d \in {0, 1} /\ a \in {0, 1} BY DEF Of
    <3>2. o + k + d + a = 0 BY <2>1
    <3> HIDE DEF o, k, d, a
    <3>3. o = 0 /\ k = 0 /\ d = 0 /\ a = 0 BY <3>1, <3>2
    <3>4. ASSUME z.bev[b].own = TRUE PROVE FALSE
      <4>1. o = 1 BY <3>4 DEF o, Of
      <4> QED BY <3>3, <4>1
    <3>5. z.bev[b].lookup = "no" BY <3>3 DEF k, Of
    <3>6. ~Deferred(z, b) BY <3>3 DEF d, Of
    <3>7. ~AtDeferred(l, b) BY <3>3 DEF a, Of
    <3> QED BY <3>4, <3>5, <3>6, <3>7
  <2> QED BY <2>3, <2>4
<1>19. \A e \in Tasks(t.queue) : e.b # b
  <2> SUFFICES ASSUME NEW e \in Tasks(t.queue), e.b = b PROVE FALSE OBVIOUS
  <2>1. e \in Tasks(s.queue) /\ e \in Tasks(r.queue) /\ e \in Tasks(z.queue)
    BY <1>5, <1>8, <1>9 DEF Quiet
  <2>2. e.k \notin {"R", "W", "T"} BY <1>2, <1>5, <1>8, <2>1
  <2>3. e.k # "D" BY <1>18, <2>1 DEF Deferred
  <2>4. e.k # "free" /\ e.k # "G" BY <2>1, Sizes DEF Base, QueueFits
  <2>5. e \in Entries BY <1>0, <2>1 DEF Worlds, Tasks
  <2> QED BY <2>2, <2>3, <2>4, <2>5 DEF Entries, Kinds
<1>20. PICK k \in Kinds : k = IF Running(b) = "none" THEN "R" ELSE Running(b) BY DEF Kinds
<1>21. PICK f : f = [b |-> b, k |-> "free", what |-> k] OBVIOUS
<1>22. f \in Entries /\ f.b = b /\ f.k = "free" BY <1>20, <1>21 DEF Entries
<1>23. PICK p : p = Append(t.queue, f) OBVIOUS
<1>24. t.queue \in Seq(Entries) /\ Apart(t.queue) BY <1>10, <1>13 DEF Worlds, Base, QueueFits
<1>25. \A g \in Tasks(t.queue) : g.b # f.b \/ g.k # f.k BY <1>19, <1>22
<1>26. p \in Seq(Entries) /\ Tasks(p) = Tasks(t.queue) \cup {f} /\ Apart(p)
  BY <1>22, <1>23, <1>24, <1>25, With
<1>27. PICK v : v = [t.bev[b] EXCEPT !.final = Kinds] OBVIOUS
<1>28. /\ v \in Bev /\ v.final = Kinds /\ v.st = "live" /\ v.pend = {} /\ v.due = FALSE
       /\ v.refcnt = t.bev[b].refcnt /\ v.own = t.bev[b].own /\ v.lookup = t.bev[b].lookup
       /\ v.cbs = t.bev[b].cbs
  BY <1>8, <1>10, <1>11, <1>17, <1>27 DEF Bev
<1>29. PICK y : y = [t EXCEPT !.queue = p] OBVIOUS
<1>30. y \in Worlds /\ y.grp = t.grp /\ y.queue = p /\ y.bev = t.bev
  BY <1>10, <1>26, <1>29 DEF Worlds
<1>31. x = [y EXCEPT !.bev[b] = v]
  <2>1. k \notin z.bev[b].final OBVIOUS
  <2>2. x = [t EXCEPT !.queue = p, !.bev[b].final = Kinds]
    BY <1>1, <1>4, <1>7, <1>20, <1>21, <1>23, <2>1 DEF Finalize, Entry, Kinds
  <2> QED BY <1>27, <1>29, <2>2
<1>32. /\ x \in Worlds /\ x.grp = t.grp /\ x.queue = p /\ x.bev[b] = v
       /\ \A c \in Bevs \ {b} : x.bev[c] = t.bev[c]
  BY <1>28, <1>30, <1>31 DEF Worlds
<1>33. v.own = FALSE /\ v.lookup = "no" /\ v.refcnt = 0
  <2>1. t.bev[b].own = FALSE /\ t.bev[b].lookup = "no" BY <1>16, <1>18 DEF Keeps
  <2>2. ~Deferred(t, b) BY <1>19 DEF Deferred
  <2>3. t.bev[b].refcnt = 0 BY <1>15, <1>17, <1>18, <2>1, <2>2 DEF Counted, Of
  <2> QED BY <1>28, <2>1, <2>3
<1>34. QueueFits(x, l)
  <2>1. \A e \in Tasks(t.queue) : e.b # b /\ (e.b # None => x.bev[e.b] = t.bev[e.b])
    <3> SUFFICES ASSUME NEW e \in Tasks(t.queue)
                 PROVE  e.b # b /\ (e.b # None => x.bev[e.b] = t.bev[e.b])
      OBVIOUS
    <3>1. e \in Entries BY <1>24 DEF Tasks
    <3>2. e.b # None => e.b \in Bevs BY <3>1 DEF Entries
    <3>3. e.b # b BY <1>19
    <3>4. \A c \in Bevs : c # b => x.bev[c] = t.bev[c] BY <1>32
    <3> QED BY <3>2, <3>3, <3>4
  <2>2. Kinds # {} BY DEF Kinds
  <2>3. \A e \in Tasks(t.queue) :
          /\ e.b = None <=> e.k = "G"
          /\ e.b # None => /\ t.bev[e.b].st = "live"
                           /\ e.k = "free" <=> t.bev[e.b].final # {}
          /\ l.at = "poll" => e.k \in {"D", "free"}
    BY <1>13 DEF QueueFits, Base
  <2>4. \A e \in Tasks(t.queue) :
          /\ e.b = None <=> e.k = "G"
          /\ e.b # None => /\ x.bev[e.b].st = "live"
                           /\ e.k = "free" <=> x.bev[e.b].final # {}
          /\ l.at = "poll" => e.k \in {"D", "free"}
    BY <2>1, <2>3
  <2>5. b # None BY Sizes
  <2> QED BY <1>22, <1>26, <1>28, <1>32, <2>2, <2>4, <2>5 DEF QueueFits
<1>35. LoopFits(x, l) BY <1>13, <1>28, <1>32 DEF LoopFits, Base
<1>36. ASSUME NEW c \in Bevs PROVE Counted(x, l, c) /\ Alive(x, c)
  <2>1. Deferred(x, c) <=> Deferred(t, c) BY <1>22, <1>26, <1>32 DEF Deferred
  <2>2. CASE c # b
    <3>1. x.bev[c] = t.bev[c] BY <1>32, <2>2
    <3>2. Of(Deferred(x, c)) = Of(Deferred(t, c)) BY <2>1 DEF Of
    <3>3. Counted(t, l, c) /\ Alive(t, c) BY <1>13, <1>14, <2>2 DEF Base
    <3>4. Counted(x, l, c) BY <1>32, <3>1, <3>2, <3>3 DEF Counted
    <3> QED BY <3>1, <3>3, <3>4 DEF Alive
  <2>3. CASE c = b
    <3>1. ~Deferred(x, b) BY <1>19, <2>1, <2>3 DEF Deferred
    <3>2. v.cbs = FALSE BY <1>15, <1>17, <1>28, <1>33 DEF Counted
    <3>3. Counted(x, l, b) BY <1>18, <1>28, <1>32, <1>33, <3>1, <3>2 DEF Counted, Of
    <3>4. Alive(x, b) BY <1>28, <1>32, <1>33 DEF Alive, Kinds
    <3> QED BY <2>3, <3>3, <3>4
  <2> QED BY <2>2, <2>3
<1> QED BY <1>32, <1>34, <1>35, <1>36 DEF Sound, Base

---------------------------------------------------------------------------
(* The last reference, and the end of a handler                            *)

LEMMA ToIdle ==
  ASSUME NEW x, NEW l, Sound(x, l), \A c \in Bevs : ~AtDeferred(l, c)
  PROVE  Sound(x, Idle(x.queue))
<1>1. PICK i : i = Idle(x.queue) OBVIOUS
<1>2. i.b = None /\ i.at \in {"poll", "run"} /\ (i.at = "poll" => x.queue = << >>)
  BY <1>1 DEF Idle
<1>3. QueueFits(x, i)
  <2>1. x.queue = << >> => Tasks(x.queue) = {} BY DEF Tasks
  <2> QED BY <1>2, <2>1 DEF Sound, Base, QueueFits
<1>4. LoopFits(x, i) BY <1>2, Sizes DEF LoopFits
<1>5. ASSUME NEW c \in Bevs PROVE Counted(x, i, c)
  <2>1. ~AtDeferred(i, c) BY <1>2 DEF AtDeferred
  <2>2. Of(AtDeferred(i, c)) = Of(AtDeferred(l, c)) BY <2>1 DEF Of
  <2> QED BY <2>2 DEF Sound, Base, Counted
<1> QED BY <1>1, <1>3, <1>4, <1>5 DEF Sound, Base

\* The lengths of the buffers, and who is live
SameLen(w, x) == \A c \in Bevs : x.bev[c].len = w.bev[c].len /\ x.bev[c].st = w.bev[c].st

LEMMA DoesLen == ASSUME NEW w, NEW x, NEW b, Does(w, x, b) PROVE SameLen(w, x)
BY DEF Does, Same, Keeps, SameLen

LEMMA FinalizeLen ==
  ASSUME NEW z \in Worlds, NEW b \in Bevs, NEW x, x = Finalize(z, b)
  PROVE  SameLen(z, x)
<1>1. PICK r : r = Del(z, b, "R") OBVIOUS
<1>2. Quiet(z, r, b) BY <1>1, DelQuiet
<1>3. r \in Worlds BY <1>2 DEF Quiet, Does
<1>4. PICK s : s = Del(r, b, "W") OBVIOUS
<1>5. Quiet(r, s, b) BY <1>3, <1>4, DelQuiet
<1>6. s \in Worlds BY <1>5 DEF Quiet, Does
<1>7. PICK t : t = Del(s, b, "T") OBVIOUS
<1>8. Quiet(s, t, b) BY <1>6, <1>7, DelQuiet
<1>9. SameLen(z, t) /\ t \in Worlds
  <2>1. Quiet(z, t, b) BY <1>2, <1>5, <1>8, QuietTwice
  <2> QED BY <2>1, DoesLen DEF Quiet, Does
<1>10. \/ x = t
       \/ \E q, f : x = [t EXCEPT !.queue = q, !.bev[b].final = f]
  <2>1. PICK k : k = IF Running(b) = "none" THEN "R" ELSE Running(b) OBVIOUS
  <2>2. PICK q : q = Append(t.queue, Entry(b, "free", k)) OBVIOUS
  <2>3. PICK f : f = IF "bufferevent_decref_and_unlock_" \in Repaired THEN {"R", "W", "T", "D"}
                     ELSE t.bev[b].final \cup {k}
    OBVIOUS
  <2>4. x = IF k \in z.bev[b].final THEN t
            ELSE [t EXCEPT !.queue = Append(@, Entry(b, "free", k)),
                           !.bev[b].final = IF "bufferevent_decref_and_unlock_" \in Repaired
                                            THEN {"R", "W", "T", "D"} ELSE @ \cup {k}]
    BY <1>1, <1>4, <1>7, <2>1, Zenon DEF Finalize
  <2>5. x = IF k \in z.bev[b].final THEN t ELSE [t EXCEPT !.queue = q, !.bev[b].final = f]
    BY <1>9, <2>2, <2>3, <2>4 DEF Worlds
  <2> QED BY <2>5
<1>11. ASSUME NEW q, NEW f, x = [t EXCEPT !.queue = q, !.bev[b].final = f] PROVE SameLen(z, x)
  <2>1. t.bev \in [Bevs -> Bev] BY <1>9 DEF Worlds
  <2>2. x.bev = [t.bev EXCEPT ![b].final = f] BY <1>9, <1>11 DEF Worlds
  <2>3. \A c \in Bevs : x.bev[c].len = t.bev[c].len /\ x.bev[c].st = t.bev[c].st
    BY <2>1, <2>2 DEF Bev
  <2> QED BY <1>9, <2>3 DEF SameLen
<1> QED BY <1>9, <1>10, <1>11

LEMMA LessWorld ==
  ASSUME NEW y \in Worlds, NEW b \in Bevs, NEW z, z = Less(y, b)
  PROVE  /\ z \in Worlds /\ z.grp = y.grp /\ z.queue = y.queue
         /\ \A c \in Bevs \ {b} : z.bev[c] = y.bev[c]
         /\ z.bev[b].refcnt = y.bev[b].refcnt - 1 /\ Same(y.bev[b], z.bev[b])
<1>0. y.bev[b] \in Bev BY DEF Worlds
<1>1. y.bev[b].refcnt \in Int BY <1>0 DEF Bev
<1>2. PICK n \in Int : n = y.bev[b].refcnt - 1 BY <1>1
<1>3. PICK v : v = [y.bev[b] EXCEPT !.refcnt = n] OBVIOUS
<1>4. v \in Bev /\ v.refcnt = n /\ Same(y.bev[b], v) BY <1>0, <1>3 DEF Bev, Same, Keeps
<1>5. z = [y EXCEPT !.bev[b] = v] BY <1>2, <1>3 DEF Less
<1>6. /\ z \in Worlds /\ z.grp = y.grp /\ z.queue = y.queue /\ z.bev[b] = v
      /\ \A c \in Bevs \ {b} : z.bev[c] = y.bev[c]
  BY <1>4, <1>5 DEF Worlds
<1> QED BY <1>2, <1>4, <1>6

LEMMA DecrefLen ==
  ASSUME NEW y \in Worlds, NEW b \in Bevs, NEW x, x = Decref(y, b)
  PROVE  SameLen(y, x)
<1>1. PICK z : z = Less(y, b) OBVIOUS
<1>2. z \in Worlds /\ SameLen(y, z)
  <2>1. /\ z \in Worlds /\ Same(y.bev[b], z.bev[b])
        /\ \A c \in Bevs \ {b} : z.bev[c] = y.bev[c]
    BY <1>1, LessWorld
  <2> QED BY <2>1 DEF SameLen, Same, Keeps
<1>3. x = z \/ x = Finalize(z, b) BY <1>1 DEF Decref, Less
<1>4. x = z \/ SameLen(z, x) BY <1>2, <1>3, FinalizeLen
<1> QED BY <1>2, <1>4 DEF SameLen

\* The reference that is given back may be the last.
LEMMA DecrefSound ==
  ASSUME NEW y, NEW b \in Bevs, NEW l, NEW z, z = Less(y, b),
         Base(z, l), z.bev[b].st = "live", \A c \in Bevs \ {b} : Alive(z, c),
         "bufferevent_decref_and_unlock_" \in Repaired, Running(b) \in Kinds \cup {"none"},
         NEW x, x = Decref(y, b)
  PROVE  Sound(x, l)
<1>0. z \in Worlds /\ z.bev[b] \in Bev /\ Counted(z, l, b) BY DEF Base, Worlds
<1>1. x = IF z.bev[b].refcnt = 0 THEN Finalize(z, b) ELSE z BY DEF Decref, Less
<1>2. CASE z.bev[b].refcnt = 0 /\ z.bev[b].final = {} BY <1>1, <1>2, FinalizeSound
<1>3. CASE z.bev[b].refcnt = 0 /\ z.bev[b].final = Kinds
  <2>1. Del(z, b, "R") = z /\ Del(z, b, "W") = z /\ Del(z, b, "T") = z BY <1>3 DEF Del, Kinds
  <2>2. x = z
    <3>1. (IF Running(b) = "none" THEN "R" ELSE Running(b)) \in z.bev[b].final
      BY <1>3 DEF Kinds
    <3> QED BY <1>1, <1>3, <2>1, <3>1 DEF Finalize
  <2>3. Alive(z, b) BY <1>3 DEF Alive, Kinds
  <2> QED BY <2>2, <2>3 DEF Sound
<1>4. CASE z.bev[b].refcnt # 0
  <2>1. z.bev[b].final = {} BY <1>0, <1>4 DEF Counted
  <2>2. z.bev[b].refcnt >= 0
    <3> DEFINE o == Of(z.bev[b].own = TRUE)
               k == Of(z.bev[b].lookup # "no")
               d == Of(Deferred(z, b))
               a == Of(AtDeferred(l, b))
    <3>1. o \in {0, 1} /\ k \in {0, 1} /\ d \in {0, 1} /\ a \in {0, 1} BY DEF Of
    <3>2. z.bev[b].refcnt = o + k + d + a BY <1>0 DEF Counted
    <3> HIDE DEF o, k, d, a
    <3> QED BY <3>1, <3>2
  <2>3. z.bev[b].refcnt \in Int BY <1>0 DEF Bev
  <2>4. Alive(z, b) BY <1>4, <2>1, <2>2, <2>3 DEF Alive
  <2> QED BY <1>1, <1>4, <2>4 DEF Sound
<1> QED BY <1>0, <1>2, <1>3, <1>4 DEF Counted

\* A handler: with the reference that it takes, it moves b, and gives it back.
LEMMA HandlerSound ==
  ASSUME NEW w, NEW l, NEW b \in Bevs, Sound(w, l), w.bev[b].st = "live",
         NEW h, h = Incref(w, b), NEW y, Moves(h, y, b),
         "bufferevent_decref_and_unlock_" \in Repaired, Running(b) \in Kinds \cup {"none"},
         NEW x, x = Decref(y, b)
  PROVE  Sound(x, l)
<1>0. w \in Worlds BY DEF Sound, Base
<1>1. PICK z : z = Less(y, b) OBVIOUS
<1>2. Moves(w, z, b) BY <1>0, <1>1, Bracket
<1>3. Sound(z, l) BY <1>2, MovesSound DEF For
<1>4. z.bev[b].st = "live" BY <1>2 DEF Moves, Keeps
<1> QED BY <1>1, <1>3, <1>4, DecrefSound DEF Sound

---------------------------------------------------------------------------
(* The bytes that the two events move                                      *)

\* The limits of a bufferevent
Bounds(v) == <<v.susp, v.cfg, v.limit, v.owed, v.high, v.sock, v.len>>

LEMMA IncrefIs ==
  ASSUME NEW w \in Worlds, NEW b \in Bevs, NEW h, h = Incref(w, b)
  PROVE  /\ h \in Worlds /\ h.grp = w.grp /\ Bounds(h.bev[b]) = Bounds(w.bev[b])
         /\ h.bev[b].cbs = w.bev[b].cbs /\ SameLen(w, h)
<1>0. w.bev[b] \in Bev BY DEF Worlds
<1>1. w.bev[b].refcnt \in Int BY <1>0 DEF Bev
<1>2. PICK n \in Int : n = w.bev[b].refcnt + 1 BY <1>1
<1>3. PICK v : v = [w.bev[b] EXCEPT !.refcnt = n] OBVIOUS
<1>4. /\ v \in Bev /\ v.cbs = w.bev[b].cbs /\ v.len = w.bev[b].len /\ v.st = w.bev[b].st
      /\ v.susp = w.bev[b].susp /\ v.cfg = w.bev[b].cfg /\ v.limit = w.bev[b].limit
      /\ v.owed = w.bev[b].owed /\ v.high = w.bev[b].high /\ v.sock = w.bev[b].sock
  BY <1>0, <1>3 DEF Bev
<1>5. h = [w EXCEPT !.bev[b] = v] BY <1>2, <1>3 DEF Incref
<1>6. /\ h \in Worlds /\ h.grp = w.grp /\ h.bev[b] = v
      /\ \A c \in Bevs \ {b} : h.bev[c] = w.bev[c]
  BY <1>4, <1>5 DEF Worlds
<1>7. SameLen(w, h) BY <1>4, <1>6 DEF SameLen
<1> QED BY <1>4, <1>6, <1>7 DEF Bounds

\* Nobody's buffer but that of b has changed, and that in one direction.
OnlyLen(w, x, b, d, n) ==
  /\ SameLen(w, x) \/
       \A c \in Bevs : /\ x.bev[c].st = w.bev[c].st
                       /\ c # b => x.bev[c].len = w.bev[c].len
  /\ x.bev[b].len[d] = n
  /\ \A e \in D \ {d} : x.bev[b].len[e] = w.bev[b].len[e]

LEMMA SetLen ==
  ASSUME NEW w \in Worlds, NEW b \in Bevs, NEW d \in D, NEW n \in Int,
         NEW x, x = [w EXCEPT !.bev[b].len[d] = n]
  PROVE  Moves(w, x, b) /\ OnlyLen(w, x, b, d, n)
<1>0. w.bev[b] \in Bev /\ w.bev[b].len \in [D -> Int] BY DEF Worlds, Bev
<1>1. PICK l : l = [w.bev[b].len EXCEPT ![d] = n] OBVIOUS
<1>2. l \in [D -> Int] /\ l[d] = n /\ \A e \in D \ {d} : l[e] = w.bev[b].len[e]
  BY <1>0, <1>1
<1>3. PICK v : v = [w.bev[b] EXCEPT !.len = l] OBVIOUS
<1>4. /\ v \in Bev /\ Keeps(w.bev[b], v) /\ v.refcnt = w.bev[b].refcnt /\ v.len = l
      /\ v.st = w.bev[b].st
  BY <1>0, <1>2, <1>3 DEF Bev, Keeps
<1>5. x = [w EXCEPT !.bev[b] = v] BY <1>1, <1>3
<1>6. Moves(w, x, b) BY <1>4, <1>5, TouchMoves
<1>7. x.bev[b] = v /\ \A c \in Bevs \ {b} : x.bev[c] = w.bev[c] BY <1>4, <1>5 DEF Worlds
<1>8. OnlyLen(w, x, b, d, n) BY <1>2, <1>4, <1>7 DEF OnlyLen
<1> QED BY <1>6, <1>8

LEMMA OnlyLenDoes ==
  ASSUME NEW w, NEW x, NEW y, NEW b \in Bevs, NEW d, NEW n,
         Moves(w, x, b), OnlyLen(w, x, b, d, n), Does(x, y, b)
  PROVE  Moves(w, y, b) /\ OnlyLen(w, y, b, d, n)
<1>1. Moves(w, y, b) BY DoesMoves, MovesTwice
<1>2. SameLen(x, y) BY DoesLen
<1>3. OnlyLen(w, y, b, d, n) BY <1>2 DEF OnlyLen, SameLen
<1> QED BY <1>1, <1>3

LEMMA SetInputMoves ==
  ASSUME NEW w \in Worlds, NEW b \in Bevs, NEW n \in Int, NEW x, x = SetInput(w, b, n)
  PROVE  Moves(w, x, b) /\ OnlyLen(w, x, b, "R", n)
<1>1. PICK y : y = [w EXCEPT !.bev[b].len["R"] = n] OBVIOUS
<1>2. Moves(w, y, b) /\ OnlyLen(w, y, b, "R", n) BY <1>1, SetLen, Directions
<1>3. y \in Worlds BY <1>2 DEF Moves
<1>4. Quiet(y, x, b) BY <1>1, <1>3, WmCbQuiet DEF SetInput
<1> QED BY <1>2, <1>4, OnlyLenDoes DEF Quiet

\* What a handler of b may do between the world and the end of its work
Handles(w, y, b) == /\ Moves(Incref(w, b), y, b)
                    /\ \A c \in Bevs : WithinLimits(w, y, c)

LEMMA SameWithin ==
  ASSUME NEW w \in Worlds, NEW x, SameLen(w, x)
  PROVE  \A c \in Bevs : WithinLimits(w, x, c)
<1> SUFFICES ASSUME NEW c \in Bevs PROVE WithinLimits(w, x, c) OBVIOUS
<1>1. x.bev[c].len = w.bev[c].len /\ w.bev[c].len["R"] \in Int /\ w.bev[c].len["W"] \in Int
  BY Directions DEF SameLen, Worlds, Bev
<1>2. /\ ~(x.bev[c].len["R"] - w.bev[c].len["R"] > 0)
      /\ ~(w.bev[c].len["W"] - x.bev[c].len["W"] > 0)
  BY <1>1
<1> QED BY <1>2 DEF WithinLimits

LEMMA WithinThen ==
  ASSUME NEW w, NEW y, NEW x, SameLen(y, x), NEW c \in Bevs, WithinLimits(w, y, c)
  PROVE  WithinLimits(w, x, c)
<1>1. x.bev[c].len = y.bev[c].len /\ x.bev[c].st = y.bev[c].st BY DEF SameLen
<1> QED BY <1>1 DEF WithinLimits

LEMMA OnlyWithin ==
  ASSUME NEW w \in Worlds, NEW b \in Bevs, NEW x, NEW d \in D, NEW n \in Int,
         OnlyLen(w, x, b, d, n),
         d = "R" => LET m == n - w.bev[b].len["R"]
                    IN m > 0 => /\ MayMove(w, b, "R", m)
                                /\ w.bev[b].high # 0 => n <= w.bev[b].high,
         d = "W" => LET m == w.bev[b].len["W"] - n IN m > 0 => MayMove(w, b, "W", m)
  PROVE  \A c \in Bevs : WithinLimits(w, x, c)
<1> SUFFICES ASSUME NEW c \in Bevs PROVE WithinLimits(w, x, c) OBVIOUS
<1>1. w.bev[c].len["R"] \in Int /\ w.bev[c].len["W"] \in Int BY Lengths
<1>2. CASE c # b
  <2>1. x.bev[c].len = w.bev[c].len BY <1>2 DEF OnlyLen, SameLen
  <2>2. /\ ~(x.bev[c].len["R"] - w.bev[c].len["R"] > 0)
        /\ ~(w.bev[c].len["W"] - x.bev[c].len["W"] > 0)
    BY <1>1, <2>1
  <2> QED BY <2>2 DEF WithinLimits
<1>3. CASE c = b /\ d = "R"
  <2>1. x.bev[b].len["R"] = n /\ x.bev[b].len["W"] = w.bev[b].len["W"]
    BY <1>3, Directions DEF OnlyLen
  <2>2. ~(w.bev[b].len["W"] - x.bev[b].len["W"] > 0) BY <1>1, <1>3, <2>1
  <2> QED BY <1>3, <2>1, <2>2 DEF WithinLimits
<1>4. CASE c = b /\ d = "W"
  <2>1. x.bev[b].len["W"] = n /\ x.bev[b].len["R"] = w.bev[b].len["R"]
    BY <1>4, Directions DEF OnlyLen
  <2>2. ~(x.bev[b].len["R"] - w.bev[b].len["R"] > 0) BY <1>1, <1>4, <2>1
  <2> QED BY <1>4, <2>1, <2>2 DEF WithinLimits
<1> QED BY <1>2, <1>3, <1>4 DEF D

LEMMA RlimMaxType ==
  ASSUME NEW w \in Worlds, NEW b \in Bevs, NEW d \in D PROVE RlimMax(w, b, d) \in Int
<1>0. w.bev[b] \in Bev /\ w.grp \in Grp BY DEF Worlds
<1>1. OwnMax(w, b, d) \in Int BY <1>0, Sizes DEF OwnMax, Bev
<1>2. CASE b \notin w.grp.members BY <1>1, <1>2 DEF RlimMax, Most
<1>3. CASE b \in w.grp.members
  <2>2. Cardinality(w.grp.members) \in Nat \ {0}
    <3>1. w.grp.members \in SUBSET Bevs BY <1>0 DEF Grp
    <3>2. IsFiniteSet(w.grp.members) BY <3>1, Sizes, FS_Subset
    <3> QED BY <1>3, <3>2, FS_CardinalityType, FS_EmptySet
  <2>3. w.grp.limit[d] \in Int BY <1>0 DEF Grp
  <2>4. w.grp.limit[d] \div Cardinality(w.grp.members) \in Int BY <2>2, <2>3
  <2>5. Share(w, d) \in Int BY <2>4 DEF Share, Most
  <2>6. Least(OwnMax(w, b, d), Share(w, d)) \in Int BY <1>1, <2>5 DEF Least
  <2> QED BY <1>3, <2>6 DEF RlimMax, Most
<1> QED BY <1>2, <1>3

\* The handler has asked what it may move in the direction d.
Asked(w, a, b, d) ==
  /\ Moves(Incref(w, b), a, b) /\ SameLen(w, a) /\ a.grp = w.grp
  /\ a.bev[b].susp[d] = {} =>
       /\ w.bev[b].susp[d] = {} /\ (b \in w.grp.members => d \notin w.grp.suspended)
       /\ a.bev[b].cfg = w.bev[b].cfg /\ a.bev[b].high = w.bev[b].high
       /\ w.bev[b].cfg # NoCfg => a.bev[b].limit[d]
            = Refilled(w.bev[b].limit[d], Burst[w.bev[b].cfg], w.bev[b].owed)

LEMMA MayMoveThat ==
  ASSUME NEW w \in Worlds, NEW b \in Bevs, NEW d \in D, NEW a, Asked(w, a, b, d),
         a.bev[b].susp[d] = {}, NEW m \in Int, NEW n \in 1 .. Least(m, RlimMax(a, b, d))
  PROVE  MayMove(w, b, d, n) /\ n <= m /\ n \in Nat \ {0}
<1>1. a \in Worlds BY DEF Asked, Moves
<1>2. RlimMax(a, b, d) \in Int BY <1>1, RlimMaxType
<1>3. n \in Nat \ {0} /\ n <= m /\ n <= RlimMax(a, b, d) BY <1>2 DEF Least
<1>4. /\ a.bev[b].cfg # NoCfg => n <= a.bev[b].limit[d]
      /\ b \in a.grp.members => n <= Share(a, d)
  BY <1>1, <1>3, RlimMaxBounds
<1>5. a.grp = w.grp BY DEF Asked
<1>6. Share(a, d) = Share(w, d) BY <1>5 DEF Share
<1>7. MayMove(w, b, d, n) BY <1>4, <1>5, <1>6 DEF MayMove, Asked
<1> QED BY <1>3, <1>7

LEMMA DoesHandles ==
  ASSUME NEW w \in Worlds, NEW b \in Bevs, NEW d, NEW a, Asked(w, a, b, d), NEW y, Does(a, y, b)
  PROVE  Handles(w, y, b)
<1>1. Moves(Incref(w, b), y, b) BY DoesMoves, MovesTwice DEF Asked
<1>2. SameLen(a, y) BY DoesLen
<1>3. SameLen(w, y) BY <1>2 DEF Asked, SameLen
<1> QED BY <1>1, <1>3, SameWithin DEF Handles

LEMMA ReadFromHandles ==
  ASSUME NEW w \in Worlds, NEW b \in Bevs, NEW a, Asked(w, a, b, "R"), ReadFrom(a, b)
  PROVE  \E y : Handles(w, y, b) /\ Done(y, b)
<1>0. a \in Worlds /\ a.bev[b] \in Bev /\ a.bev[b].len = w.bev[b].len
  BY DEF Asked, Moves, SameLen, Worlds
<1>1. ASSUME NEW y, Does(a, y, b), Done(y, b) PROVE Handles(w, y, b) /\ Done(y, b)
  BY <1>1, DoesHandles
<1>2. CASE Done(a, b)
  <2>1. Does(a, a, b) BY <1>0, Nothing DEF Quiet
  <2> QED BY <1>1, <1>2, <2>1
<1>3. CASE Done(Fail(a, b, "R", "eof"), b)
  <2>1. PICK y : y = Fail(a, b, "R", "eof") OBVIOUS
  <2>2. "eof" \in Whats BY DEF Whats, Events
  <2>3. Does(a, y, b) BY <1>0, <2>1, <2>2, FailDoes, Directions
  <2> QED BY <1>1, <1>3, <2>1, <2>3
<1>4. CASE Done([a EXCEPT !.bev[b].sock = "dead", !.bev[b].refused = TRUE], b)
  <2>1. PICK v : v = [a.bev[b] EXCEPT !.sock = "dead", !.refused = TRUE] OBVIOUS
  <2>2. v \in Bev /\ Same(a.bev[b], v) /\ v.refcnt = a.bev[b].refcnt
    BY <1>0, <2>1 DEF Bev, Same, Keeps
  <2>3. PICK y : y = [a EXCEPT !.bev[b] = v] OBVIOUS
  <2>4. y = [a EXCEPT !.bev[b].sock = "dead", !.bev[b].refused = TRUE]
    BY <1>0, <2>1, <2>3 DEF Worlds
  <2>5. Quiet(a, y, b) BY <1>0, <2>2, <2>3, Touch
  <2> QED BY <1>1, <1>4, <2>4, <2>5 DEF Quiet
<1> DEFINE most == IF a.bev[b].high = 0 THEN MaxLen - a.bev[b].len["R"]
                   ELSE Least(a.bev[b].high, MaxLen) - a.bev[b].len["R"]
           Taking(n, busy) == Trigger(Spend(SetInput(a, b, a.bev[b].len["R"] + n), b, "R", n, busy),
                                    b, "R")
<1>5. ASSUME a.bev[b].susp["R"] = {}, NEW n \in 1 .. Least(most, RlimMax(a, b, "R")), NEW busy,
             NEW y, y = Taking(n, busy)
      PROVE  Handles(w, y, b)
  <2>1. /\ a.bev[b].len["R"] \in Int /\ a.bev[b].high \in Int /\ MaxLen \in Int
    BY <1>0, Sizes, Directions DEF Bev
  <2>2. most \in Int /\ (a.bev[b].high # 0 => a.bev[b].len["R"] + most <= a.bev[b].high)
    BY <2>1 DEF Least
  <2> HIDE DEF most
  <2>3. MayMove(w, b, "R", n) /\ n <= most /\ n \in Nat \ {0}
    BY <1>5, <2>2, MayMoveThat, Directions
  <2>4. PICK m \in Int : m = a.bev[b].len["R"] + n BY <2>1, <2>3
  <2>5. PICK s : s = SetInput(a, b, m) OBVIOUS
  <2>6. Moves(a, s, b) /\ OnlyLen(a, s, b, "R", m) BY <1>0, <2>5, SetInputMoves
  <2>7. s \in Worlds BY <2>6 DEF Moves
  <2>8. PICK t : t = Spend(s, b, "R", n, busy) OBVIOUS
  <2>9. Quiet(s, t, b) BY <2>3, <2>7, <2>8, SpendQuiet, Directions
  <2>10. t \in Worlds BY <2>9 DEF Quiet, Does
  <2>11. Does(t, y, b) BY <1>5, <2>4, <2>5, <2>8, <2>10, TriggerDoes
  <2>12. Does(s, y, b) BY <2>9, <2>11, Twice DEF Quiet
  <2>13. Moves(a, y, b) /\ OnlyLen(a, y, b, "R", m) BY <2>6, <2>12, OnlyLenDoes
  <2>14. Moves(Incref(w, b), y, b) BY <2>13, MovesTwice DEF Asked
  <2>15. OnlyLen(w, y, b, "R", m) BY <2>13 DEF OnlyLen, Asked, SameLen
  <2>16. m - w.bev[b].len["R"] = n /\ a.bev[b].high = w.bev[b].high
    BY <1>0, <1>5, <2>1, <2>3, <2>4 DEF Asked
  <2>17. w.bev[b].high # 0 => m <= w.bev[b].high
    BY <2>1, <2>2, <2>3, <2>4, <2>16
  <2>18. \A c \in Bevs : WithinLimits(w, y, c)
    BY <2>3, <2>15, <2>16, <2>17, OnlyWithin, Directions
  <2> QED BY <2>14, <2>18 DEF Handles
<1>6. ASSUME a.bev[b].susp["R"] = {}, NEW n \in 1 .. Least(most, RlimMax(a, b, "R")), NEW busy,
             Done(Taking(n, busy), b)
      PROVE  \E y : Handles(w, y, b) /\ Done(y, b)
  <2>1. PICK y : y = Taking(n, busy) OBVIOUS
  <2>2. Handles(w, y, b) BY <1>5, <1>6, <2>1
  <2>3. Done(y, b) BY <1>6, <2>1
  <2> QED BY <2>2, <2>3
<1> HIDE DEF Taking, most
<1>7. \/ Done(a, b) \/ Done(Fail(a, b, "R", "eof"), b)
      \/ Done([a EXCEPT !.bev[b].sock = "dead", !.bev[b].refused = TRUE], b)
      \/ /\ a.bev[b].susp["R"] = {}
         /\ \E n \in 1 .. Least(most, RlimMax(a, b, "R")) : \E busy : Done(Taking(n, busy), b)
  BY DEF ReadFrom, Taking, most
<1> QED BY <1>2, <1>3, <1>4, <1>6, <1>7

LEMMA AskedThen ==
  ASSUME NEW w \in Worlds, NEW b \in Bevs, NEW d \in D, NEW e, Does(Incref(w, b), e, b),
         e.grp = w.grp, Bounds(e.bev[b]) = Bounds(w.bev[b]), NEW a, a = AskRlim(e, b, d)
  PROVE  Asked(w, a, b, d)
<1>1. e \in Worlds BY DEF Does
<1>2. Quiet(e, a, b) /\ a.grp = e.grp BY <1>1, AskRlimQuiet
<1>3. Does(Incref(w, b), a, b) BY <1>2, Twice DEF Quiet
<1>4. Moves(Incref(w, b), a, b) BY <1>3, DoesMoves
<1>5. SameLen(w, Incref(w, b)) BY IncrefIs
<1>6. SameLen(Incref(w, b), a) BY <1>3, DoesLen
<1>7. SameLen(w, a) BY <1>5, <1>6 DEF SameLen
<1>8. a.bev[b].susp[d] = {} =>
        /\ e.bev[b].susp[d] = {} /\ (b \in e.grp.members => d \notin e.grp.suspended)
        /\ a.bev[b].cfg = e.bev[b].cfg /\ a.bev[b].high = e.bev[b].high
        /\ e.bev[b].cfg # NoCfg => a.bev[b].limit[d]
             = Refilled(e.bev[b].limit[d], Burst[e.bev[b].cfg], e.bev[b].owed)
  BY <1>1, AskRlimQuiet
<1>9. /\ e.bev[b].susp = w.bev[b].susp /\ e.bev[b].cfg = w.bev[b].cfg
      /\ e.bev[b].limit = w.bev[b].limit /\ e.bev[b].owed = w.bev[b].owed
      /\ e.bev[b].high = w.bev[b].high
  BY DEF Bounds
<1> QED BY <1>2, <1>4, <1>7, <1>8, <1>9 DEF Asked

\* A handler that moves no bytes
LEMMA StillHandles ==
  ASSUME NEW w \in Worlds, NEW b \in Bevs, NEW y, Does(Incref(w, b), y, b)
  PROVE  Handles(w, y, b)
<1>1. Moves(Incref(w, b), y, b) BY DoesMoves
<1>2. SameLen(w, Incref(w, b)) BY IncrefIs
<1>3. SameLen(Incref(w, b), y) BY DoesLen
<1>4. SameLen(w, y) BY <1>2, <1>3 DEF SameLen
<1> QED BY <1>1, <1>4, SameWithin DEF Handles

LEMMA ReadCbHandles ==
  ASSUME NEW b \in Bevs, Now \in Worlds, ReadCb(b)
  PROVE  /\ \E y : Handles(Now, y, b) /\ Done(y, b)
         /\ loop.at = "taken" /\ loop.b = b /\ loop.k = "R"
<1>1. PICK w : w = Now OBVIOUS
<1>2. PICK h : h = Incref(w, b) OBVIOUS
<1>3. /\ w \in Worlds /\ h \in Worlds /\ h.grp = w.grp
      /\ Bounds(h.bev[b]) = Bounds(w.bev[b])
  BY <1>1, <1>2, IncrefIs
<1>4. /\ loop.at = "taken" /\ loop.b = b /\ loop.k = "R"
      /\ \/ Done(Fail(h, b, "R", "timeout"), b)
         \/ Done(Suspend(h, b, "R", "WM"), b)
         \/ ReadFrom(AskRlim(h, b, "R"), b)
  BY <1>1, <1>2 DEF ReadCb, Start
<1>5. CASE Done(Fail(h, b, "R", "timeout"), b)
  <2>1. PICK y : y = Fail(h, b, "R", "timeout") OBVIOUS
  <2>2. "timeout" \in Whats BY DEF Whats, Events
  <2>3. Does(h, y, b) BY <1>3, <2>1, <2>2, FailDoes, Directions
  <2>4. Handles(w, y, b) BY <1>2, <1>3, <2>3, StillHandles
  <2> QED BY <1>1, <1>4, <1>5, <2>1, <2>4
<1>6. CASE Done(Suspend(h, b, "R", "WM"), b)
  <2>1. PICK y : y = Suspend(h, b, "R", "WM") OBVIOUS
  <2>2. "WM" \in Reasons BY DEF Reasons
  <2>3. Quiet(h, y, b) BY <1>3, <2>1, <2>2, SuspendQuiet, Directions
  <2>4. Handles(w, y, b) BY <1>2, <1>3, <2>3, StillHandles DEF Quiet
  <2> QED BY <1>1, <1>4, <1>6, <2>1, <2>4
<1>7. CASE ReadFrom(AskRlim(h, b, "R"), b)
  <2>1. PICK a : a = AskRlim(h, b, "R") OBVIOUS
  <2>2. Does(h, h, b) BY <1>3, Nothing DEF Quiet
  <2>3. Asked(w, a, b, "R") BY <1>2, <1>3, <2>1, <2>2, AskedThen, Directions
  <2>4. ReadFrom(a, b) BY <1>7, <2>1
  <2>5. \E y : Handles(w, y, b) /\ Done(y, b) BY <1>3, <2>3, <2>4, ReadFromHandles
  <2> QED BY <1>1, <1>4, <2>5
<1> QED BY <1>4, <1>5, <1>6, <1>7

LEMMA WriteToHandles ==
  ASSUME NEW w \in Worlds, NEW b \in Bevs, NEW connected, NEW a, Asked(w, a, b, "W"),
         WriteTo(a, b, connected)
  PROVE  \E y : Handles(w, y, b) /\ Done(y, b)
<1>0. a \in Worlds /\ a.bev[b] \in Bev /\ a.bev[b].len = w.bev[b].len
  BY DEF Asked, Moves, SameLen, Worlds
<1>1. ASSUME NEW y, Does(a, y, b), Done(y, b) PROVE Handles(w, y, b) /\ Done(y, b)
  BY <1>1, DoesHandles
<1>2. CASE Done(a, b)
  <2>1. Does(a, a, b) BY <1>0, Nothing DEF Quiet
  <2> QED BY <1>1, <1>2, <2>1
<1>3. CASE Done(Fail(a, b, "W", "error"), b)
  <2>1. PICK y : y = Fail(a, b, "W", "error") OBVIOUS
  <2>2. "error" \in Whats BY DEF Whats, Events
  <2>3. Does(a, y, b) BY <1>0, <2>1, <2>2, FailDoes, Directions
  <2> QED BY <1>1, <1>3, <2>1, <2>3
<1>4. CASE Done(IF connected THEN Del(a, b, "W") ELSE Trigger(Del(a, b, "W"), b, "W"), b)
  <2>1. PICK z : z = Del(a, b, "W") OBVIOUS
  <2>2. Quiet(a, z, b) BY <1>0, <2>1, DelQuiet
  <2>3. z \in Worlds BY <2>2 DEF Quiet, Does
  <2>4. PICK y : y = IF connected THEN z ELSE Trigger(z, b, "W") OBVIOUS
  <2>5. Does(z, y, b) BY <2>3, <2>4, TriggerDoes, Nothing DEF Quiet
  <2>6. Does(a, y, b) BY <2>2, <2>5, Twice DEF Quiet
  <2>7. Done(y, b) BY <1>4, <2>1, <2>4
  <2> QED BY <1>1, <2>6, <2>7
<1> DEFINE Sent(n, busy) == Spend([a EXCEPT !.bev[b].len["W"] = @ - n], b, "W", n, busy)
           Sending(n, busy) == Trigger(IF n = a.bev[b].len["W"] THEN Del(Sent(n, busy), b, "W")
                                       ELSE Sent(n, busy), b, "W")
<1>5. ASSUME a.bev[b].susp["W"] = {},
             NEW n \in 1 .. Least(a.bev[b].len["W"], RlimMax(a, b, "W")), NEW busy,
             NEW y, y = Sending(n, busy)
      PROVE  Handles(w, y, b)
  <2>1. a.bev[b].len["W"] \in Int BY <1>0, Directions DEF Bev
  <2>3. MayMove(w, b, "W", n) /\ n \in Nat \ {0} BY <1>5, <2>1, MayMoveThat, Directions
  <2>4. PICK m \in Int : m = a.bev[b].len["W"] - n BY <2>1, <2>3
  <2>5. PICK s : s = [a EXCEPT !.bev[b].len["W"] = m] OBVIOUS
  <2>6. Moves(a, s, b) /\ OnlyLen(a, s, b, "W", m) BY <1>0, <2>5, SetLen, Directions
  <2>7. s \in Worlds BY <2>6 DEF Moves
  <2>8. PICK t : t = Spend(s, b, "W", n, busy) OBVIOUS
  <2>9. Quiet(s, t, b) BY <2>3, <2>7, <2>8, SpendQuiet, Directions
  <2>10. t \in Worlds BY <2>9 DEF Quiet, Does
  <2>19. t = Sent(n, busy)
    <3>1. s = [a EXCEPT !.bev[b].len["W"] = @ - n] BY <2>4, <2>5
    <3> QED BY <2>8, <3>1
  <2> HIDE DEF Sent
  <2>20. PICK u : u = IF n = a.bev[b].len["W"] THEN Del(t, b, "W") ELSE t OBVIOUS
  <2>21. Quiet(t, u, b) BY <2>10, <2>20, DelQuiet, Nothing
  <2>22. u \in Worlds BY <2>21 DEF Quiet, Does
  <2>23. y = Trigger(u, b, "W") BY <1>5, <2>19, <2>20
  <2>11. Does(u, y, b) BY <2>22, <2>23, TriggerDoes
  <2>12. Does(s, y, b) BY <2>9, <2>11, <2>21, Twice DEF Quiet
  <2>13. Moves(a, y, b) /\ OnlyLen(a, y, b, "W", m) BY <2>6, <2>12, OnlyLenDoes
  <2>14. Moves(Incref(w, b), y, b) BY <2>13, MovesTwice DEF Asked
  <2>15. OnlyLen(w, y, b, "W", m) BY <2>13 DEF OnlyLen, Asked, SameLen
  <2>16. w.bev[b].len["W"] - m = n BY <1>0, <2>1, <2>3, <2>4
  <2>18. \A c \in Bevs : WithinLimits(w, y, c)
    BY <2>3, <2>15, <2>16, OnlyWithin, Directions
  <2> QED BY <2>14, <2>18 DEF Handles
<1>6. ASSUME a.bev[b].susp["W"] = {},
             NEW n \in 1 .. Least(a.bev[b].len["W"], RlimMax(a, b, "W")), NEW busy,
             Done(Sending(n, busy), b)
      PROVE  \E y : Handles(w, y, b) /\ Done(y, b)
  <2>1. PICK y : y = Sending(n, busy) OBVIOUS
  <2>2. Handles(w, y, b) BY <1>5, <1>6, <2>1
  <2>3. Done(y, b) BY <1>6, <2>1
  <2> QED BY <2>2, <2>3
<1>7. \/ Done(a, b) \/ Done(Fail(a, b, "W", "error"), b)
      \/ Done(IF connected THEN Del(a, b, "W") ELSE Trigger(Del(a, b, "W"), b, "W"), b)
      \/ /\ a.bev[b].susp["W"] = {}
         /\ \E n \in 1 .. Least(a.bev[b].len["W"], RlimMax(a, b, "W")) :
              \E busy : Done(Sending(n, busy), b)
  BY DEF WriteTo
<1> HIDE DEF Sent, Sending
<1> QED BY <1>2, <1>3, <1>4, <1>6, <1>7

LEMMA ConnectedBounds ==
  ASSUME NEW h \in Worlds, NEW b \in Bevs, Finished(h.bev[b]) = 1, "W" \in h.bev[b].enabled,
         h.bev[b].susp["W"] = {}, NEW e, e = EndConnect(h, b)
  PROVE  e.grp = h.grp /\ Bounds(e.bev[b]) = Bounds(h.bev[b])
<1>0. h.bev[b] \in Bev BY DEF Worlds
<1>1. PICK v : v = [h.bev[b] EXCEPT !.connecting = FALSE, !.refused = FALSE] OBVIOUS
<1>2. v \in Bev /\ Bounds(v) = Bounds(h.bev[b]) BY <1>0, <1>1 DEF Bev, Bounds
<1>3. PICK over : over = [h EXCEPT !.bev[b] = v] OBVIOUS
<1>4. over \in Worlds /\ over.grp = h.grp /\ over.bev[b] = v BY <1>2, <1>3 DEF Worlds
<1>5. over = Over(h, b) BY <1>1, <1>3 DEF Worlds, Over
<1>6. e = RunCb(over, b, "connected") BY <1>5 DEF EndConnect
<1>7. CASE e = over BY <1>2, <1>4, <1>7
<1>8. CASE e # over
  <2>1. PICK t : t = [over.bev[b] EXCEPT !.tell = @ \cup {"connected"}] OBVIOUS
  <2>2. over.bev[b] \in Bev BY <1>4 DEF Worlds
  <2>3. t \in Bev /\ Bounds(t) = Bounds(v) BY <1>4, <2>1, <2>2 DEF Bev, Bounds, Events
  <2>4. PICK y : y = [over EXCEPT !.bev[b] = t] OBVIOUS
  <2>5. y \in Worlds /\ y.grp = over.grp /\ y.bev[b] = t BY <1>4, <2>3, <2>4 DEF Worlds
  <2>6. y = [over EXCEPT !.bev[b].tell = @ \cup {"connected"}] BY <2>1, <2>4
  <2>7. e = Schedule(y, b) BY <1>6, <1>8, <2>6 DEF RunCb
  <2>8. CASE e = y BY <1>2, <1>4, <2>3, <2>5, <2>8
  <2>9. CASE e # y
    <3>1. PICK q : q = Append(y.queue, Entry(b, "D", "none")) OBVIOUS
    <3>2. PICK n : n = y.bev[b].refcnt + 1 OBVIOUS
    <3>3. e = [y EXCEPT !.queue = q, !.bev[b].refcnt = n] BY <2>7, <2>9, <3>1, <3>2 DEF Schedule
    <3>4. PICK u : u = [y.bev[b] EXCEPT !.refcnt = n] OBVIOUS
    <3>5. Bounds(u) = Bounds(y.bev[b]) BY <2>3, <2>5, <3>4 DEF Bev, Bounds
    <3>6. e.grp = y.grp /\ e.bev[b] = u BY <2>5, <3>3, <3>4 DEF Worlds
    <3> QED BY <1>2, <1>4, <2>3, <2>5, <3>5, <3>6
  <2> QED BY <2>8, <2>9
<1> QED BY <1>7, <1>8

LEMMA WriteCbHandles ==
  ASSUME NEW b \in Bevs, Now \in Worlds, WriteCb(b)
  PROVE  /\ \E y : Handles(Now, y, b) /\ Done(y, b)
         /\ loop.at = "taken" /\ loop.b = b /\ loop.k = "W"
<1>1. PICK w : w = Now OBVIOUS
<1>2. PICK h : h = Incref(w, b) OBVIOUS
<1>3. /\ w \in Worlds /\ h \in Worlds /\ h.grp = w.grp
      /\ Bounds(h.bev[b]) = Bounds(w.bev[b])
  BY <1>1, <1>2, IncrefIs
<1>4. PICK e : e = EndConnect(h, b) OBVIOUS
<1>5. Does(h, e, b) BY <1>3, <1>4, EndConnectDoes
<1>6. /\ loop.at = "taken" /\ loop.b = b /\ loop.k = "W"
      /\ \/ Done(Fail(h, b, "W", "timeout"), b)
         \/ Done(e, b)
         \/ /\ Finished(w.bev[b]) = 1 /\ "W" \in w.bev[b].enabled /\ w.bev[b].susp["W"] = {}
            /\ WriteTo(AskRlim(e, b, "W"), b, TRUE)
         \/ WriteTo(AskRlim(h, b, "W"), b, FALSE)
  <2>1. PICK v : v = bev[b] OBVIOUS
  <2>2. w.bev[b] = v BY <1>1, <2>1 DEF Now
  <2>3. h = Incref(Now, b) BY <1>1, <1>2
  <2>6. Start(b, "W", "timeout") \/ Start(b, "W", "io") BY Zenon DEF WriteCb
  <2>4. loop.at = "taken" /\ loop.b = b /\ loop.k = "W" BY <2>6 DEF Start
  <2>5. \/ Done(Fail(h, b, "W", "timeout"), b)
        \/ Done(e, b)
        \/ /\ Finished(v) = 1 /\ "W" \in v.enabled /\ v.susp["W"] = {}
           /\ WriteTo(AskRlim(e, b, "W"), b, TRUE)
        \/ WriteTo(AskRlim(h, b, "W"), b, FALSE)
    BY <1>4, <2>1, <2>3, Zenon DEF WriteCb
  <2> QED BY <2>2, <2>4, <2>5
<1>7. CASE Done(Fail(h, b, "W", "timeout"), b)
  <2>1. PICK y : y = Fail(h, b, "W", "timeout") OBVIOUS
  <2>2. "timeout" \in Whats BY DEF Whats, Events
  <2>3. Does(h, y, b) BY <1>3, <2>1, <2>2, FailDoes, Directions
  <2>4. Handles(w, y, b) BY <1>2, <1>3, <2>3, StillHandles
  <2> QED BY <1>1, <1>6, <1>7, <2>1, <2>4
<1>8. CASE Done(e, b)
  <2>1. Handles(w, e, b) BY <1>2, <1>3, <1>5, StillHandles
  <2> QED BY <1>1, <1>6, <1>8, <2>1
<1>9. CASE /\ Finished(w.bev[b]) = 1 /\ "W" \in w.bev[b].enabled /\ w.bev[b].susp["W"] = {}
           /\ WriteTo(AskRlim(e, b, "W"), b, TRUE)
  <2>1. PICK a : a = AskRlim(e, b, "W") OBVIOUS
  <2>2. h.bev[b] = [w.bev[b] EXCEPT !.refcnt = @ + 1] BY <1>2, <1>3 DEF Incref, Worlds
  <2>3. /\ h.bev[b].enabled = w.bev[b].enabled /\ h.bev[b].susp = w.bev[b].susp
        /\ h.bev[b].sock = w.bev[b].sock /\ h.bev[b].refused = w.bev[b].refused
    BY <1>3, <2>2 DEF Worlds, Bev
  <2>4. Finished(h.bev[b]) = 1 BY <1>9, <2>3 DEF Finished
  <2>5. e.grp = h.grp /\ Bounds(e.bev[b]) = Bounds(h.bev[b])
    BY <1>3, <1>4, <1>9, <2>3, <2>4, ConnectedBounds
  <2>6. Asked(w, a, b, "W") BY <1>2, <1>3, <1>5, <2>1, <2>5, AskedThen, Directions
  <2>7. WriteTo(a, b, TRUE) BY <1>9, <2>1
  <2>8. \E y : Handles(w, y, b) /\ Done(y, b) BY <1>3, <2>6, <2>7, WriteToHandles
  <2> QED BY <1>1, <1>6, <2>8
<1>10. CASE WriteTo(AskRlim(h, b, "W"), b, FALSE)
  <2>1. PICK a : a = AskRlim(h, b, "W") OBVIOUS
  <2>2. Does(h, h, b) BY <1>3, Nothing DEF Quiet
  <2>3. Asked(w, a, b, "W") BY <1>2, <1>3, <2>1, <2>2, AskedThen, Directions
  <2>4. WriteTo(a, b, FALSE) BY <1>10, <2>1
  <2>5. \E y : Handles(w, y, b) /\ Done(y, b) BY <1>3, <2>3, <2>4, WriteToHandles
  <2> QED BY <1>1, <1>6, <2>5
<1> QED BY <1>6, <1>7, <1>8, <1>9, <1>10

---------------------------------------------------------------------------
(* The steps                                                               *)

Within(w, x) == \A c \in Bevs : WithinLimits(w, x, c)

LEMMA NowIs == ASSUME NEW x \in Worlds, Becomes(x) PROVE Now' = x
<1>1. x = [bev |-> x.bev, grp |-> x.grp, queue |-> x.queue] BY DEF Worlds
<1> QED BY <1>1 DEF Becomes, Now

\* The callback that is running when a reference to b is given back
LEMMA RunningKind ==
  ASSUME NEW w, NEW b \in Bevs, LoopFits(w, loop) PROVE Running(b) \in Kinds \cup {"none"}
BY Sizes DEF LoopFits, Running, Kinds

LEMMA HandlerStep ==
  ASSUME Sound(Now, loop), "bufferevent_decref_and_unlock_" \in Repaired,
         NEW b \in Bevs, loop.at = "taken", loop.b = b, loop.k # "D",
         NEW y, Handles(Now, y, b), Done(y, b)
  PROVE  Sound(Now', loop') /\ Within(Now, Now')
<1>1. PICK x : x = Decref(y, b) OBVIOUS
<1>2. Becomes(x) /\ loop' = Idle(x.queue) BY <1>1 DEF Done
<1>3. LoopFits(Now, loop) /\ Now \in Worlds BY DEF Sound, Base
<1>4. Running(b) \in Kinds \cup {"none"} BY <1>3, RunningKind
<1>5. Now.bev[b].st = "live" BY <1>3 DEF LoopFits
<1>6. Sound(x, loop) BY <1>1, <1>4, <1>5, HandlerSound DEF Handles
<1>7. Sound(x, Idle(x.queue)) BY <1>6, ToIdle DEF AtDeferred
<1>8. x \in Worlds /\ y \in Worlds BY <1>6 DEF Sound, Base, Handles, Moves
<1>9. SameLen(y, x) BY <1>1, <1>8, DecrefLen
<1>10. Within(Now, x) BY <1>9, WithinThen DEF Within, Handles
<1>11. Now' = x BY <1>2, <1>8, NowIs
<1> QED BY <1>2, <1>7, <1>10, <1>11

LEMMA ReadCbStep ==
  ASSUME Sound(Now, loop), "bufferevent_decref_and_unlock_" \in Repaired,
         NEW b \in Bevs, ReadCb(b)
  PROVE  Sound(Now', loop') /\ Within(Now, Now')
<1>1. Now \in Worlds BY DEF Sound, Base
<1>2. /\ \E y : Handles(Now, y, b) /\ Done(y, b)
      /\ loop.at = "taken" /\ loop.b = b /\ loop.k = "R"
  BY <1>1, ReadCbHandles
<1>3. PICK y : Handles(Now, y, b) /\ Done(y, b) BY <1>2
<1>4. loop.k # "D" BY <1>2
<1> QED BY <1>2, <1>3, <1>4, HandlerStep

LEMMA WriteCbStep ==
  ASSUME Sound(Now, loop), "bufferevent_decref_and_unlock_" \in Repaired,
         NEW b \in Bevs, WriteCb(b)
  PROVE  Sound(Now', loop') /\ Within(Now, Now')
<1>1. Now \in Worlds BY DEF Sound, Base
<1>2. /\ \E y : Handles(Now, y, b) /\ Done(y, b)
      /\ loop.at = "taken" /\ loop.b = b /\ loop.k = "W"
  BY <1>1, WriteCbHandles
<1>3. PICK y : Handles(Now, y, b) /\ Done(y, b) BY <1>2
<1>4. loop.k # "D" BY <1>2
<1> QED BY <1>2, <1>3, <1>4, HandlerStep

\* The deferred callback of b: the reference it was scheduled with goes at its end.
LEMMA TellStep ==
  ASSUME Sound(Now, loop), "bufferevent_decref_and_unlock_" \in Repaired,
         NEW b \in Bevs, loop.at \in {"taken", "telling"}, loop.b = b, loop.k = "D",
         NEW i, TellFrom(Now, b, i)
  PROVE  Sound(Now', loop') /\ Within(Now, Now')
<1>1. PICK w : w = Now OBVIOUS
<1>2. /\ Sound(w, loop) /\ w \in Worlds /\ LoopFits(w, loop) /\ w.bev[b] \in Bev
      /\ w.bev[b].st = "live"
  BY <1>1 DEF Sound, Base, LoopFits, Worlds
<1>3. CASE Done(w, b)
  <2>1. PICK x : x = Decref(w, b) OBVIOUS
  <2>2. Becomes(x) /\ loop' = Idle(x.queue) BY <1>3, <2>1 DEF Done
  <2>3. PICK z : z = Less(w, b) OBVIOUS
  <2>4. PICK l : l = Idle(w.queue) OBVIOUS
  <2>5. /\ z \in Worlds /\ z.grp = w.grp /\ z.queue = w.queue
        /\ \A c \in Bevs \ {b} : z.bev[c] = w.bev[c]
        /\ z.bev[b].refcnt = w.bev[b].refcnt - 1 /\ Same(w.bev[b], z.bev[b])
    BY <1>2, <2>3, LessWorld
  <2>6. l.b = None /\ l.at \in {"poll", "run"} /\ (l.at = "poll" => w.queue = << >>)
    BY <2>4 DEF Idle
  <2>7. \A c \in Bevs : z.bev[c].st = w.bev[c].st /\ z.bev[c].final = w.bev[c].final
    BY <2>5 DEF Same, Keeps
  <2>8. QueueFits(z, l)
    <3>1. w.queue = << >> => Tasks(w.queue) = {} BY DEF Tasks
    <3>2. ASSUME NEW e \in Tasks(w.queue) PROVE e.b # None => e.b \in Bevs
      <4>1. e \in Entries BY <1>2 DEF Worlds, Tasks
      <4> QED BY <4>1 DEF Entries
    <3>3. QueueFits(w, loop) BY <1>2 DEF Sound, Base
    <3> QED BY <2>5, <2>6, <2>7, <3>1, <3>2, <3>3 DEF QueueFits
  <2>9. LoopFits(z, l) BY <2>6, Sizes DEF LoopFits
  <2>10. Counted(w, loop, b) /\ Alive(w, b) BY <1>2 DEF Sound, Base
  <2>11. \A c \in Bevs : ~AtDeferred(l, c) /\ (AtDeferred(loop, c) <=> c = b)
    BY <2>6 DEF AtDeferred
  <2>12. Counted(z, l, b) /\ z.bev[b].st = "live"
    <3> DEFINE o == Of(w.bev[b].own = TRUE)
               k == Of(w.bev[b].lookup # "no")
               d == Of(Deferred(w, b))
    <3>1. o \in {0, 1} /\ k \in {0, 1} /\ d \in {0, 1} BY DEF Of
    <3>2. Of(AtDeferred(loop, b)) = 1 /\ Of(AtDeferred(l, b)) = 0 BY <2>11 DEF Of
    <3>3. w.bev[b].refcnt = o + k + d + 1 BY <1>2, <2>10, <3>2 DEF Counted
    <3>4. /\ Of(z.bev[b].own = TRUE) = o /\ Of(z.bev[b].lookup # "no") = k
          /\ Of(Deferred(z, b)) = d
      <4>1. z.bev[b].own = w.bev[b].own /\ (z.bev[b].lookup = "no" <=> w.bev[b].lookup = "no")
        BY <2>5 DEF Same, Keeps
      <4>2. Of(z.bev[b].own = TRUE) = o BY <4>1 DEF Of
      <4>3. Of(z.bev[b].lookup # "no") = k BY <4>1 DEF Of
      <4>4. Of(Deferred(z, b)) = d BY <2>5 DEF Deferred
      <4> QED BY <4>2, <4>3, <4>4
    <3> HIDE DEF o, k, d
    <3>5. z.bev[b].refcnt = o + k + d + 0 /\ w.bev[b].refcnt > 0 BY <2>5, <3>1, <3>3
    <3>6. w.bev[b].final = {} /\ z.bev[b].final = {} BY <1>2, <2>7, <2>10, <3>5 DEF Alive
    <3>7. z.bev[b].own = FALSE => z.bev[b].cbs = FALSE
      BY <1>2, <2>5, <2>10 DEF Counted, Same, Keeps
    <3> QED BY <1>2, <2>7, <3>2, <3>4, <3>5, <3>6, <3>7 DEF Counted, Kinds
  <2>13. ASSUME NEW c \in Bevs \ {b} PROVE Counted(z, l, c) /\ Alive(z, c)
    <3>1. Of(AtDeferred(l, c)) = Of(AtDeferred(loop, c)) BY <2>11 DEF Of
    <3>2. Of(Deferred(z, c)) = Of(Deferred(w, c)) BY <2>5 DEF Deferred
    <3>3. Counted(w, loop, c) /\ Alive(w, c) BY <1>2 DEF Sound, Base
    <3>4. z.bev[c] = w.bev[c] BY <2>5
    <3>5. Counted(z, l, c) BY <2>5, <3>1, <3>2, <3>3, <3>4 DEF Counted
    <3> QED BY <3>3, <3>4, <3>5 DEF Alive
  <2>14. Base(z, l) BY <2>5, <2>8, <2>9, <2>12, <2>13 DEF Base
  <2>15. Running(b) \in Kinds \cup {"none"} BY <1>2, RunningKind
  <2>16. Sound(x, l) BY <2>1, <2>3, <2>12, <2>13, <2>14, <2>15, DecrefSound
  <2>17. Sound(x, Idle(x.queue)) BY <2>11, <2>16, ToIdle
  <2>18. x \in Worlds BY <2>16 DEF Sound, Base
  <2>19. SameLen(w, x) BY <1>2, <2>1, DecrefLen
  <2>20. Within(w, x) BY <1>2, <2>19, SameWithin DEF Within
  <2> QED BY <1>1, <2>2, <2>17, <2>18, <2>20, NowIs
<1>4. CASE /\ loop'.at = "telling" /\ loop'.b = b /\ loop'.k = "D"
           /\ \E what, S : Becomes([w EXCEPT !.bev[b].tell = @ \ Tells(what),
                                             !.bev[b].greet = IF S = {} THEN @ ELSE FALSE])
  <2>1. PICK what, S :
          Becomes([w EXCEPT !.bev[b].tell = @ \ Tells(what),
                            !.bev[b].greet = IF S = {} THEN @ ELSE FALSE])
    BY <1>4
  <2>2. PICK g : g = IF S = {} THEN w.bev[b].greet ELSE FALSE OBVIOUS
  <2>21. g \in BOOLEAN BY <1>2, <2>2 DEF Bev
  <2>3. PICK v : v = [w.bev[b] EXCEPT !.tell = @ \ Tells(what), !.greet = g] OBVIOUS
  <2>4. v \in Bev /\ Same(w.bev[b], v) /\ v.refcnt = w.bev[b].refcnt
    <3>4. PICK s : s = w.bev[b].tell \ Tells(what) OBVIOUS
    <3>5. s \in SUBSET (Events \cup {"read", "write"}) BY <1>2, <3>4 DEF Bev
    <3>6. PICK u \in Bev : u = w.bev[b] BY <1>2
    <3>7. v = [u EXCEPT !.tell = s, !.greet = g] BY <2>3, <3>4, <3>6
    <3>1. v \in Bev BY <2>21, <3>5, <3>7 DEF Bev
    <3>2. Same(w.bev[b], v) BY <3>6, <3>7 DEF Bev, Same, Keeps
    <3>3. v.refcnt = w.bev[b].refcnt BY <3>6, <3>7 DEF Bev
    <3> QED BY <3>1, <3>2, <3>3
  <2>5. PICK x : x = [w EXCEPT !.bev[b] = v] OBVIOUS
  <2>6. Becomes(x)
    <3>1. x = [w EXCEPT !.bev[b].tell = @ \ Tells(what),
                        !.bev[b].greet = IF S = {} THEN @ ELSE FALSE]
      BY <1>2, <2>2, <2>3, <2>5 DEF Worlds
    <3> QED BY <2>1, <3>1
  <2>7. Quiet(w, x, b) BY <1>2, <2>4, <2>5, Touch
  <2>8. Sound(x, loop) BY <1>2, <2>7, DoesMoves, MovesSound DEF Quiet, For
  <2>9. \A c \in Bevs : AtDeferred(loop', c) <=> AtDeferred(loop, c) BY <1>4 DEF AtDeferred
  <2>10. Sound(x, loop')
    <3>1. \A c \in Bevs : Of(AtDeferred(loop', c)) = Of(AtDeferred(loop, c)) BY <2>9 DEF Of
    <3>2. \A c \in Bevs : Counted(x, loop', c) BY <2>8, <3>1 DEF Sound, Base, Counted
    <3>3. QueueFits(x, loop') BY <1>4, <2>8 DEF Sound, Base, QueueFits
    <3>4. LoopFits(x, loop') BY <1>4, <2>8 DEF Sound, Base, LoopFits
    <3> QED BY <2>8, <3>2, <3>3, <3>4 DEF Sound, Base
  <2>11. x \in Worlds BY <2>8 DEF Sound, Base
  <2>12. Within(w, x) BY <1>2, <2>7, DoesLen, SameWithin DEF Quiet, Within
  <2> QED BY <1>1, <2>6, <2>10, <2>11, <2>12, NowIs
<1>5. \/ Done(w, b)
      \/ \E what, S :
           /\ Becomes([w EXCEPT !.bev[b].tell = @ \ Tells(what),
                                !.bev[b].greet = IF S = {} THEN @ ELSE FALSE])
           /\ loop' = [at |-> "telling", b |-> b, k |-> "D", what |-> what]
  BY <1>1, Zenon DEF TellFrom
<1>6. CASE \E what, S :
             /\ Becomes([w EXCEPT !.bev[b].tell = @ \ Tells(what),
                                  !.bev[b].greet = IF S = {} THEN @ ELSE FALSE])
             /\ loop' = [at |-> "telling", b |-> b, k |-> "D", what |-> what]
  <2>1. \E what : loop' = [at |-> "telling", b |-> b, k |-> "D", what |-> what] BY <1>6
  <2>2. loop'.at = "telling" /\ loop'.b = b /\ loop'.k = "D" BY <2>1
  <2>3. \E what, S : Becomes([w EXCEPT !.bev[b].tell = @ \ Tells(what),
                                       !.bev[b].greet = IF S = {} THEN @ ELSE FALSE])
    BY <1>6
  <2> QED BY <1>4, <2>2, <2>3
<1> QED BY <1>3, <1>5, <1>6

\* A step that moves b, or none, and leaves the loop where it is or makes it idle.
LEMMA MovesStep ==
  ASSUME Sound(Now, loop), NEW b, NEW x, Moves(Now, x, b), For(Now, x, b), Within(Now, x),
         Becomes(x),
         loop' = loop \/ (loop' = Idle(x.queue) /\ \A c \in Bevs : ~AtDeferred(loop, c))
  PROVE  Sound(Now', loop') /\ Within(Now, Now')
<1>1. Sound(x, loop) BY MovesSound
<1>2. Sound(x, loop') BY <1>1, ToIdle
<1>3. Now' = x BY NowIs DEF Moves
<1> QED BY <1>2, <1>3

LEMMA DoesStep ==
  ASSUME Sound(Now, loop), NEW b, NEW x, Does(Now, x, b), For(Now, x, b), Becomes(x),
         loop' = loop \/ (loop' = Idle(x.queue) /\ \A c \in Bevs : ~AtDeferred(loop, c))
  PROVE  Sound(Now', loop') /\ Within(Now, Now')
<1>1. Moves(Now, x, b) BY DoesMoves
<1>2. Within(Now, x) BY DoesLen, SameWithin DEF Within, Sound, Base
<1> QED BY <1>1, <1>2, MovesStep

LEMMA RefillQuiet ==
  ASSUME NEW w \in Worlds, NEW b \in Bevs, w.bev[b].cfg # NoCfg,
         NEW x, x = RefillOf(UpdateBuckets(w, b), b)
  PROVE  Quiet(w, x, b)
<1>1. PICK u : u = UpdateBuckets(w, b) OBVIOUS
<1>2. Quiet(w, u, b) BY <1>1, BucketsQuiet
<1>3. u \in Worlds BY <1>2 DEF Quiet, Does
<1>4. PICK ds : ds = {d \in D : "BW" \in u.bev[b].susp[d] /\ u.bev[b].limit[d] > 0} OBVIOUS
<1>5. PICK y : y = UnsuspendAll(u, b, ds, "BW") OBVIOUS
<1>6. Quiet(u, y, b) BY <1>3, <1>5, UnsuspendAllQuiet
<1>7. y \in Worlds BY <1>6 DEF Quiet, Does
<1>8. x = y \/ x = Add(y, b, "T") BY <1>1, <1>4, <1>5 DEF RefillOf
<1>9. Quiet(y, x, b) BY <1>7, <1>8, AddQuiet, Nothing
<1> QED BY <1>2, <1>6, <1>9, QuietTwice

LEMMA RefillStep ==
  ASSUME Sound(Now, loop), NEW b \in Bevs, Refill(b)
  PROVE  Sound(Now', loop') /\ Within(Now, Now')
<1>1. PICK w : w = Now OBVIOUS
<1>2. w \in Worlds /\ LoopFits(w, loop) BY <1>1 DEF Sound, Base
<1>3. loop.at = "taken" /\ loop.b = b /\ loop.k = "T" BY DEF Refill, Start
<1>4. PICK x : x = IF w.bev[b].cfg = NoCfg THEN w ELSE RefillOf(UpdateBuckets(w, b), b) OBVIOUS
<1>5. Becomes(x) /\ loop' = Idle(x.queue) BY <1>1, <1>4 DEF Refill, Now
<1>6. Quiet(w, x, b) BY <1>2, <1>4, RefillQuiet, Nothing
<1>7. w.bev[b].st = "live" BY <1>2, <1>3 DEF LoopFits
<1>8. \A c \in Bevs : ~AtDeferred(loop, c) BY <1>3 DEF AtDeferred
<1>9. Does(Now, x, b) /\ For(Now, x, b) BY <1>1, <1>6, <1>7 DEF Quiet, For
<1> QED BY <1>5, <1>8, <1>9, DoesStep

LEMMA GroupRefillQuiet ==
  ASSUME NEW w \in Worlds, NEW ds, NEW busy, NEW b, NEW x,
         x = ResumeGroup(w, ds, busy)
  PROVE  Quiet(w, x, b)
<1>1. PICK r : r = IF "R" \in ds THEN GroupUnsuspend(w, "R", busy) ELSE w OBVIOUS
<1>2. Quiet(w, r, b) BY <1>1, GroupUnsuspendQuiet, Nothing, Directions
<1>3. r \in Worlds BY <1>2 DEF Quiet, Does
<1>4. x = IF "W" \in ds THEN GroupUnsuspend(r, "W", busy) ELSE r
  BY <1>1 DEF ResumeGroup, InTurn
<1>5. Quiet(r, x, b) BY <1>3, <1>4, GroupUnsuspendQuiet, Nothing, Directions
<1> QED BY <1>2, <1>5, QuietTwice

LEMMA GroupRefillStep ==
  ASSUME Sound(Now, loop), GroupRefill
  PROVE  Sound(Now', loop') /\ Within(Now, Now')
<1>1. PICK w : w = Now OBVIOUS
<1>2. w \in Worlds /\ w.grp \in Grp BY <1>1 DEF Sound, Base, Worlds
<1>3. loop.at = "taken" /\ loop.k = "G" BY DEF GroupRefill, Start
<1>4. PICK l : l = [d \in D |-> Refilled(w.grp.limit[d], GroupBurst, w.grp.owed)] OBVIOUS
<1>5. l \in [D -> Int]
  <2>1. \A d \in D : w.grp.limit[d] \in Int BY <1>2 DEF Grp
  <2>2. w.grp.owed \in Nat /\ GroupBurst \in Int BY <1>2, Sizes DEF Grp
  <2>3. \A d \in D : Refilled(w.grp.limit[d], GroupBurst, w.grp.owed) \in Int
    BY <2>1, <2>2, RefilledType
  <2> QED BY <1>4, <2>3
<1>6. PICK g : g = [w.grp EXCEPT !.limit = l, !.owed = 0] OBVIOUS
<1>7. g \in Grp /\ g.members = w.grp.members BY <1>2, <1>5, <1>6 DEF Grp
<1>8. PICK full : full = [w EXCEPT !.grp = g] OBVIOUS
<1>9. Quiet(w, full, None) BY <1>2, <1>7, <1>8, PutGroup
<1>10. full \in Worlds BY <1>9 DEF Quiet, Does
<1>11. full = UpdateGroup(Now)
  BY <1>1, <1>2, <1>4, <1>6, <1>8 DEF Worlds, UpdateGroup
<1>12. PICK ds, busy : /\ Becomes(ResumeGroup(full, ds, busy))
                       /\ loop' = Idle(ResumeGroup(full, ds, busy).queue)
  BY <1>11, Zenon DEF GroupRefill
<1>13. PICK x : x = ResumeGroup(full, ds, busy) OBVIOUS
<1>14. Becomes(x) /\ loop' = Idle(x.queue) BY <1>12, <1>13
<1>15. Quiet(full, x, None) BY <1>10, <1>13, GroupRefillQuiet
<1>16. Quiet(w, x, None) BY <1>9, <1>15, QuietTwice
<1>17. Does(Now, x, None) /\ For(Now, x, None) BY <1>1, <1>16, Sizes DEF Quiet, For
<1>18. \A c \in Bevs : ~AtDeferred(loop, c) BY <1>3 DEF AtDeferred
<1> QED BY <1>14, <1>17, <1>18, DoesStep

\* The loop takes an entry: what it has taken is what has left the queue.
LEMMA TakeStep ==
  ASSUME Sound(Now, loop), Take
  PROVE  Sound(Now', loop') /\ Within(Now, Now')
<1>1. PICK w : w = Now OBVIOUS
<1>2. PICK x : x = [w EXCEPT !.queue = Tail(w.queue)] OBVIOUS
<1>3. w \in Worlds /\ w.queue \in Seq(Entries) /\ QueueFits(w, loop)
  BY <1>1 DEF Sound, Base, Worlds
<1>4. w.queue # << >> /\ Head(w.queue).k # "free" /\ loop.at \in {"poll", "run"}
  BY <1>1 DEF Take, Now
<1>5. PICK e : e = Head(w.queue) OBVIOUS
<1>6. PICK q : q = Tail(w.queue) OBVIOUS
<1>7. /\ q \in Seq(Entries) /\ e \in Entries /\ e \in Tasks(w.queue)
      /\ Tasks(q) \subseteq Tasks(w.queue) /\ Tasks(w.queue) \subseteq Tasks(q) \cup {e}
      /\ Apart(q) /\ \A f \in Tasks(q) : f.b # e.b \/ f.k # e.k
  <2>1. Apart(w.queue) BY <1>3 DEF QueueFits
  <2> QED BY <1>3, <1>4, <1>5, <1>6, <2>1, Rest
<1>8. x \in Worlds /\ x.bev = w.bev /\ x.grp = w.grp /\ x.queue = q
  BY <1>2, <1>3, <1>6, <1>7 DEF Worlds
<1>9. Becomes(x) /\ loop' = [at |-> "taken", b |-> e.b, k |-> e.k, what |-> e.what]
  BY <1>1, <1>5, <1>6, <1>8 DEF Take, Now, Becomes
<1>10. loop'.at = "taken" /\ loop'.b = e.b /\ loop'.k = e.k BY <1>9
<1>11. /\ e.b = None <=> e.k = "G"
       /\ e.b # None => w.bev[e.b].st = "live"
       /\ e.k \in Kinds \cup {"G"} /\ e.b \in Bevs \cup {None}
  BY <1>3, <1>4, <1>5, <1>7 DEF QueueFits, Entries
<1>12. QueueFits(x, loop') BY <1>3, <1>7, <1>8, <1>10 DEF QueueFits
<1>13. LoopFits(x, loop') BY <1>8, <1>10, <1>11, Sizes DEF LoopFits
<1>14. ASSUME NEW c \in Bevs PROVE Counted(x, loop', c) /\ Alive(x, c)
  <2>1. Of(Deferred(x, c)) + Of(AtDeferred(loop', c))
          = Of(Deferred(w, c)) + Of(AtDeferred(loop, c))
    <3>1. ~AtDeferred(loop, c) BY <1>4 DEF AtDeferred
    <3>2. AtDeferred(loop', c) <=> (e.b = c /\ e.k = "D") BY <1>10 DEF AtDeferred
    <3>3. CASE e.b = c /\ e.k = "D"
      <4>1. Deferred(w, c) BY <1>7, <3>3 DEF Deferred
      <4>2. ~Deferred(x, c) BY <1>7, <1>8, <3>3 DEF Deferred
      <4> QED BY <3>1, <3>2, <3>3, <4>1, <4>2 DEF Of
    <3>4. CASE ~(e.b = c /\ e.k = "D")
      <4>1. Deferred(x, c) <=> Deferred(w, c) BY <1>7, <1>8, <3>4 DEF Deferred
      <4> QED BY <3>1, <3>2, <3>4, <4>1 DEF Of
    <3> QED BY <3>3, <3>4
  <2>2. Counted(w, loop, c) /\ Alive(w, c) BY <1>1 DEF Sound, Base
  <2>3. Counted(x, loop', c)
    <3> DEFINE o == Of(w.bev[c].own = TRUE)
               k == Of(w.bev[c].lookup # "no")
               d == Of(Deferred(w, c))
               a == Of(AtDeferred(loop, c))
               dd == Of(Deferred(x, c))
               aa == Of(AtDeferred(loop', c))
    <3>1. /\ o \in Int /\ k \in Int /\ d \in Int /\ a \in Int /\ dd \in Int /\ aa \in Int
      BY DEF Of
    <3>2. w.bev[c].st = "live" => w.bev[c].refcnt = o + k + d + a BY <2>2 DEF Counted
    <3>3. dd + aa = d + a BY <2>1
    <3> HIDE DEF o, k, d, a, dd, aa
    <3>4. w.bev[c].st = "live" => w.bev[c].refcnt = o + k + dd + aa BY <3>1, <3>2, <3>3
    <3>5. x.bev[c].st = "live" => x.bev[c].refcnt = Of(x.bev[c].own = TRUE)
             + Of(x.bev[c].lookup # "no") + Of(Deferred(x, c)) + Of(AtDeferred(loop', c))
      BY <1>8, <3>4 DEF o, k, dd, aa
    <3> QED BY <1>8, <2>2, <3>5 DEF Counted
  <2> QED BY <1>8, <2>2, <2>3 DEF Alive
<1>15. Sound(x, loop') BY <1>8, <1>12, <1>13, <1>14 DEF Sound, Base
<1>16. Within(w, x) BY <1>3, <1>8, SameWithin DEF Within, SameLen
<1> QED BY <1>1, <1>8, <1>9, <1>15, <1>16, NowIs

\* What is neither the program's nor a handler's doing keeps the references.
SameRefs(w, x) ==
  /\ x \in Worlds /\ \A c \in x.grp.members : x.bev[c].st = "live"
  /\ \A c \in Bevs :
       LET u == w.bev[c]
           v == x.bev[c]
       IN /\ v.st = u.st /\ v.own = u.own /\ v.refcnt = u.refcnt /\ v.final = u.final
          /\ v.cbs = u.cbs /\ v.lookup = u.lookup
          /\ u.final = Kinds \/ u.st # "live" => v.pend = u.pend /\ v.due = FALSE

LEMMA SameRefsSound ==
  ASSUME NEW w, NEW l, Sound(w, l), NEW x, SameRefs(w, x), x.queue = w.queue
  PROVE  Sound(x, l)
<1>1. QueueFits(x, l)
  <2>1. ASSUME NEW e \in Tasks(w.queue) PROVE e.b # None => e.b \in Bevs
    <3>1. e \in Entries BY DEF Sound, Base, Worlds, Tasks
    <3> QED BY <3>1 DEF Entries
  <2> QED BY <2>1 DEF Sound, Base, QueueFits, SameRefs
<1>2. LoopFits(x, l) BY DEF Sound, Base, LoopFits, SameRefs
<1>3. ASSUME NEW c \in Bevs PROVE Counted(x, l, c) /\ Alive(x, c)
  <2>1. Counted(w, l, c) /\ Alive(w, c) BY DEF Sound, Base
  <2>2. Of(Deferred(x, c)) = Of(Deferred(w, c)) BY DEF Deferred
  <2>3. PICK u, v : u = w.bev[c] /\ v = x.bev[c] OBVIOUS
  <2>4. /\ v.st = u.st /\ v.own = u.own /\ v.refcnt = u.refcnt /\ v.final = u.final
        /\ v.cbs = u.cbs /\ v.lookup = u.lookup
        /\ u.final = Kinds \/ u.st # "live" => v.pend = u.pend /\ v.due = FALSE
        /\ c \in x.grp.members => v.st = "live"
    BY <2>3 DEF SameRefs
  <2> QED BY <2>1, <2>2, <2>3, <2>4 DEF Counted, Alive
<1> QED BY <1>1, <1>2, <1>3 DEF Sound, Base, SameRefs

LEMMA FreshType ==
  ASSUME NEW s \in {"none", "up"}, NEW v, v = Fresh(s)
  PROVE  /\ v \in Bev /\ v.lookup = "no" /\ v.final = {} /\ v.due = FALSE /\ v.refcnt = 1
         /\ v.own = TRUE /\ v.cbs = TRUE /\ v.st = "live"
<1>1. [d \in D |-> {}] \in [D -> SUBSET Reasons] BY DEF Reasons
<1>2. [d \in D |-> 0] \in [D -> Int] OBVIOUS
<1>3. "W" \in D BY Directions
<1> HIDE DEF D
<1> QED BY <1>1, <1>2, <1>3 DEF Fresh, Bev

\* The finalizer: the entries of a bufferevent that is finalized are its own only.
LEMMA FinalizeCbStep ==
  ASSUME Sound(Now, loop), NEW b \in Bevs, FinalizeCb(b)
  PROVE  Sound(Now', loop') /\ Within(Now, Now')
<1>1. PICK w : w = Now OBVIOUS
<1>2. /\ w \in Worlds /\ w.queue \in Seq(Entries) /\ QueueFits(w, loop)
      /\ w.bev[b] \in Bev /\ w.grp \in Grp
  BY <1>1 DEF Sound, Base, Worlds
<1>3. /\ w.queue # << >> /\ Head(w.queue).k = "free" /\ Head(w.queue).b = b
      /\ loop.at \in {"poll", "run"}
  BY <1>1 DEF FinalizeCb, Now
<1>4. PICK e : e = Head(w.queue) OBVIOUS
<1>5. PICK q : q = Tail(w.queue) OBVIOUS
<1>6. /\ q \in Seq(Entries) /\ e \in Tasks(w.queue) /\ Tasks(q) \subseteq Tasks(w.queue)
      /\ Tasks(w.queue) \subseteq Tasks(q) \cup {e}
      /\ Apart(q) /\ \A f \in Tasks(q) : f.b # e.b \/ f.k # e.k
  <2>1. Apart(w.queue) BY <1>2 DEF QueueFits
  <2> QED BY <1>2, <1>3, <1>4, <1>5, <2>1, Rest
<1>7. b # None BY Sizes
<1>8. w.bev[b].final # {} /\ w.bev[b].st = "live" BY <1>2, <1>3, <1>4, <1>6, <1>7 DEF QueueFits
<1>9. Counted(w, loop, b) BY <1>1 DEF Sound, Base
<1>10. w.bev[b].final = Kinds /\ w.bev[b].pend = {} /\ w.bev[b].refcnt = 0
  BY <1>8, <1>9 DEF Counted
<1>11. \A f \in Tasks(q) : f.b # b
  <2> SUFFICES ASSUME NEW f \in Tasks(q), f.b = b PROVE FALSE OBVIOUS
  <2>1. f \in Tasks(w.queue) BY <1>6
  <2>2. f.k = "free" BY <1>2, <1>7, <1>8, <2>1 DEF QueueFits
  <2> QED BY <1>3, <1>4, <1>6, <2>2
<1>12. PICK v : v = Gone(w.bev[b]) OBVIOUS
<1>13. /\ v \in Bev /\ v.st = "freed" /\ v.own = FALSE /\ v.lookup = "no" /\ v.final = {}
       /\ v.due = FALSE /\ v.refcnt = 0 /\ v.pend = {}
  <2>1. PICK o : o = Fresh("none") OBVIOUS
  <2>2. o \in Bev /\ o.lookup = "no" /\ o.final = {} /\ o.due = FALSE
    BY <2>1, FreshType
  <2>3. v = [o EXCEPT !.st = "freed", !.own = FALSE, !.pend = w.bev[b].pend,
                      !.refcnt = w.bev[b].refcnt]
    BY <1>12, <2>1 DEF Gone
  <2>4. v.pend = {} /\ v.refcnt = 0 BY <1>2, <1>10, <2>2, <2>3 DEF Bev
  <2>5. v \in Bev BY <1>2, <2>2, <2>3 DEF Bev
  <2>6. /\ v.st = "freed" /\ v.own = FALSE /\ v.lookup = "no" /\ v.final = {}
        /\ v.due = FALSE
    BY <2>2, <2>3 DEF Bev
  <2> QED BY <2>4, <2>5, <2>6
<1>14. PICK g : g = [w.grp EXCEPT !.members = @ \ {b}] OBVIOUS
<1>15. g \in Grp /\ g.members = w.grp.members \ {b} BY <1>2, <1>14 DEF Grp
<1>16. PICK f : f = [w.bev EXCEPT ![b] = v] OBVIOUS
<1>17. f \in [Bevs -> Bev] /\ f[b] = v /\ \A c \in Bevs \ {b} : f[c] = w.bev[c]
  BY <1>2, <1>13, <1>16 DEF Worlds
<1>18. PICK x : x = [bev |-> f, grp |-> g, queue |-> q] OBVIOUS
<1>19. x \in Worlds /\ x.bev = f /\ x.grp = g /\ x.queue = q
  BY <1>6, <1>15, <1>17, <1>18 DEF Worlds
<1>20. Becomes(x) /\ loop' = Idle(x.queue)
  <2>1. bev' = f BY <1>1, <1>12, <1>16 DEF FinalizeCb, Now
  <2>2. grp' = g BY <1>1, <1>14 DEF FinalizeCb, Now
  <2>3. queue' = q /\ loop' = Idle(queue') BY <1>1, <1>5 DEF FinalizeCb, Now
  <2> QED BY <1>19, <2>1, <2>2, <2>3 DEF Becomes
<1>21. QueueFits(x, loop)
  <2>1. ASSUME NEW t \in Tasks(q) PROVE t.b # None => t.b \in Bevs \ {b}
    <3>1. t \in Entries BY <1>6 DEF Tasks
    <3> QED BY <1>11, <3>1 DEF Entries
  <2>2. \A t \in Tasks(q) : t.b # None => x.bev[t.b] = w.bev[t.b] BY <1>17, <1>19, <2>1
  <2> QED BY <1>2, <1>6, <1>19, <2>2 DEF QueueFits
<1>22. LoopFits(x, loop)
  <2>1. loop.b = None
    <3>1. LoopFits(w, loop) BY <1>1 DEF Sound, Base
    <3> QED BY <1>3, <3>1 DEF LoopFits
  <2> QED BY <1>3, <2>1, Sizes DEF LoopFits
<1>23. ASSUME NEW c \in Bevs PROVE Counted(x, loop, c) /\ Alive(x, c)
  <2>1. CASE c = b
    <3>1. v.final # Kinds BY <1>13 DEF Kinds
    <3> QED BY <1>13, <1>15, <1>17, <1>19, <2>1, <3>1 DEF Counted, Alive
  <2>2. CASE c # b
    <3>1. x.bev[c] = w.bev[c] BY <1>17, <1>19, <2>2
    <3>2. Deferred(x, c) <=> Deferred(w, c) BY <1>3, <1>4, <1>6, <1>19, <2>2 DEF Deferred
    <3>3. Of(Deferred(x, c)) = Of(Deferred(w, c)) BY <3>2 DEF Of
    <3>4. Counted(w, loop, c) /\ Alive(w, c) BY <1>1 DEF Sound, Base
    <3>5. c \notin w.grp.members => c \notin x.grp.members BY <1>15, <1>19
    <3> QED BY <3>1, <3>3, <3>4, <3>5 DEF Counted, Alive
  <2> QED BY <2>1, <2>2
<1>24. Sound(x, loop) BY <1>19, <1>21, <1>22, <1>23 DEF Sound, Base
<1>25. Sound(x, Idle(x.queue)) BY <1>3, <1>24, ToIdle DEF AtDeferred
<1>26. Within(w, x)
  <2> SUFFICES ASSUME NEW c \in Bevs PROVE WithinLimits(w, x, c) BY DEF Within
  <2>1. CASE c = b BY <1>13, <1>17, <1>19, <2>1 DEF WithinLimits
  <2>2. CASE c # b
    <3>1. x.bev[c] = w.bev[c] BY <1>17, <1>19, <2>2
    <3>2. WithinLimits(w, w, c) BY <1>2, SameWithin DEF SameLen
    <3> QED BY <3>1, <3>2 DEF WithinLimits
  <2> QED BY <2>1, <2>2
<1> QED BY <1>1, <1>19, <1>20, <1>25, <1>26, NowIs

---------------------------------------------------------------------------
(* Dispatch, time and the network                                          *)

LEMMA Both ==
  ASSUME NEW p \in Seq(Entries), NEW q \in Seq(Entries), NEW r, r = p \o q
  PROVE  /\ r \in Seq(Entries) /\ Tasks(r) = Tasks(p) \cup Tasks(q)
         /\ Apart(p) /\ Apart(q) /\ (\A e \in Tasks(p), f \in Tasks(q) : e.k # f.k) => Apart(r)
<1>1. PICK m, n : m = Len(p) /\ n = Len(q) OBVIOUS
<1>2. /\ m \in Nat /\ n \in Nat /\ DOMAIN p = 1 .. m /\ DOMAIN q = 1 .. n
      /\ r \in Seq(Entries) /\ DOMAIN r = 1 .. m + n
      /\ \A i \in 1 .. m + n : r[i] = IF i <= m THEN p[i] ELSE q[i - m]
  BY <1>1
<1>3. \A i \in 1 .. m + n :
        \/ i <= m /\ i \in 1 .. m /\ r[i] = p[i]
        \/ i > m /\ i - m \in 1 .. n /\ r[i] = q[i - m]
  BY <1>2
<1>4. Tasks(r) \subseteq Tasks(p) \cup Tasks(q) BY <1>2, <1>3 DEF Tasks
<1>5. Tasks(p) \subseteq Tasks(r)
  <2>1. \A i \in 1 .. m : i \in 1 .. m + n /\ r[i] = p[i] BY <1>2
  <2> QED BY <1>2, <2>1 DEF Tasks
<1>6. Tasks(q) \subseteq Tasks(r)
  <2>1. \A i \in 1 .. n : m + i \in 1 .. m + n /\ r[m + i] = q[i] BY <1>2
  <2> QED BY <1>2, <2>1 DEF Tasks
<1>7. ASSUME Apart(p), Apart(q), \A e \in Tasks(p), f \in Tasks(q) : e.k # f.k PROVE Apart(r)
  <2> SUFFICES ASSUME NEW i \in 1 .. m + n, NEW j \in 1 .. m + n, r[i].b = r[j].b, r[i].k = r[j].k
               PROVE  i = j
    BY <1>2 DEF Apart
  <2>1. \A g \in 1 .. m, h \in 1 .. n : p[g].k # q[h].k BY <1>2, <1>7 DEF Tasks
  <2>2. CASE i <= m /\ j <= m
    <3>1. i \in 1 .. m /\ j \in 1 .. m /\ r[i] = p[i] /\ r[j] = p[j] BY <1>2, <2>2
    <3> QED BY <1>2, <1>7, <3>1 DEF Apart
  <2>3. CASE i > m /\ j > m
    <3>1. i - m \in 1 .. n /\ j - m \in 1 .. n /\ r[i] = q[i - m] /\ r[j] = q[j - m]
      BY <1>2, <2>3
    <3>2. i - m = j - m BY <1>2, <1>7, <3>1 DEF Apart
    <3> QED BY <1>2, <3>2
  <2>4. CASE i <= m /\ j > m
    <3>1. i \in 1 .. m /\ j - m \in 1 .. n /\ r[i] = p[i] /\ r[j] = q[j - m] BY <1>2, <2>4
    <3> QED BY <2>1, <3>1
  <2>5. CASE i > m /\ j <= m
    <3>1. j \in 1 .. m /\ i - m \in 1 .. n /\ r[j] = p[j] /\ r[i] = q[i - m] BY <1>2, <2>5
    <3> QED BY <2>1, <3>1
  <2> QED BY <1>2, <2>2, <2>3, <2>4, <2>5
<1> QED BY <1>2, <1>4, <1>5, <1>6, <1>7

\* Events, timers and the refill of the group come into the queue.
LEMMA QueueMore ==
  ASSUME NEW w, NEW l, Sound(w, l), l.at \in {"poll", "run"}, NEW q \in Seq(Entries), Apart(q),
         Tasks(w.queue) \subseteq Tasks(q),
         \A e \in Tasks(q) \ Tasks(w.queue) :
           /\ e.k \notin {"D", "free"} /\ (e.b = None <=> e.k = "G")
           /\ e.b # None => w.bev[e.b].st = "live" /\ w.bev[e.b].final = {},
         NEW x, x = [w EXCEPT !.queue = q]
  PROVE  Sound(x, Idle(q))
<1>1. x \in Worlds /\ x.bev = w.bev /\ x.grp = w.grp /\ x.queue = q
  BY DEF Sound, Base, Worlds
<1>2. PICK i : i = Idle(q) OBVIOUS
<1>3. i.b = None /\ i.at \in {"poll", "run"} /\ (i.at = "poll" => q = << >>)
  BY <1>2 DEF Idle
<1>4. QueueFits(x, i)
  <2>1. q = << >> => Tasks(q) = {} BY DEF Tasks
  <2>2. \A e \in Tasks(q) :
          /\ e.b = None <=> e.k = "G"
          /\ e.b # None => /\ w.bev[e.b].st = "live"
                           /\ e.k = "free" <=> w.bev[e.b].final # {}
    BY DEF Sound, Base, QueueFits
  <2> QED BY <1>1, <1>3, <2>1, <2>2 DEF QueueFits
<1>5. LoopFits(x, i) BY <1>3, Sizes DEF LoopFits
<1>6. ASSUME NEW c \in Bevs PROVE Counted(x, i, c) /\ Alive(x, c)
  <2>1. Deferred(x, c) <=> Deferred(w, c) BY <1>1 DEF Deferred
  <2>2. Of(Deferred(x, c)) = Of(Deferred(w, c)) BY <2>1 DEF Of
  <2>3. ~AtDeferred(i, c) /\ ~AtDeferred(l, c) BY <1>3 DEF AtDeferred
  <2>4. Of(AtDeferred(i, c)) = Of(AtDeferred(l, c)) BY <2>3 DEF Of
  <2>5. Counted(w, l, c) /\ Alive(w, c) BY DEF Sound, Base
  <2> QED BY <1>1, <2>2, <2>4, <2>5 DEF Counted, Alive
<1> QED BY <1>1, <1>2, <1>4, <1>5, <1>6 DEF Sound, Base

LEMMA ReadyOnes ==
  ASSUME Sound(Now, loop), NEW e \in Ready
  PROVE  /\ e \in Entries /\ e.k \in {"R", "W"} /\ e.b # None
         /\ Now.bev[e.b].st = "live" /\ Now.bev[e.b].final = {}
<1>1. PICK b \in Bevs, d \in D : e = Entry(b, d, "io") \/ e = Entry(b, d, "timeout")
  BY DEF Ready
<1>2. e \in Entries /\ e.b = b /\ e.k = d BY <1>1, Directions DEF Entry, Entries, Kinds
<1>3. bev[b].st = "live" /\ d \in bev[b].pend BY <1>2 DEF Ready
<1>4. Counted(Now, loop, b) BY DEF Sound, Base
<1>5. Now.bev[b].final = {} BY <1>3, <1>4 DEF Counted, Now
<1> QED BY <1>2, <1>3, <1>5, Sizes, Directions DEF Now

LEMMA ArrivalsFit ==
  ASSUME Sound(Now, loop), NEW s \in Arrivals
  PROVE  s \in Seq(Entries) /\ Tasks(s) \subseteq Ready /\ Apart(s)
<1>1. \A e \in Ready : e \in Entries BY ReadyOnes
<1>2. Apart(s) BY DEF Arrivals, Apart
<1>3. s = << >> \/ (\E e \in Ready : s = <<e>>) \/ (\E e, f \in Ready : s = <<e, f>>)
  BY DEF Arrivals
<1>4. CASE s = << >> BY <1>2, <1>4 DEF Tasks
<1>5. CASE \E e \in Ready : s = <<e>>
  <2>1. PICK e \in Ready : s = <<e>> BY <1>5
  <2>2. DOMAIN s = {1} /\ s[1] = e BY <2>1
  <2>3. s \in Seq(Entries) BY <1>1, <2>1
  <2> QED BY <1>2, <2>2, <2>3 DEF Tasks
<1>6. CASE \E e, f \in Ready : s = <<e, f>>
  <2>1. PICK e, f \in Ready : s = <<e, f>> BY <1>6
  <2>2. DOMAIN s = {1, 2} /\ s[1] = e /\ s[2] = f BY <2>1
  <2>3. s \in Seq(Entries) BY <1>1, <2>1
  <2> QED BY <1>2, <2>2, <2>3 DEF Tasks
<1> QED BY <1>3, <1>4, <1>5, <1>6

LEMMA TimersFit ==
  ASSUME NEW S \in SUBSET Bevs, NEW s, s = SetToSeq({Entry(b, "T", "none") : b \in S})
  PROVE  s \in Seq(Entries) /\ Apart(s) /\ Tasks(s) = {Entry(b, "T", "none") : b \in S}
<1>1. PICK E : E = {Entry(b, "T", "none") : b \in S} OBVIOUS
<1>2. E \subseteq Entries /\ \A e \in E : e.k = "T" /\ e = Entry(e.b, "T", "none")
  BY <1>1 DEF Entry, Entries, Kinds
<1>3. IsFiniteSet(E)
  <2>1. IsFiniteSet(S) BY Sizes, FS_Subset
  <2>2. PICK f : f = [b \in S |-> Entry(b, "T", "none")] OBVIOUS
  <2>3. f \in Surjection(S, E) BY <1>1, <2>2 DEF Surjection
  <2> QED BY <2>1, <2>3, FS_Surjection
<1>4. s \in Seq(E) /\ Tasks(s) = E /\ \A i, j \in DOMAIN s : s[i] = s[j] => i = j
  BY <1>1, <1>3, Listed
<1>5. s \in Seq(Entries) BY <1>2, <1>4
<1>6. \A i \in DOMAIN s : s[i] \in E BY <1>4 DEF Tasks
<1>7. Apart(s) BY <1>2, <1>4, <1>6 DEF Apart
<1> QED BY <1>1, <1>4, <1>5, <1>7

LEMMA PollStep ==
  ASSUME Sound(Now, loop), Poll
  PROVE  Sound(Now', loop') /\ Within(Now, Now')
<1>1. PICK w : w = Now OBVIOUS
<1>2. /\ w \in Worlds /\ w.queue \in Seq(Entries) /\ QueueFits(w, loop) /\ w.grp \in Grp
      /\ w.bev = bev /\ w.grp = grp /\ w.queue = queue
  BY <1>1 DEF Sound, Base, Worlds, Now
<1>3. \A b \in Bevs : bev[b] \in Bev /\ Counted(w, loop, b) BY <1>1, <1>2 DEF Sound, Base, Worlds
<1>4. \A b \in Due : b \in Bevs /\ bev[b].due = TRUE BY <1>3 DEF Due, Bev
<1>5. \A b \in Due : bev[b].st = "live" /\ bev[b].final = {}
  <2> SUFFICES ASSUME NEW b \in Due PROVE bev[b].st = "live" /\ bev[b].final = {} OBVIOUS
  <2>1. Counted(w, loop, b) /\ w.bev[b] = bev[b] /\ bev[b].due = TRUE BY <1>2, <1>3, <1>4
  <2> QED BY <2>1 DEF Counted
<1>6. PICK f : f = [b \in Bevs |-> IF b \in Due THEN [bev[b] EXCEPT !.pend = @ \ {"T"}, !.due = FALSE]
                                   ELSE bev[b]]
  OBVIOUS
<1>7. ASSUME NEW b \in Bevs
      PROVE  /\ f[b] \in Bev /\ f[b].st = bev[b].st /\ f[b].own = bev[b].own
             /\ f[b].refcnt = bev[b].refcnt /\ f[b].final = bev[b].final
             /\ f[b].cbs = bev[b].cbs /\ f[b].lookup = bev[b].lookup /\ f[b].len = bev[b].len
             /\ b \notin Due => f[b] = bev[b]
  <2>1. bev[b] \in Bev BY <1>3
  <2>2. PICK v : v = [bev[b] EXCEPT !.pend = @ \ {"T"}, !.due = FALSE] OBVIOUS
  <2>3. /\ v \in Bev /\ v.st = bev[b].st /\ v.own = bev[b].own /\ v.refcnt = bev[b].refcnt
        /\ v.final = bev[b].final /\ v.cbs = bev[b].cbs /\ v.lookup = bev[b].lookup
        /\ v.len = bev[b].len
    BY <2>1, <2>2 DEF Bev
  <2>4. f[b] = IF b \in Due THEN v ELSE bev[b] BY <1>6, <2>2
  <2> QED BY <2>1, <2>3, <2>4
<1>8. PICK g : g = [w.grp EXCEPT !.due = FALSE] OBVIOUS
<1>9. g \in Grp /\ g.members = w.grp.members BY <1>2, <1>8 DEF Grp
<1>10. PICK y : y = [bev |-> f, grp |-> g, queue |-> w.queue] OBVIOUS
<1>11. y \in Worlds /\ y.bev = f /\ y.grp = g /\ y.queue = w.queue
  <2>1. f \in [Bevs -> Bev] BY <1>6, <1>7
  <2> QED BY <1>2, <1>9, <1>10, <2>1 DEF Worlds
<1>12. SameRefs(w, y)
  <2>1. \A c \in y.grp.members : c \in Bevs /\ y.bev[c].st = "live"
    BY <1>2, <1>3, <1>7, <1>9, <1>11 DEF Counted, Grp
  <2>2. ASSUME NEW c \in Bevs, w.bev[c].final = Kinds \/ w.bev[c].st # "live"
        PROVE  y.bev[c].pend = w.bev[c].pend /\ y.bev[c].due = FALSE
    <3>1. c \notin Due BY <1>2, <1>5, <2>2 DEF Kinds
    <3>2. w.bev[c].due = FALSE BY <1>2, <1>3, <2>2 DEF Counted
    <3> QED BY <1>2, <1>7, <1>11, <3>1, <3>2
  <2> QED BY <1>2, <1>7, <1>11, <2>1, <2>2 DEF SameRefs
<1>13. Sound(y, loop) BY <1>1, <1>11, <1>12, SameRefsSound
<1>14. PICK s \in Arrivals :
         queue' = queue \o s \o SetToSeq({Entry(b, "T", "none") : b \in Due})
                        \o IF grp.due THEN <<Entry(None, "G", "none")>> ELSE << >>
  BY DEF Poll
<1>15. PICK t : t = SetToSeq({Entry(b, "T", "none") : b \in Due}) OBVIOUS
<1>16. PICK u : u = IF grp.due THEN <<Entry(None, "G", "none")>> ELSE << >> OBVIOUS
<1>17. s \in Seq(Entries) /\ Tasks(s) \subseteq Ready /\ Apart(s) BY ArrivalsFit
<1>18. t \in Seq(Entries) /\ Apart(t) /\ Tasks(t) = {Entry(b, "T", "none") : b \in Due}
  <2>1. Due \in SUBSET Bevs BY DEF Due
  <2> QED BY <1>15, <2>1, TimersFit
<1>19. u \in Seq(Entries) /\ Apart(u) /\ Tasks(u) \subseteq {Entry(None, "G", "none")}
  <2>1. PICK e : e = Entry(None, "G", "none") OBVIOUS
  <2>2. e \in Entries BY <2>1 DEF Entry, Entries
  <2>3. u = <<e>> \/ u = << >> BY <1>16, <2>1
  <2>4. CASE u = <<e>>
    <3>1. DOMAIN u = {1} /\ u[1] = e /\ u \in Seq(Entries) BY <2>2, <2>4
    <3> QED BY <2>1, <3>1 DEF Tasks, Apart
  <2>5. CASE u = << >>
    <3>1. DOMAIN u = {} /\ u \in Seq(Entries) BY <2>5
    <3> QED BY <3>1 DEF Tasks, Apart
  <2> QED BY <2>3, <2>4, <2>5
<1>20. \A e \in Tasks(s) :
         /\ e \in Entries /\ e.k \in {"R", "W"} /\ e.b # None
         /\ w.bev[e.b].st = "live" /\ w.bev[e.b].final = {}
  BY <1>1, <1>17, ReadyOnes
<1>21. \A e \in Tasks(t) : e.k = "T" /\ e.b \in Due BY <1>18 DEF Entry
<1>22. \A e \in Tasks(u) : e.k = "G" /\ e.b = None BY <1>19 DEF Entry
<1>23. loop.at \in {"poll", "run"} /\ \A e \in Tasks(w.queue) : e.k \in {"D", "free"}
  <2>1. loop.at = "poll" \/ (loop.at = "run" /\ w.queue = << >>) BY <1>2 DEF Poll, Idling
  <2>2. w.queue = << >> => Tasks(w.queue) = {} BY DEF Tasks
  <2> QED BY <1>2, <2>1, <2>2 DEF QueueFits
<1>24. PICK q1 : q1 = w.queue \o s OBVIOUS
<1>25. q1 \in Seq(Entries) /\ Tasks(q1) = Tasks(w.queue) \cup Tasks(s) /\ Apart(q1)
  <2>1. \A e \in Tasks(w.queue), h \in Tasks(s) : e.k # h.k BY <1>20, <1>23
  <2>2. Apart(w.queue) BY <1>2 DEF QueueFits
  <2> QED BY <1>2, <1>17, <1>24, <2>1, <2>2, Both
<1>26. PICK q2 : q2 = q1 \o t OBVIOUS
<1>27. q2 \in Seq(Entries) /\ Tasks(q2) = Tasks(q1) \cup Tasks(t) /\ Apart(q2)
  <2>1. \A e \in Tasks(q1), h \in Tasks(t) : e.k # h.k BY <1>20, <1>21, <1>23, <1>25
  <2> QED BY <1>18, <1>25, <1>26, <2>1, Both
<1>28. PICK q : q = q2 \o u OBVIOUS
<1>29. q \in Seq(Entries) /\ Tasks(q) = Tasks(q2) \cup Tasks(u) /\ Apart(q)
  <2>1. \A e \in Tasks(q2), h \in Tasks(u) : e.k # h.k
    BY <1>20, <1>21, <1>22, <1>23, <1>25, <1>27
  <2> QED BY <1>19, <1>27, <1>28, <2>1, Both
<1>30. queue' = q BY <1>2, <1>14, <1>15, <1>16, <1>24, <1>26, <1>28
<1>31. \A e \in Tasks(q) \ Tasks(y.queue) :
         /\ e.k \notin {"D", "free"} /\ (e.b = None <=> e.k = "G")
         /\ e.b # None => y.bev[e.b].st = "live" /\ y.bev[e.b].final = {}
  <2> SUFFICES ASSUME NEW e \in Tasks(q) \ Tasks(w.queue)
               PROVE  /\ e.k \notin {"D", "free"} /\ (e.b = None <=> e.k = "G")
                      /\ e.b # None => y.bev[e.b].st = "live" /\ y.bev[e.b].final = {}
    BY <1>11
  <2>1. e \in Tasks(s) \/ e \in Tasks(t) \/ e \in Tasks(u) BY <1>25, <1>27, <1>29
  <2>2. CASE e \in Tasks(s)
    <3>1. e.b \in Bevs BY <1>20, <2>2 DEF Entries
    <3> QED BY <1>2, <1>7, <1>11, <1>20, <2>2, <3>1
  <2>3. CASE e \in Tasks(t)
    <3>1. e.k = "T" /\ e.b \in Bevs /\ bev[e.b].st = "live" /\ bev[e.b].final = {}
      BY <1>4, <1>5, <1>21, <2>3
    <3> QED BY <1>7, <1>11, <3>1, Sizes
  <2>4. CASE e \in Tasks(u) BY <1>22, <2>4
  <2> QED BY <2>1, <2>2, <2>3, <2>4
<1>32. PICK x : x = [y EXCEPT !.queue = q] OBVIOUS
<1>33. Sound(x, Idle(q))
  <2>1. Tasks(y.queue) \subseteq Tasks(q) BY <1>11, <1>25, <1>27, <1>29
  <2> QED BY <1>13, <1>23, <1>29, <1>31, <1>32, <2>1, QueueMore
<1>34. x \in Worlds /\ x.bev = f /\ x.grp = g /\ x.queue = q BY <1>11, <1>29, <1>32 DEF Worlds
<1>35. Becomes(x) /\ loop' = Idle(q)
  BY <1>2, <1>6, <1>8, <1>30, <1>34 DEF Poll, Becomes
<1>36. Within(w, x)
  <2>1. SameLen(w, x) BY <1>2, <1>7, <1>34 DEF SameLen
  <2> QED BY <1>2, <2>1, SameWithin DEF Within
<1> QED BY <1>1, <1>33, <1>34, <1>35, <1>36, NowIs

\* A step that only keeps the references, with the queue and the loop as they are
LEMMA KeepStep ==
  ASSUME Sound(Now, loop), NEW x, SameRefs(Now, x), SameLen(Now, x), Becomes(x),
         x.queue = queue, UNCHANGED loop
  PROVE  Sound(Now', loop') /\ Within(Now, Now')
<1>1. x.queue = Now.queue /\ Now \in Worlds BY DEF Now, Sound, Base
<1>2. Sound(x, loop) BY <1>1, SameRefsSound
<1>3. Within(Now, x) BY <1>1, SameWithin DEF Within
<1>4. Now' = x BY NowIs DEF SameRefs
<1> QED BY <1>2, <1>3, <1>4

LEMMA TickStep ==
  ASSUME Sound(Now, loop), Tick
  PROVE  Sound(Now', loop') /\ Within(Now, Now')
<1>1. /\ Now \in Worlds /\ Now.bev = bev /\ Now.grp = grp /\ Now.queue = queue
      /\ grp \in Grp /\ \A b \in Bevs : bev[b] \in Bev /\ Counted(Now, loop, b)
  BY DEF Sound, Base, Worlds, Now
<1>2. \A n \in Nat : Least(n + 1, 2) \in Nat BY DEF Least
<1>3. PICK f : f = [b \in Bevs |->
                      IF b \in Limited
                      THEN [bev[b] EXCEPT !.owed = Least(@ + 1, 2),
                                          !.due = IF "T" \in bev[b].pend THEN TRUE ELSE @]
                      ELSE bev[b]]
  OBVIOUS
<1>4. ASSUME NEW b \in Bevs
      PROVE  /\ f[b] \in Bev /\ f[b].st = bev[b].st /\ f[b].own = bev[b].own
             /\ f[b].refcnt = bev[b].refcnt /\ f[b].final = bev[b].final
             /\ f[b].cbs = bev[b].cbs /\ f[b].lookup = bev[b].lookup /\ f[b].len = bev[b].len
             /\ f[b].pend = bev[b].pend
             /\ f[b].due = TRUE => bev[b].due = TRUE \/ (b \in Limited /\ "T" \in bev[b].pend)
  <2>1. PICK o \in Nat : o = Least(bev[b].owed + 1, 2) BY <1>1, <1>2 DEF Bev
  <2>2. PICK d : d = IF "T" \in bev[b].pend THEN TRUE ELSE bev[b].due OBVIOUS
  <2>3. bev[b] \in Bev BY <1>1
  <2>4. d \in BOOLEAN BY <2>2, <2>3 DEF Bev
  <2>5. PICK v : v = [bev[b] EXCEPT !.owed = o, !.due = d] OBVIOUS
  <2>6. f[b] = IF b \in Limited THEN v ELSE bev[b] BY <1>3, <2>1, <2>2, <2>5
  <2>7. /\ v \in Bev /\ v.st = bev[b].st /\ v.own = bev[b].own /\ v.refcnt = bev[b].refcnt
        /\ v.final = bev[b].final /\ v.cbs = bev[b].cbs /\ v.lookup = bev[b].lookup
        /\ v.len = bev[b].len /\ v.pend = bev[b].pend /\ v.due = d
    BY <2>3, <2>4, <2>5 DEF Bev
  <2> QED BY <2>2, <2>3, <2>6, <2>7
<1>5. PICK g : g = grp' OBVIOUS
<1>6. g \in Grp /\ g.members = grp.members
  <2>1. PICK o \in Nat : o = Least(grp.owed + 1, 2) BY <1>1, <1>2 DEF Grp
  <2>2. g = grp \/ g = [grp EXCEPT !.owed = o, !.due = TRUE] BY <1>5, <2>1 DEF Tick
  <2> QED BY <1>1, <2>2 DEF Grp
<1>7. PICK x : x = [bev |-> f, grp |-> g, queue |-> queue] OBVIOUS
<1>8. x \in Worlds /\ x.bev = f /\ x.grp = g /\ x.queue = queue
  <2>1. f \in [Bevs -> Bev] BY <1>3, <1>4
  <2>2. queue \in Seq(Entries) BY <1>1 DEF Worlds
  <2> QED BY <1>6, <1>7, <2>1, <2>2 DEF Worlds
<1>9. Becomes(x) /\ UNCHANGED loop BY <1>3, <1>5, <1>8 DEF Tick, Becomes
<1>10. SameRefs(Now, x)
  <2>1. ASSUME NEW c \in x.grp.members PROVE x.bev[c].st = "live"
    <3>1. c \in grp.members BY <1>6, <1>8
    <3>2. c \in Bevs BY <1>1, <3>1 DEF Grp
    <3>3. bev[c].st = "live" BY <1>1, <3>1, <3>2 DEF Counted
    <3> QED BY <1>4, <1>8, <3>2, <3>3
  <2>2. ASSUME NEW c \in Bevs, bev[c].final = Kinds \/ bev[c].st # "live"
        PROVE  x.bev[c].pend = bev[c].pend /\ x.bev[c].due = FALSE
    <3>1. bev[c].due = FALSE BY <1>1, <2>2 DEF Counted
    <3>2. c \in Limited => bev[c].st = "live" BY DEF Limited
    <3>3. bev[c].final = Kinds => bev[c].pend = {} BY <1>1 DEF Counted
    <3> QED BY <1>4, <1>8, <2>2, <3>1, <3>2, <3>3 DEF Bev
  <2> QED BY <1>1, <1>4, <1>8, <2>1, <2>2 DEF SameRefs
<1>11. SameLen(Now, x) BY <1>1, <1>4, <1>8 DEF SameLen
<1> QED BY <1>8, <1>9, <1>10, <1>11, KeepStep

LEMMA NetworkStep ==
  ASSUME Sound(Now, loop), NEW b \in Bevs, Network(b)
  PROVE  Sound(Now', loop') /\ Within(Now, Now')
<1>1. /\ Now \in Worlds /\ Now.bev = bev /\ Now.grp = grp /\ Now.queue = queue
      /\ grp \in Grp /\ bev \in [Bevs -> Bev] /\ \A c \in Bevs : Counted(Now, loop, c)
  BY DEF Sound, Base, Worlds, Now
<1>2. PICK s \in {"up", "refused"} : bev' = [bev EXCEPT ![b].sock = s] BY DEF Network
<1>3. PICK v : v = [bev[b] EXCEPT !.sock = s] OBVIOUS
<1>4. /\ v \in Bev /\ v.st = bev[b].st /\ v.own = bev[b].own /\ v.refcnt = bev[b].refcnt
      /\ v.final = bev[b].final /\ v.cbs = bev[b].cbs /\ v.lookup = bev[b].lookup
      /\ v.len = bev[b].len /\ v.pend = bev[b].pend /\ v.due = bev[b].due
  <2>1. bev[b] \in Bev BY <1>1
  <2> QED BY <2>1, <1>3 DEF Bev
<1>5. PICK x : x = [Now EXCEPT !.bev[b] = v] OBVIOUS
<1>6. /\ x \in Worlds /\ x.grp = grp /\ x.queue = queue /\ x.bev = [bev EXCEPT ![b] = v]
      /\ x.bev[b] = v /\ \A c \in Bevs \ {b} : x.bev[c] = bev[c]
  BY <1>1, <1>4, <1>5 DEF Worlds
<1>7. Becomes(x) /\ UNCHANGED loop BY <1>2, <1>3, <1>6 DEF Network, Becomes
<1>8. SameRefs(Now, x)
  <2>1. \A c \in grp.members : c \in Bevs /\ bev[c].st = "live" BY <1>1 DEF Counted, Grp
  <2>2. \A c \in Bevs : bev[c].final = Kinds \/ bev[c].st # "live" => bev[c].due = FALSE
    BY <1>1 DEF Counted
  <2> QED BY <1>1, <1>4, <1>6, <2>1, <2>2 DEF SameRefs
<1>9. SameLen(Now, x) BY <1>1, <1>4, <1>6 DEF SameLen
<1> QED BY <1>6, <1>7, <1>8, <1>9, KeepStep

---------------------------------------------------------------------------
(* The calls of the program                                                *)

LEMMA Owned ==
  ASSUME Sound(Now, loop), NEW b \in Bevs, bev[b].own
  PROVE  /\ Now \in Worlds /\ Now.bev = bev /\ Now.grp = grp /\ Now.queue = queue
         /\ bev[b] \in Bev /\ grp \in Grp
         /\ bev[b].own = TRUE /\ bev[b].st = "live" /\ bev[b].final = {}
<1>1. /\ Now \in Worlds /\ Now.bev = bev /\ Now.grp = grp /\ Now.queue = queue
      /\ bev[b] \in Bev /\ grp \in Grp
  BY DEF Sound, Base, Worlds, Now
<1>2. bev[b].own \in BOOLEAN BY <1>1 DEF Bev
<1>3. bev[b].own = TRUE BY <1>2, Zenon
<1>4. Counted(Now, loop, b) BY DEF Sound, Base
<1>5. bev[b].st = "live" BY <1>1, <1>3, <1>4 DEF Counted
<1>6. bev[b].refcnt # 0
  <2> DEFINE o == Of(bev[b].own = TRUE)
             k == Of(bev[b].lookup # "no")
             d == Of(Deferred(Now, b))
             a == Of(AtDeferred(loop, b))
  <2>1. k \in {0, 1} /\ d \in {0, 1} /\ a \in {0, 1} BY DEF Of
  <2>2. bev[b].refcnt = o + k + d + a BY <1>1, <1>4, <1>5 DEF Counted
  <2>3. o = 1 BY <1>3 DEF Of
  <2> HIDE DEF o, k, d, a
  <2> QED BY <2>1, <2>2, <2>3
<1>7. bev[b].final = {} BY <1>1, <1>4, <1>6 DEF Counted
<1> QED BY <1>1, <1>3, <1>5, <1>7

LEMMA CallStep ==
  ASSUME Sound(Now, loop), NEW b \in Bevs, NEW part, NEW x, Call(part, b, x), Does(Now, x, b)
  PROVE  Sound(Now', loop') /\ Within(Now, Now')
<1>1. bev[b].own /\ Becomes(x) /\ UNCHANGED loop BY DEF Call
<1>2. For(Now, x, b) BY <1>1, Owned DEF For
<1> QED BY <1>1, <1>2, DoesStep

LEMMA CallMoves ==
  ASSUME Sound(Now, loop), NEW b \in Bevs, NEW part, NEW x, Call(part, b, x), Moves(Now, x, b),
         Within(Now, x)
  PROVE  Sound(Now', loop') /\ Within(Now, Now')
<1>1. bev[b].own /\ Becomes(x) /\ UNCHANGED loop BY DEF Call
<1>2. For(Now, x, b) BY <1>1, Owned DEF For
<1> QED BY <1>1, <1>2, MovesStep

LEMMA EnableDisableStep ==
  ASSUME Sound(Now, loop), NEW b \in Bevs, NEW d \in D, Enable(b, d) \/ Disable(b, d)
  PROVE  Sound(Now', loop') /\ Within(Now, Now')
<1>1. Now \in Worlds BY DEF Sound, Base
<1>2. PICK part, x : /\ Call(part, b, x)
                     /\ x = EnableBev(Now, b, {d}) \/ x = DisableBev(Now, b, {d})
  BY DEF Enable, Disable
<1>3. Quiet(Now, x, b) BY <1>1, <1>2, EnableQuiet, DisableQuiet
<1> QED BY <1>2, <1>3, CallStep DEF Quiet

LEMMA WriteStep ==
  ASSUME Sound(Now, loop), NEW b \in Bevs, Write(b)
  PROVE  Sound(Now', loop') /\ Within(Now, Now')
<1>1. PICK x : x = OutbufCb([Now EXCEPT !.bev[b].len["W"] = @ + 1], b) OBVIOUS
<1>2. Call("write", b, x) BY <1>1 DEF Write
<1>3. Now \in Worlds /\ Now.bev[b].len["W"] \in Int
  <2>1. Now \in Worlds BY DEF Sound, Base
  <2> QED BY <2>1, Lengths
<1>4. PICK n \in Int : n = Now.bev[b].len["W"] + 1 BY <1>3
<1>5. PICK y : y = [Now EXCEPT !.bev[b].len["W"] = n] OBVIOUS
<1>6. Moves(Now, y, b) /\ OnlyLen(Now, y, b, "W", n) BY <1>3, <1>5, SetLen, Directions
<1>7. x = OutbufCb(y, b)
  <2>1. y = [Now EXCEPT !.bev[b].len["W"] = @ + 1] BY <1>4, <1>5
  <2> QED BY <1>1, <2>1
<1>8. Quiet(y, x, b) BY <1>6, <1>7, OutbufCbQuiet DEF Moves
<1>9. Moves(Now, x, b) /\ OnlyLen(Now, x, b, "W", n) BY <1>6, <1>8, OnlyLenDoes DEF Quiet
<1>10. ~(Now.bev[b].len["W"] - n > 0) BY <1>3, <1>4
<1>11. Within(Now, x) BY <1>3, <1>9, <1>10, OnlyWithin, Directions DEF Within
<1> QED BY <1>2, <1>9, <1>11, CallMoves

LEMMA ReadStep ==
  ASSUME Sound(Now, loop), NEW b \in Bevs, Read(b)
  PROVE  Sound(Now', loop') /\ Within(Now, Now')
<1>3. Now \in Worlds /\ Now.bev[b].len["R"] \in Int /\ Now.bev = bev
  <2>1. Now \in Worlds /\ Now.bev = bev BY DEF Sound, Base, Now
  <2> QED BY <2>1, Lengths
<1>4. PICK n \in 0 .. bev[b].len["R"] - 1 : Call("read", b, SetInput(Now, b, n)) BY DEF Read
<1>5. n \in Int /\ ~(n - Now.bev[b].len["R"] > 0) BY <1>3
<1>6. PICK x : x = SetInput(Now, b, n) OBVIOUS
<1>7. Moves(Now, x, b) /\ OnlyLen(Now, x, b, "R", n) BY <1>3, <1>5, <1>6, SetInputMoves
<1>8. Within(Now, x) BY <1>3, <1>5, <1>7, OnlyWithin, Directions DEF Within
<1> QED BY <1>4, <1>6, <1>7, <1>8, CallMoves

LEMMA SetReadMarksStep ==
  ASSUME Sound(Now, loop), NEW b \in Bevs, SetReadMarks(b)
  PROVE  Sound(Now', loop') /\ Within(Now, Now')
<1>1. Now \in Worlds /\ Now.bev[b] \in Bev BY DEF Sound, Base, Worlds
<1>2. PICK m \in Marks :
        LET w == [Now EXCEPT !.bev[b].low["R"] = m[1], !.bev[b].high = m[2]]
        IN Call("marks", b, IF m[2] = 0 THEN Unsuspend(w, b, "R", "WM") ELSE WmCb(w, b))
  BY DEF SetReadMarks
<1>3. PICK j \in Int, k \in Int : j = m[1] /\ k = m[2] BY Sizes
<1>4. PICK l : l = [Now.bev[b].low EXCEPT !["R"] = j] OBVIOUS
<1>5. l \in [D -> Int]
  <2>1. Now.bev[b].low \in [D -> Int] BY <1>1 DEF Bev
  <2> QED BY <1>4, <2>1
<1>6. PICK v : v = [Now.bev[b] EXCEPT !.low = l, !.high = k] OBVIOUS
<1>7. v \in Bev /\ Same(Now.bev[b], v) /\ v.refcnt = Now.bev[b].refcnt
  BY <1>1, <1>5, <1>6 DEF Bev, Same, Keeps
<1>8. PICK y : y = [Now EXCEPT !.bev[b] = v] OBVIOUS
<1>9. y = [Now EXCEPT !.bev[b].low["R"] = m[1], !.bev[b].high = m[2]]
  BY <1>1, <1>3, <1>4, <1>6, <1>8 DEF Worlds
<1>10. Quiet(Now, y, b) BY <1>1, <1>7, <1>8, Touch
<1>11. y \in Worlds BY <1>10 DEF Quiet, Does
<1>12. PICK x : x = IF m[2] = 0 THEN Unsuspend(y, b, "R", "WM") ELSE WmCb(y, b) OBVIOUS
<1>13. Call("marks", b, x) BY <1>2, <1>9, <1>12
<1>14. Quiet(y, x, b) BY <1>11, <1>12, UnsuspendQuiet, WmCbQuiet, Directions
<1>15. Quiet(Now, x, b) BY <1>10, <1>14, QuietTwice
<1> QED BY <1>13, <1>15, CallStep DEF Quiet

LEMMA SetWriteMarkStep ==
  ASSUME Sound(Now, loop), NEW b \in Bevs, SetWriteMark(b)
  PROVE  Sound(Now', loop') /\ Within(Now, Now')
<1>1. Now \in Worlds /\ Now.bev[b] \in Bev BY DEF Sound, Base, Worlds
<1>2. PICK n \in {0, 1} : Call("marks", b, [Now EXCEPT !.bev[b].low["W"] = n])
  BY DEF SetWriteMark
<1>3. PICK j \in Int : j = n OBVIOUS
<1>4. PICK l : l = [Now.bev[b].low EXCEPT !["W"] = j] OBVIOUS
<1>5. l \in [D -> Int]
  <2>1. Now.bev[b].low \in [D -> Int] BY <1>1 DEF Bev
  <2> QED BY <1>4, <2>1
<1>6. PICK v : v = [Now.bev[b] EXCEPT !.low = l] OBVIOUS
<1>7. v \in Bev /\ Same(Now.bev[b], v) /\ v.refcnt = Now.bev[b].refcnt
  BY <1>1, <1>5, <1>6 DEF Bev, Same, Keeps
<1>8. PICK y : y = [Now EXCEPT !.bev[b] = v] OBVIOUS
<1>9. y = [Now EXCEPT !.bev[b].low["W"] = n] BY <1>3, <1>4, <1>6, <1>8
<1>10. Quiet(Now, y, b) BY <1>1, <1>7, <1>8, Touch
<1> QED BY <1>2, <1>9, <1>10, CallStep DEF Quiet

LEMMA SetTimeoutsStep ==
  ASSUME Sound(Now, loop), NEW b \in Bevs, SetTimeouts(b)
  PROVE  Sound(Now', loop') /\ Within(Now, Now')
<1>1. Now \in Worlds /\ Now.bev[b] \in Bev BY DEF Sound, Base, Worlds
<1>2. PICK t \in {{}, D} : Call("timeouts", b, [Now EXCEPT !.bev[b].tv = t])
  BY DEF SetTimeouts
<1>6. PICK v : v = [Now.bev[b] EXCEPT !.tv = t] OBVIOUS
<1>7. v \in Bev /\ Same(Now.bev[b], v) /\ v.refcnt = Now.bev[b].refcnt
  BY <1>1, <1>6 DEF Bev, Same, Keeps
<1>8. PICK y : y = [Now EXCEPT !.bev[b] = v] OBVIOUS
<1>9. y = [Now EXCEPT !.bev[b].tv = t] BY <1>6, <1>8
<1>10. Quiet(Now, y, b) BY <1>1, <1>7, <1>8, Touch
<1> QED BY <1>2, <1>9, <1>10, CallStep DEF Quiet

LEMMA SetFdToQuiet ==
  ASSUME NEW w \in Worlds, NEW b \in Bevs, NEW s \in {"up", "trying", "dead"},
         NEW x, x = SetFdTo(w, b, s)
  PROVE  Quiet(w, x, b)
<1>1. w.bev[b] \in Bev BY DEF Worlds
<1>2. PICK u : u = [w.bev[b] EXCEPT !.connecting = FALSE, !.refused = FALSE] OBVIOUS
<1>3. u \in Bev /\ Same(w.bev[b], u) /\ u.refcnt = w.bev[b].refcnt
  BY <1>1, <1>2 DEF Bev, Same, Keeps
<1>4. PICK c : c = [w EXCEPT !.bev[b] = u] OBVIOUS
<1>5. c = Over(w, b) BY <1>2, <1>4 DEF Worlds, Over
<1>6. Quiet(w, c, b) BY <1>3, <1>4, Touch
<1>7. PICK k : k = IF "be_socket_setfd" \in Repaired THEN c ELSE w OBVIOUS
<1>8. Quiet(w, k, b) BY <1>6, <1>7, Nothing
<1>9. k \in Worlds BY <1>8 DEF Quiet, Does
<1>10. PICK r : r = Del(k, b, "R") OBVIOUS
<1>11. Quiet(k, r, b) BY <1>9, <1>10, DelQuiet
<1>12. r \in Worlds BY <1>11 DEF Quiet, Does
<1>13. PICK off : off = Del(r, b, "W") OBVIOUS
<1>14. Quiet(r, off, b) BY <1>12, <1>13, DelQuiet
<1>15. off \in Worlds /\ off.bev[b] \in Bev BY <1>14 DEF Quiet, Does, Worlds
<1>16. PICK v : v = [off.bev[b] EXCEPT !.sock = s] OBVIOUS
<1>17. v \in Bev /\ Same(off.bev[b], v) /\ v.refcnt = off.bev[b].refcnt
  BY <1>15, <1>16 DEF Bev, Same, Keeps
<1>18. PICK t : t = [off EXCEPT !.bev[b] = v] OBVIOUS
<1>19. Quiet(off, t, b) BY <1>15, <1>17, <1>18, Touch
<1>20. t \in Worlds BY <1>19 DEF Quiet, Does
<1>21. PICK on : on = EnableBev(t, b, w.bev[b].enabled) OBVIOUS
<1>22. Quiet(t, on, b)
  <2>1. w.bev[b].enabled \in SUBSET D BY <1>1 DEF Bev
  <2> QED BY <1>20, <1>21, <2>1, EnableQuiet
<1>23. on \in Worlds /\ on.bev[b] \in Bev BY <1>22 DEF Quiet, Does, Worlds
<1>24. PICK l : l = IF on.bev[b].lookup = "no" THEN on.bev[b].lookup ELSE "cancelled" OBVIOUS
<1>25. PICK z : z = [on.bev[b] EXCEPT !.lookup = l] OBVIOUS
<1>26. z \in Bev /\ Same(on.bev[b], z) /\ z.refcnt = on.bev[b].refcnt
  BY <1>23, <1>24, <1>25 DEF Bev, Same, Keeps
<1>27. PICK y : y = [on EXCEPT !.bev[b] = z] OBVIOUS
<1>28. Quiet(on, y, b) BY <1>23, <1>26, <1>27, Touch
<1>29. x = y
  <2>1. off = Del(Del(IF "be_socket_setfd" \in Repaired THEN Over(w, b) ELSE w, b, "R"), b, "W")
    BY <1>5, <1>7, <1>10, <1>13
  <2>2. t = [off EXCEPT !.bev[b].sock = s] BY <1>16, <1>18
  <2>3. y = [on EXCEPT !.bev[b].lookup = IF @ = "no" THEN @ ELSE "cancelled"]
    BY <1>24, <1>25, <1>27
  <2> QED BY <1>21, <2>1, <2>2, <2>3, Zenon DEF SetFdTo
<1> QED BY <1>8, <1>11, <1>14, <1>19, <1>22, <1>28, <1>29, QuietTwice

\* What is only for a property to remember
LEMMA GreetQuiet ==
  ASSUME NEW w \in Worlds, NEW b \in Bevs, NEW g \in BOOLEAN, NEW c \in BOOLEAN,
         NEW x, x = [w EXCEPT !.bev[b].connecting = c, !.bev[b].greet = g]
  PROVE  Quiet(w, x, b)
<1>1. w.bev[b] \in Bev BY DEF Worlds
<1>2. PICK v : v = [w.bev[b] EXCEPT !.connecting = c, !.greet = g] OBVIOUS
<1>3. v \in Bev /\ Same(w.bev[b], v) /\ v.refcnt = w.bev[b].refcnt
  <2>1. v \in Bev BY <1>1, <1>2 DEF Bev
  <2>2. Same(w.bev[b], v) BY <1>1, <1>2 DEF Bev, Same, Keeps
  <2>3. v.refcnt = w.bev[b].refcnt BY <1>1, <1>2 DEF Bev
  <2> QED BY <2>1, <2>2, <2>3
<1>4. x = [w EXCEPT !.bev[b] = v] BY <1>2 DEF Worlds
<1> QED BY <1>3, <1>4, Touch

LEMMA SetFdStep ==
  ASSUME Sound(Now, loop), NEW b \in Bevs, SetFd(b)
  PROVE  Sound(Now', loop') /\ Within(Now, Now')
<1>1. Now \in Worlds BY DEF Sound, Base
<1>2. PICK y : y = SetFdTo(Now, b, "up") OBVIOUS
<1>3. Quiet(Now, y, b) BY <1>1, <1>2, SetFdToQuiet
<1>4. y \in Worlds /\ y.bev[b] \in Bev BY <1>3 DEF Quiet, Does, Worlds
<1>5. PICK v : v = [y.bev[b] EXCEPT !.greet = FALSE] OBVIOUS
<1>6. v \in Bev /\ Same(y.bev[b], v) /\ v.refcnt = y.bev[b].refcnt
  BY <1>4, <1>5 DEF Bev, Same, Keeps
<1>7. PICK x : x = [y EXCEPT !.bev[b] = v] OBVIOUS
<1>8. Quiet(y, x, b) BY <1>4, <1>6, <1>7, Touch
<1>9. Quiet(Now, x, b) BY <1>3, <1>8, QuietTwice
<1>10. x = [SetFdTo(Now, b, "up") EXCEPT !.bev[b].greet = FALSE] BY <1>2, <1>5, <1>7
<1>11. Call("setfd", b, x) BY <1>10 DEF SetFd
<1> QED BY <1>9, <1>11, CallStep DEF Quiet

LEMMA ConnectToDoes ==
  ASSUME NEW w \in Worlds, NEW b \in Bevs, NEW result \in Results,
         NEW x, x = ConnectTo(w, b, result)
  PROVE  Does(w, x, b)
<1>0. "error" \in Whats /\ D \in SUBSET D BY DEF Whats, Events
<1>1. CASE result = "fails"
  <2>1. x = RunCb(w, b, "error") BY <1>1 DEF ConnectTo
  <2> QED BY <1>0, <2>1, RunCbDoes
<1>2. CASE result = "waits"
  <2>1. PICK y : y = SetFdTo(w, b, "trying") OBVIOUS
  <2>2. Quiet(w, y, b) BY <2>1, SetFdToQuiet
  <2>3. y \in Worlds BY <2>2 DEF Quiet, Does
  <2>4. PICK z : z = SockEnable(y, b, {"W"}) OBVIOUS
  <2>5. Quiet(y, z, b) BY <2>3, <2>4, SockEnableQuiet
  <2>6. z \in Worlds BY <2>5 DEF Quiet, Does
  <2>7. x = [z EXCEPT !.bev[b].connecting = TRUE, !.bev[b].greet = TRUE]
    BY <1>2, <2>1, <2>4 DEF ConnectTo
  <2>8. Quiet(z, x, b) BY <2>6, <2>7, GreetQuiet
  <2> QED BY <2>2, <2>5, <2>8, Twice DEF Quiet
<1>3. CASE result = "at once"
  <2>1. PICK y : y = SetFdTo(w, b, "up") OBVIOUS
  <2>2. Quiet(w, y, b) BY <2>1, SetFdToQuiet
  <2>3. y \in Worlds BY <2>2 DEF Quiet, Does
  <2>4. PICK z : z = [y EXCEPT !.bev[b].connecting = TRUE, !.bev[b].greet = TRUE] OBVIOUS
  <2>5. Quiet(y, z, b) BY <2>3, <2>4, GreetQuiet
  <2>6. z \in Worlds BY <2>5 DEF Quiet, Does
  <2>7. x = SockEnable(z, b, {"W"}) \/ x = Trigger(z, b, "W")
    BY <1>3, <2>1, <2>4 DEF ConnectTo
  <2>8. Does(z, x, b)
    <3>1. CASE x = SockEnable(z, b, {"W"}) BY <2>6, <3>1, SockEnableQuiet DEF Quiet
    <3>2. CASE x = Trigger(z, b, "W") BY <2>6, <3>2, TriggerDoes
    <3> QED BY <2>7, <3>1, <3>2
  <2> QED BY <2>2, <2>5, <2>8, Twice DEF Quiet
<1>4. CASE result = "refused"
  <2>1. PICK y : y = SetFdTo(w, b, "dead") OBVIOUS
  <2>2. Quiet(w, y, b) BY <2>1, SetFdToQuiet
  <2>3. y \in Worlds BY <2>2 DEF Quiet, Does
  <2>4. PICK z : z = RunCb(y, b, "error") OBVIOUS
  <2>5. Does(y, z, b) BY <1>0, <2>3, <2>4, RunCbDoes
  <2>6. z \in Worlds BY <2>5 DEF Does
  <2>7. x = DisableBev(z, b, D) BY <1>4, <2>1, <2>4 DEF ConnectTo
  <2>8. Quiet(z, x, b) BY <1>0, <2>6, <2>7, DisableQuiet
  <2> QED BY <2>2, <2>5, <2>8, Twice DEF Quiet
<1> QED BY <1>1, <1>2, <1>3, <1>4 DEF Results

LEMMA ConnectStep ==
  ASSUME Sound(Now, loop), NEW b \in Bevs, Connect(b)
  PROVE  Sound(Now', loop') /\ Within(Now, Now')
<1>1. Now \in Worlds BY DEF Sound, Base
<1>2. PICK result \in Results : Call("connect", b, ConnectTo(Now, b, result)) BY DEF Connect
<1>3. PICK x : x = ConnectTo(Now, b, result) OBVIOUS
<1>4. Does(Now, x, b) BY <1>1, <1>3, ConnectToDoes
<1> QED BY <1>2, <1>3, <1>4, CallStep

LEMMA SetRateLimitStep ==
  ASSUME Sound(Now, loop), NEW b \in Bevs, NEW c \in Cfgs, SetRateLimit(b, c)
  PROVE  Sound(Now', loop') /\ Within(Now, Now')
<1>1. PICK v : v = bev[b] OBVIOUS
<1>2. Now \in Worlds /\ Now.bev = bev /\ v \in Bev BY <1>1 DEF Sound, Base, Worlds, Now
<1>3. v.limit \in [D -> Int] /\ v.owed \in Nat BY <1>2 DEF Bev
<1>4. PICK l : l = [d \in D |-> IF v.cfg = NoCfg THEN Rate ELSE Least(v.limit[d], Burst[c])]
  OBVIOUS
<1>5. l \in [D -> Int]
  <2>1. Burst[c] \in Int /\ Rate \in Int BY Sizes
  <2>2. \A d \in D : v.limit[d] \in Int BY <1>3
  <2>3. \A d \in D : Least(v.limit[d], Burst[c]) \in Int BY <2>1, <2>2 DEF Least
  <2> QED BY <1>4, <2>1, <2>3
<1>6. PICK o \in Nat : o = IF v.cfg = NoCfg THEN 0 ELSE v.owed BY <1>3
<1>7. PICK u : u = [v EXCEPT !.cfg = c, !.owed = o, !.limit = l] OBVIOUS
<1>8. u \in Bev /\ Same(v, u) /\ u.refcnt = v.refcnt BY <1>2, <1>5, <1>7 DEF Bev, Same, Keeps
<1>9. PICK w : w = [Now EXCEPT !.bev[b] = u] OBVIOUS
<1>10. Quiet(Now, w, b) BY <1>1, <1>2, <1>8, <1>9, Touch
<1>11. w \in Worlds BY <1>10 DEF Quiet, Does
<1>12. w = WithCfg(Now, b, c) BY <1>1, <1>2, <1>4, <1>6, <1>7, <1>9 DEF Worlds, WithCfg
<1>13. PICK t : t = Del(w, b, "T") OBVIOUS
<1>14. Quiet(w, t, b) BY <1>11, <1>13, DelQuiet
<1>15. t \in Worlds BY <1>14 DEF Quiet, Does
<1>16. PICK r : r = IF w.bev[b].limit["R"] > 0 THEN Unsuspend(t, b, "R", "BW")
                    ELSE Suspend(t, b, "R", "BW")
  OBVIOUS
<1>17. "BW" \in Reasons BY DEF Reasons
<1>18. Quiet(t, r, b) BY <1>15, <1>16, <1>17, UnsuspendQuiet, SuspendQuiet, Directions
<1>19. r \in Worlds BY <1>18 DEF Quiet, Does
<1>20. PICK s : s = IF w.bev[b].limit["W"] > 0 THEN Unsuspend(r, b, "W", "BW")
                    ELSE Suspend(r, b, "W", "BW")
  OBVIOUS
<1>21. Quiet(r, s, b) BY <1>17, <1>19, <1>20, UnsuspendQuiet, SuspendQuiet, Directions
<1>22. s \in Worlds BY <1>21 DEF Quiet, Does
<1>23. PICK x : x = IF \E d \in D : w.bev[b].limit[d] <= 0 THEN Add(s, b, "T") ELSE s OBVIOUS
<1>24. Quiet(s, x, b) BY <1>22, <1>23, AddQuiet, Nothing
<1>25. s = Settle(w, b) BY <1>13, <1>16, <1>20, Directions DEF Settle, InTurn
<1>26. Call("limit", b, x) BY <1>1, <1>12, <1>23, <1>25 DEF SetRateLimit
<1>27. Quiet(Now, x, b) BY <1>10, <1>14, <1>18, <1>21, <1>24, QuietTwice
<1> QED BY <1>26, <1>27, CallStep DEF Quiet

LEMMA EndRateLimitStep ==
  ASSUME Sound(Now, loop), NEW b \in Bevs, EndRateLimit(b)
  PROVE  Sound(Now', loop') /\ Within(Now, Now')
<1>1. Now \in Worlds /\ Now.bev[b] \in Bev BY DEF Sound, Base, Worlds
<1>2. PICK l : l = [d \in D |-> 0] OBVIOUS
<1>3. l \in [D -> Int] BY <1>2
<1>4. PICK v : v = [Now.bev[b] EXCEPT !.cfg = NoCfg, !.limit = l, !.owed = 0] OBVIOUS
<1>5. v \in Bev /\ Same(Now.bev[b], v) /\ v.refcnt = Now.bev[b].refcnt
  BY <1>1, <1>3, <1>4 DEF Bev, Same, Keeps
<1>6. PICK w : w = [Now EXCEPT !.bev[b] = v] OBVIOUS
<1>7. Quiet(Now, w, b) BY <1>1, <1>5, <1>6, Touch
<1>8. w \in Worlds BY <1>7 DEF Quiet, Does
<1>9. w = [Now EXCEPT !.bev[b].cfg = NoCfg, !.bev[b].limit = [d \in D |-> 0], !.bev[b].owed = 0]
  BY <1>1, <1>2, <1>4, <1>6 DEF Worlds
<1>10. PICK y : y = UnsuspendAll(w, b, D, "BW") OBVIOUS
<1>11. Quiet(w, y, b) BY <1>8, <1>10, UnsuspendAllQuiet
<1>12. y \in Worlds BY <1>11 DEF Quiet, Does
<1>13. PICK x : x = Del(y, b, "T") OBVIOUS
<1>14. Quiet(y, x, b) BY <1>12, <1>13, DelQuiet
<1>15. Call("limit", b, x) BY <1>9, <1>10, <1>13 DEF EndRateLimit
<1>16. Quiet(Now, x, b) BY <1>7, <1>11, <1>14, QuietTwice
<1> QED BY <1>15, <1>16, CallStep DEF Quiet

LEMMA DecrementLimitStep ==
  ASSUME Sound(Now, loop), NEW b \in Bevs, NEW d \in D, DecrementLimit(b, d)
  PROVE  Sound(Now', loop') /\ Within(Now, Now')
<1>1. Now \in Worlds /\ Now.bev = bev /\ bev[b] \in Bev BY DEF Sound, Base, Worlds, Now
<1>2. bev[b].limit[d] \in Int
  <2>1. bev[b].limit \in [D -> Int] BY <1>1 DEF Bev
  <2> QED BY <2>1
<1>3. PICK new, w, x :
        /\ new \in Int
        /\ w = [Now EXCEPT !.bev[b].limit[d] = new] /\ Call("decrement", b, x)
        /\ \/ x = Add(Suspend(w, b, d, "BW"), b, "T")
           \/ x = Unsuspend(IF "BW" \in bev[b].susp[Other(d)] THEN w ELSE Del(w, b, "T"),
                            b, d, "BW")
           \/ x = w
  <2>1. Burst[bev[b].cfg] \in Int
    <3>1. bev[b].cfg # NoCfg BY DEF DecrementLimit
    <3>2. bev[b].cfg \in Cfgs BY <1>1, <3>1 DEF Bev
    <3> QED BY <3>2, EvBevAssumption DEF EvBevAssumption
  <2>2. \A new \in -1 .. Burst[bev[b].cfg] : new \in Int BY <2>1
  <2>3. PICK new, w :
          /\ new \in -1 .. Burst[bev[b].cfg]
          /\ w = [Now EXCEPT !.bev[b].limit[d] = new]
          /\ \/ Call("decrement", b, Add(Suspend(w, b, d, "BW"), b, "T"))
             \/ Call("decrement", b,
                     Unsuspend(IF "BW" \in bev[b].susp[Other(d)] THEN w ELSE Del(w, b, "T"),
                               b, d, "BW"))
             \/ Call("decrement", b, w)
    BY Zenon DEF DecrementLimit
  <2> QED BY <2>2, <2>3, Zenon
<1>4. PICK n \in Int : n = bev[b].limit[d] - new BY <1>2, <1>3
<1>5. bev[b].limit[d] - n = new BY <1>2, <1>3, <1>4
<1>6. w = [Now EXCEPT !.bev[b].limit[d] = @ - n] BY <1>1, <1>3, <1>5
<1>7. \/ x = Add(Suspend(w, b, d, "BW"), b, "T") \/ x = Unsuspend(w, b, d, "BW")
      \/ x = Unsuspend(Del(w, b, "T"), b, d, "BW") \/ x = w
  BY <1>3
<1>8. Quiet(Now, x, b) BY <1>1, <1>6, <1>7, OwnSpendQuiet
<1> QED BY <1>3, <1>8, CallStep DEF Quiet

\* A call that keeps the lengths of the buffers
LEMMA EvenStep ==
  ASSUME Sound(Now, loop), NEW x, Sound(x, loop), SameLen(Now, x), Becomes(x), UNCHANGED loop
  PROVE  Sound(Now', loop') /\ Within(Now, Now')
<1>1. Within(Now, x) BY SameWithin DEF Within, Sound, Base
<1>2. Now' = x BY NowIs DEF Sound, Base
<1> QED BY <1>1, <1>2

\* The members of the group change, then the events of b.
LEMMA GroupStep ==
  ASSUME Sound(Now, loop), NEW b \in Bevs, NEW m \in SUBSET Bevs, m \ {b} \subseteq grp.members,
         NEW y, y = [Now EXCEPT !.grp.members = m],
         NEW x, y \in Worlds => Quiet(y, x, b), Call("group", b, x)
  PROVE  Sound(Now', loop') /\ Within(Now, Now')
<1>1. bev[b].own /\ Becomes(x) /\ UNCHANGED loop BY DEF Call
<1>2. PICK w : w = Now OBVIOUS
<1>3. /\ w \in Worlds /\ w.bev = bev /\ w.grp = grp /\ grp \in Grp /\ bev[b].st = "live"
  BY <1>1, <1>2, Owned
<1>4. PICK g : g = [w.grp EXCEPT !.members = m] OBVIOUS
<1>5. g \in Grp /\ g.members = m BY <1>3, <1>4 DEF Grp
<1>6. y = [w EXCEPT !.grp = g] BY <1>2, <1>4
<1>7. y \in Worlds /\ y.bev = w.bev /\ y.grp = g /\ y.queue = w.queue
  BY <1>3, <1>5, <1>6 DEF Worlds
<1>8. SameRefs(w, y)
  <2>1. \A c \in Bevs : Counted(w, loop, c) BY <1>2 DEF Sound, Base
  <2>2. \A c \in m : c \in Bevs /\ y.bev[c].st = "live" BY <1>3, <1>7, <2>1 DEF Counted, Grp
  <2>3. \A c \in Bevs : bev[c].final = Kinds \/ bev[c].st # "live" => bev[c].due = FALSE
    BY <1>3, <2>1 DEF Counted
  <2> QED BY <1>3, <1>5, <1>7, <2>2, <2>3 DEF SameRefs
<1>9. Sound(y, loop) BY <1>2, <1>7, <1>8, SameRefsSound
<1>10. Does(y, x, b) BY <1>7 DEF Quiet
<1>11. For(y, x, b) BY <1>3, <1>7 DEF For
<1>12. Sound(x, loop) BY <1>9, <1>10, <1>11, DoesMoves, MovesSound
<1>13. SameLen(y, x) BY <1>10, DoesLen
<1>14. SameLen(Now, x) BY <1>2, <1>7, <1>13 DEF SameLen
<1> QED BY <1>1, <1>12, <1>14, EvenStep

LEMMA JoinLeaveStep ==
  ASSUME Sound(Now, loop), NEW b \in Bevs, Join(b) \/ Leave(b)
  PROVE  Sound(Now', loop') /\ Within(Now, Now')
<1>1. grp.members \in SUBSET Bevs /\ Now.grp = grp BY DEF Sound, Base, Worlds, Grp, Now
<1>2. "GROUP" \in Reasons BY DEF Reasons
<1>3. CASE Join(b)
  <2>1. PICK m : m = grp.members \cup {b} OBVIOUS
  <2>2. m \in SUBSET Bevs /\ m \ {b} \subseteq grp.members BY <1>1, <2>1
  <2>3. PICK y : y = [Now EXCEPT !.grp.members = m] OBVIOUS
  <2>4. PICK x : x = SuspendAll(y, b, grp.suspended, "GROUP") OBVIOUS
  <2>5. y = [Now EXCEPT !.grp.members = @ \cup {b}] BY <1>1, <2>1, <2>3
  <2>6. Call("group", b, x) BY <1>3, <2>4, <2>5 DEF Join
  <2>7. y \in Worlds => Quiet(y, x, b) BY <1>2, <2>4, SuspendAllQuiet
  <2> QED BY <2>2, <2>3, <2>6, <2>7, GroupStep
<1>4. CASE Leave(b)
  <2>1. PICK m : m = grp.members \ {b} OBVIOUS
  <2>2. m \in SUBSET Bevs /\ m \ {b} \subseteq grp.members BY <1>1, <2>1
  <2>3. PICK y : y = [Now EXCEPT !.grp.members = m] OBVIOUS
  <2>4. PICK x : x = UnsuspendAll(y, b, D, "GROUP") OBVIOUS
  <2>5. y = [Now EXCEPT !.grp.members = @ \ {b}] BY <1>1, <2>1, <2>3
  <2>6. Call("group", b, x) BY <1>4, <2>4, <2>5 DEF Leave
  <2>7. y \in Worlds => Quiet(y, x, b) BY <2>4, UnsuspendAllQuiet
  <2> QED BY <2>2, <2>3, <2>6, <2>7, GroupStep
<1> QED BY <1>3, <1>4

\* The references that are neither the program's nor a lookup's
Others(v) == v.refcnt - (Of(v.own = TRUE) + Of(v.lookup # "no"))
\* There is a bufferevent, that its program does not hear of once it is released.
There(v) == v.st = "live" /\ v.final = {} /\ (v.own = FALSE => v.cbs = FALSE)

Reheld(w, z, l, b, v) ==
  /\ Base(z, l) /\ z.bev[b] = v
  /\ \A c \in Bevs \ {b} : z.bev[c] = w.bev[c] /\ Alive(z, c)

\* The references of b change, and the queue does not.
LEMMA Rehold ==
  ASSUME NEW w, NEW l, Sound(w, l), NEW b \in Bevs, w.bev[b].st = "live", w.bev[b].final = {},
         NEW v \in Bev, There(v), Others(v) = Others(w.bev[b]), NEW z, z = [w EXCEPT !.bev[b] = v]
  PROVE  Reheld(w, z, l, b, v)
<1>1. /\ w \in Worlds /\ QueueFits(w, l) /\ LoopFits(w, l)
      /\ \A c \in Bevs : Counted(w, l, c) /\ Alive(w, c)
  BY DEF Sound, Base
<1>2. /\ z \in Worlds /\ z.grp = w.grp /\ z.queue = w.queue /\ z.bev[b] = v
      /\ \A c \in Bevs \ {b} : z.bev[c] = w.bev[c]
  BY <1>1 DEF Worlds
<1>3. QueueFits(z, l)
  <2>1. ASSUME NEW e \in Tasks(w.queue) PROVE e.b # None => e.b \in Bevs
    <3>1. e \in Entries BY <1>1 DEF Worlds, Tasks
    <3> QED BY <3>1 DEF Entries
  <2>2. \A c \in Bevs : z.bev[c].st = w.bev[c].st /\ z.bev[c].final = w.bev[c].final
    BY <1>2 DEF There
  <2> QED BY <1>1, <1>2, <2>1, <2>2 DEF QueueFits
<1>4. LoopFits(z, l) BY <1>1, <1>2 DEF LoopFits, There
<1>5. \A c \in Bevs : Of(Deferred(z, c)) = Of(Deferred(w, c)) BY <1>2 DEF Deferred
<1>6. \A c \in Bevs \ {b} : Counted(z, l, c) /\ Alive(z, c)
  <2> SUFFICES ASSUME NEW c \in Bevs \ {b} PROVE Counted(z, l, c) /\ Alive(z, c) OBVIOUS
  <2>1. Counted(w, l, c) /\ Alive(w, c) /\ z.bev[c] = w.bev[c] BY <1>1, <1>2
  <2>2. Of(Deferred(z, c)) = Of(Deferred(w, c)) BY <1>5
  <2> QED BY <1>2, <2>1, <2>2 DEF Counted, Alive
<1>7. Counted(z, l, b)
  <2> DEFINE o == Of(w.bev[b].own = TRUE)
             k == Of(w.bev[b].lookup # "no")
             p == Of(v.own = TRUE)
             q == Of(v.lookup # "no")
             d == Of(Deferred(w, b))
             a == Of(AtDeferred(l, b))
  <2>1. o \in {0, 1} /\ k \in {0, 1} /\ p \in {0, 1} /\ q \in {0, 1} /\ d \in {0, 1} /\ a \in {0, 1}
    BY DEF Of
  <2>2. w.bev[b].refcnt = o + k + d + a BY <1>1 DEF Counted
  <2>3. v.refcnt - (p + q) = w.bev[b].refcnt - (o + k) BY DEF Others
  <2>4. v.refcnt \in Int BY DEF Bev
  <2> HIDE DEF o, k, p, q, d, a
  <2>5. v.refcnt = p + q + d + a BY <2>1, <2>2, <2>3, <2>4
  <2>6. v.refcnt = Of(v.own = TRUE) + Of(v.lookup # "no") + Of(Deferred(z, b)) + a
    BY <1>5, <2>5 DEF p, q, d
  <2>7. {} # Kinds BY DEF Kinds
  <2> QED BY <1>2, <2>6, <2>7 DEF Counted, There, a
<1> QED BY <1>1, <1>2, <1>3, <1>4, <1>6, <1>7 DEF Reheld, Base

LEMMA ConnectHostnameStep ==
  ASSUME Sound(Now, loop), NEW b \in Bevs, ConnectHostname(b)
  PROVE  Sound(Now', loop') /\ Within(Now, Now')
<1>1. Now \in Worlds BY DEF Sound, Base
<1>2. "LOOKUP" \in Reasons BY DEF Reasons
<1>3. PICK r : r = Suspend(Now, b, "W", "LOOKUP") OBVIOUS
<1>4. Quiet(Now, r, b) BY <1>1, <1>2, <1>3, SuspendQuiet, Directions
<1>5. r \in Worlds BY <1>4 DEF Quiet, Does
<1>6. PICK y : y = Suspend(r, b, "R", "LOOKUP") OBVIOUS
<1>7. Quiet(r, y, b) BY <1>2, <1>5, <1>6, SuspendQuiet, Directions
<1>8. Does(Now, y, b) BY <1>4, <1>7, Twice DEF Quiet
<1>9. y \in Worlds /\ y.bev[b] \in Bev /\ Same(Now.bev[b], y.bev[b]) BY <1>8 DEF Does, Worlds
<1>10. PICK x : x = [Incref(y, b) EXCEPT !.bev[b].lookup = "pending"] OBVIOUS
<1>11. Call("lookup", b, x) /\ bev[b].lookup = "no" BY <1>3, <1>6, <1>10 DEF ConnectHostname
<1>12. bev[b].own /\ Becomes(x) /\ UNCHANGED loop BY <1>11 DEF Call
<1>13. bev[b].own = TRUE /\ bev[b].st = "live" /\ bev[b].final = {} /\ Now.bev = bev
  BY <1>12, Owned
<1>14. Sound(y, loop) BY <1>8, <1>13, DoesMoves, MovesSound DEF For
<1>15. /\ y.bev[b].own = TRUE /\ y.bev[b].st = "live" /\ y.bev[b].final = {}
       /\ y.bev[b].lookup = "no"
  BY <1>9, <1>11, <1>13 DEF Same, Keeps
<1>16. PICK n : n = y.bev[b].refcnt + 1 OBVIOUS
<1>17. n \in Int BY <1>9, <1>16 DEF Bev
<1>18. PICK v : v = [y.bev[b] EXCEPT !.refcnt = n, !.lookup = "pending"] OBVIOUS
<1>19. /\ v \in Bev /\ v.st = "live" /\ v.final = {} /\ v.own = TRUE /\ v.lookup = "pending"
       /\ v.refcnt = n /\ v.len = y.bev[b].len
  BY <1>9, <1>15, <1>17, <1>18 DEF Bev
<1>20. x = [y EXCEPT !.bev[b] = v] BY <1>9, <1>10, <1>16, <1>18 DEF Worlds, Incref
<1>21. Base(x, loop) /\ x.bev[b] = v /\ \A c \in Bevs \ {b} : x.bev[c] = y.bev[c] /\ Alive(x, c)
  <2>1. Of(v.own = TRUE) = 1 /\ Of(y.bev[b].own = TRUE) = 1 /\ Of(v.lookup # "no") = 1
        /\ Of(y.bev[b].lookup # "no") = 0
    BY <1>15, <1>19 DEF Of
  <2>2. Others(v) = Others(y.bev[b]) BY <1>9, <1>16, <1>19, <2>1 DEF Bev, Others
  <2>3. There(v) BY <1>19 DEF There
  <2>4. v \in Bev BY <1>19
  <2>5. y.bev[b].st = "live" /\ y.bev[b].final = {} BY <1>15
  <2>6. Reheld(y, x, loop, b, v) BY <1>14, <1>20, <2>2, <2>3, <2>4, <2>5, Rehold
  <2> QED BY <2>6 DEF Reheld
<1>22. Alive(x, b)
  <2>1. y.bev[b].refcnt > 0 BY <1>14, <1>15 DEF Sound, Alive
  <2>2. n > 0 BY <1>9, <1>16, <2>1 DEF Bev
  <2> QED BY <1>19, <1>21, <2>2 DEF Alive
<1>23. Sound(x, loop) BY <1>21, <1>22 DEF Sound
<1>24. SameLen(Now, y) BY <1>8, DoesLen
<1>25. SameLen(Now, x) BY <1>15, <1>19, <1>21, <1>24 DEF SameLen
<1> QED BY <1>12, <1>23, <1>25, EvenStep

\* The end of a name lookup gives back the reference that it held.
LEMMA LookupEnds ==
  ASSUME NEW y, Sound(y, loop), NEW b \in Bevs, y.bev[b].st = "live", y.bev[b].lookup # "no",
         NEW w, w = [y EXCEPT !.bev[b].lookup = "no"], NEW t, Does(w, t, b), NEW x, x = Decref(t, b),
         "bufferevent_decref_and_unlock_" \in Repaired
  PROVE  Sound(x, loop) /\ SameLen(y, x)
<1>1. y \in Worlds /\ y.bev[b] \in Bev /\ LoopFits(y, loop) /\ Counted(y, loop, b) /\ Alive(y, b)
  BY DEF Sound, Base, Worlds
<1>2. PICK n : n = y.bev[b].refcnt - 1 OBVIOUS
<1>3. n \in Int /\ n + 1 = y.bev[b].refcnt BY <1>1, <1>2 DEF Bev
<1>4. PICK v : v = [y.bev[b] EXCEPT !.refcnt = n, !.lookup = "no"] OBVIOUS
<1>5. /\ v \in Bev /\ v.st = "live" /\ v.final = y.bev[b].final /\ v.own = y.bev[b].own
      /\ v.cbs = y.bev[b].cbs /\ v.lookup = "no" /\ v.refcnt = n
  BY <1>1, <1>3, <1>4 DEF Bev
<1>6. PICK z : z = [y EXCEPT !.bev[b] = v] OBVIOUS
<1>7. w = Incref(z, b) /\ w \in Worlds /\ SameLen(y, w)
  <2>1. PICK u : u = [y.bev[b] EXCEPT !.lookup = "no"] OBVIOUS
  <2>2. w = [y EXCEPT !.bev[b] = u] BY <2>1
  <2>3. u = [v EXCEPT !.refcnt = @ + 1] BY <1>1, <1>3, <1>4, <2>1 DEF Bev
  <2>4. u \in Bev /\ u.len = y.bev[b].len /\ u.st = y.bev[b].st BY <1>1, <2>1 DEF Bev
  <2>5. w \in Worlds /\ w.bev[b] = u /\ \A c \in Bevs \ {b} : w.bev[c] = y.bev[c]
    <3>1. PICK f : f = [y.bev EXCEPT ![b] = u] OBVIOUS
    <3>2. f \in [Bevs -> Bev] /\ f[b] = u /\ \A c \in Bevs \ {b} : f[c] = y.bev[c]
      BY <1>1, <2>4, <3>1 DEF Worlds
    <3>3. w = [y EXCEPT !.bev = f] BY <2>2, <3>1
    <3> QED BY <1>1, <3>2, <3>3 DEF Worlds
  <2>6. w = Incref(z, b) BY <1>1, <1>6, <2>2, <2>3 DEF Worlds, Incref
  <2> QED BY <2>4, <2>5, <2>6 DEF SameLen
<1>8. y.bev[b].final = {} /\ (y.bev[b].own = FALSE => y.bev[b].cbs = FALSE)
  <2> DEFINE o == Of(y.bev[b].own = TRUE)
             k == Of(y.bev[b].lookup # "no")
             d == Of(Deferred(y, b))
             a == Of(AtDeferred(loop, b))
  <2>1. o \in {0, 1} /\ d \in {0, 1} /\ a \in {0, 1} BY DEF Of
  <2>2. k = 1 BY DEF Of
  <2>3. y.bev[b].refcnt = o + k + d + a BY <1>1 DEF Counted
  <2> HIDE DEF o, k, d, a
  <2>4. y.bev[b].refcnt > 0 BY <2>1, <2>2, <2>3
  <2> QED BY <1>1, <2>4 DEF Counted, Alive
<1>9. Base(z, loop) /\ z.bev[b] = v /\ \A c \in Bevs \ {b} : Alive(z, c)
  <2>1. Of(v.own = TRUE) = Of(y.bev[b].own = TRUE) BY <1>5
  <2>2. Of(v.own = TRUE) \in {0, 1} /\ Of(v.lookup # "no") = 0 /\ Of(y.bev[b].lookup # "no") = 1
    BY <1>5 DEF Of
  <2>3. Others(v) = Others(y.bev[b]) BY <1>3, <1>5, <2>1, <2>2 DEF Others
  <2>4. There(v) BY <1>5, <1>8 DEF There
  <2>5. Reheld(y, z, loop, b, v) BY <1>5, <1>6, <1>8, <2>3, <2>4, Rehold
  <2> QED BY <2>5 DEF Reheld
<1>10. Moves(w, t, b) BY DoesMoves
<1>11. PICK s : s = Less(t, b) OBVIOUS
<1>12. z \in Worlds BY <1>9 DEF Base
<1>13. Moves(z, s, b) BY <1>7, <1>10, <1>11, <1>12, Bracket
<1>14. For(z, s, b) BY <1>5, <1>9 DEF For
<1>15. Base(s, loop) BY <1>9, <1>13, <1>14, MovesBase
<1>16. \A c \in Bevs \ {b} : Alive(s, c) BY <1>9, <1>13, <1>14, MovesAlive
<1>17. s.bev[b].st = "live" BY <1>5, <1>9, <1>13 DEF Moves, Keeps
<1>18. Running(b) \in Kinds \cup {"none"} BY <1>1, RunningKind
<1>19. Sound(x, loop) BY <1>11, <1>15, <1>16, <1>17, <1>18, DecrefSound
<1>20. SameLen(w, t) /\ t \in Worlds
  <2>1. SameLen(w, t) BY DoesLen
  <2> QED BY <2>1 DEF Does
<1>21. SameLen(t, x) BY <1>20, DecrefLen
<1>22. SameLen(y, x) BY <1>7, <1>20, <1>21 DEF SameLen
<1> QED BY <1>19, <1>22

LEMMA LookupDoneStep ==
  ASSUME Sound(Now, loop), "bufferevent_decref_and_unlock_" \in Repaired,
         NEW b \in Bevs, LookupDone(b)
  PROVE  Sound(Now', loop') /\ Within(Now, Now')
<1>1. /\ Now \in Worlds /\ Now.bev = bev /\ Counted(Now, loop, b)
  BY DEF Sound, Base, Now
<1>2. PICK r : r = Unsuspend(Now, b, "W", "LOOKUP") OBVIOUS
<1>3. Quiet(Now, r, b) BY <1>1, <1>2, UnsuspendQuiet, Directions
<1>4. r \in Worlds BY <1>3 DEF Quiet, Does
<1>5. PICK y : y = Unsuspend(r, b, "R", "LOOKUP") OBVIOUS
<1>6. Quiet(r, y, b) BY <1>4, <1>5, UnsuspendQuiet, Directions
<1>7. Does(Now, y, b) BY <1>3, <1>6, Twice DEF Quiet
<1>8. y \in Worlds /\ y.bev[b] \in Bev /\ Same(Now.bev[b], y.bev[b]) BY <1>7 DEF Does, Worlds
<1>9. bev[b].lookup # "no" BY DEF LookupDone
<1>10. bev[b].st = "live" BY <1>1, <1>9 DEF Counted
<1>11. y.bev[b].st = "live" /\ y.bev[b].lookup # "no" BY <1>1, <1>8, <1>9, <1>10 DEF Same, Keeps
<1>12. Sound(y, loop) BY <1>1, <1>7, <1>10, DoesMoves, MovesSound DEF For
<1>13. PICK w : w = [y EXCEPT !.bev[b].lookup = "no"] OBVIOUS
<1>14. w \in Worlds
  <2>1. PICK u : u = [y.bev[b] EXCEPT !.lookup = "no"] OBVIOUS
  <2>2. u \in Bev BY <1>8, <2>1 DEF Bev
  <2>3. w = [y EXCEPT !.bev[b] = u] BY <1>13, <2>1
  <2> QED BY <1>8, <2>2, <2>3 DEF Worlds
<1>15. PICK t : /\ t = w \/ t = RunCb(w, b, "error")
                   \/ \E result \in Results : t = ConnectTo(w, b, result)
                /\ Becomes(Decref(t, b))
  <2>1. w = [Unsuspend(Unsuspend(Now, b, "W", "LOOKUP"), b, "R", "LOOKUP") EXCEPT
               !.bev[b].lookup = "no"]
    BY <1>2, <1>5, <1>13
  <2>2. \/ Becomes(Decref(w, b)) \/ Becomes(Decref(RunCb(w, b, "error"), b))
        \/ \E result \in Results : Becomes(Decref(ConnectTo(w, b, result), b))
    BY <2>1, Zenon DEF LookupDone
  <2> QED BY <2>2
<1>16. Does(w, t, b)
  <2>1. "error" \in Whats BY DEF Whats, Events
  <2>2. CASE t = w BY <1>14, <2>2, Nothing DEF Quiet
  <2>3. CASE t = RunCb(w, b, "error") BY <1>14, <2>1, <2>3, RunCbDoes
  <2>4. CASE \E result \in Results : t = ConnectTo(w, b, result) BY <1>14, <2>4, ConnectToDoes
  <2> QED BY <1>15, <2>2, <2>3, <2>4
<1>17. PICK x : x = Decref(t, b) OBVIOUS
<1>18. Sound(x, loop) /\ SameLen(y, x) BY <1>11, <1>12, <1>13, <1>16, <1>17, LookupEnds
<1>19. SameLen(Now, x)
  <2>1. SameLen(Now, y) BY <1>7, DoesLen
  <2> QED BY <1>18, <2>1 DEF SameLen
<1>20. Becomes(x) /\ UNCHANGED loop BY <1>15, <1>17 DEF LookupDone
<1> QED BY <1>18, <1>19, <1>20, EvenStep

LEMMA FreeStep ==
  ASSUME Sound(Now, loop), "bufferevent_decref_and_unlock_" \in Repaired, NEW b \in Bevs, Free(b)
  PROVE  Sound(Now', loop') /\ Within(Now, Now')
<1>1. PICK w : w = Now OBVIOUS
<1>2. /\ w \in Worlds /\ w.bev[b] \in Bev /\ w.bev[b].own = TRUE /\ w.bev[b].st = "live"
      /\ w.bev[b].final = {} /\ LoopFits(w, loop) /\ Sound(w, loop)
  <2>1. bev[b].own BY DEF Free
  <2>2. LoopFits(Now, loop) BY DEF Sound, Base
  <2> QED BY <1>1, <2>1, <2>2, Owned
<1>3. PICK u : u = [w.bev[b] EXCEPT !.own = FALSE, !.cbs = FALSE] OBVIOUS
<1>4. u \in Bev /\ u.len = w.bev[b].len /\ u.st = "live" /\ u.refcnt = w.bev[b].refcnt
  BY <1>2, <1>3 DEF Bev
<1>5. PICK y : y = [w EXCEPT !.bev[b] = u] OBVIOUS
<1>6. y = [Now EXCEPT !.bev[b].own = FALSE, !.bev[b].cbs = FALSE]
  BY <1>1, <1>2, <1>3, <1>5 DEF Worlds
<1>7. y \in Worlds /\ y.bev[b] = u /\ \A c \in Bevs \ {b} : y.bev[c] = w.bev[c]
  BY <1>2, <1>4, <1>5 DEF Worlds
<1>8. PICK x : x = Decref(y, b) OBVIOUS
<1>9. Becomes(x) /\ UNCHANGED loop
  <2>1. Call("free", b, x) BY <1>6, <1>8 DEF Free
  <2> QED BY <2>1 DEF Call
<1>10. PICK n : n = w.bev[b].refcnt - 1 OBVIOUS
<1>11. n \in Int BY <1>2, <1>10 DEF Bev
<1>12. PICK v : v = [w.bev[b] EXCEPT !.own = FALSE, !.cbs = FALSE, !.refcnt = n] OBVIOUS
<1>13. /\ v \in Bev /\ v.st = "live" /\ v.final = {} /\ v.own = FALSE /\ v.cbs = FALSE
       /\ v.lookup = w.bev[b].lookup /\ v.refcnt = n
  BY <1>2, <1>11, <1>12 DEF Bev
<1>14. PICK z : z = [w EXCEPT !.bev[b] = v] OBVIOUS
<1>15. z = Less(y, b)
  <2>1. v = [u EXCEPT !.refcnt = @ - 1] BY <1>2, <1>3, <1>10, <1>12 DEF Bev
  <2>2. Less(y, b) = [y EXCEPT !.bev[b] = v] BY <1>7, <2>1 DEF Less, Worlds
  <2>3. [y EXCEPT !.bev[b] = v] = [w EXCEPT !.bev[b] = v] BY <1>2, <1>5 DEF Worlds
  <2> QED BY <1>14, <2>2, <2>3
<1>16. Others(v) = Others(w.bev[b])
  <2>1. Of(v.own = TRUE) = 0 /\ Of(w.bev[b].own = TRUE) = 1 BY <1>2, <1>13 DEF Of
  <2>2. PICK k : k = Of(w.bev[b].lookup # "no") /\ k = Of(v.lookup # "no") BY <1>13
  <2>3. k \in {0, 1} BY <2>2 DEF Of
  <2>4. Others(v) = n - (0 + k) /\ Others(w.bev[b]) = w.bev[b].refcnt - (1 + k)
    BY <1>13, <2>1, <2>2 DEF Others
  <2>5. w.bev[b].refcnt \in Int BY <1>2 DEF Bev
  <2> QED BY <1>10, <2>3, <2>4, <2>5
<1>17. Reheld(w, z, loop, b, v)
  <2>1. There(v) BY <1>13 DEF There
  <2> QED BY <1>2, <1>13, <1>14, <1>16, <2>1, Rehold
<1>18. Base(z, loop) /\ z.bev[b].st = "live" /\ \A c \in Bevs \ {b} : Alive(z, c)
  BY <1>13, <1>17 DEF Reheld
<1>19. Running(b) \in Kinds \cup {"none"} BY <1>2, RunningKind
<1>20. Sound(x, loop) BY <1>8, <1>15, <1>18, <1>19, DecrefSound
<1>21. SameLen(Now, x)
  <2>1. SameLen(y, x) BY <1>7, <1>8, DecrefLen
  <2>2. SameLen(w, y) BY <1>2, <1>4, <1>7 DEF SameLen
  <2> QED BY <1>1, <2>1, <2>2 DEF SameLen
<1> QED BY <1>9, <1>20, <1>21, EvenStep

LEMMA TellingStep ==
  ASSUME Sound(Now, loop), "bufferevent_decref_and_unlock_" \in Repaired,
         NEW b \in Bevs, RunDeferred(b) \/ CallbackReturns(b)
  PROVE  Sound(Now', loop') /\ Within(Now, Now')
<1>1. CASE RunDeferred(b)
  <2>1. loop.at = "taken" /\ loop.b = b /\ loop.k = "D" /\ TellFrom(Now, b, 1)
    BY <1>1 DEF RunDeferred, Start
  <2> QED BY <2>1, TellStep
<1>2. CASE CallbackReturns(b)
  <2>1. LoopFits(Now, loop) BY DEF Sound, Base
  <2>2. loop.at = "telling" /\ loop.b = b /\ \E i : TellFrom(Now, b, i)
    BY <1>2, Zenon DEF CallbackReturns
  <2>3. loop.k = "D" BY <2>1, <2>2 DEF LoopFits
  <2> QED BY <2>2, <2>3, TellStep
<1> QED BY <1>1, <1>2

---------------------------------------------------------------------------
(* Every step                                                              *)

LEMMA InitSound == ASSUME Init PROVE Sound(Now, loop)
<1>1. /\ Now.bev = bev /\ Now.grp = grp /\ Now.queue = << >> /\ loop.at = "poll" /\ loop.b = None
  BY DEF Init, Now, Idle
<1>2. ASSUME NEW b \in Bevs
      PROVE  LET v == bev[b]
             IN /\ v \in Bev /\ v.st \in {"live", "unused"} /\ v.lookup = "no" /\ v.final = {}
                /\ v.due = FALSE /\ v.refcnt = 1 /\ v.cbs = TRUE
                /\ v.own = TRUE <=> v.st = "live"
  <2>1. PICK f : f = Fresh(IF "connect" \in uses THEN "none" ELSE "up") OBVIOUS
  <2>2. /\ f \in Bev /\ f.lookup = "no" /\ f.final = {} /\ f.due = FALSE /\ f.refcnt = 1
        /\ f.own = TRUE /\ f.cbs = TRUE /\ f.st = "live"
    BY <2>1, FreshType
  <2>3. At(uses) \subseteq {"R", "W"} BY DEF At
  <2>4. PICK e \in SUBSET D : e = IF "enable" \in uses THEN f.enabled ELSE At(uses)
    BY <2>2, <2>3, Directions DEF Bev
  <2>5. PICK p \in SUBSET {"R", "W", "T"} :
          p = IF "enable" \in uses THEN f.pend ELSE At(uses) \ {"W"}
    BY <2>2, <2>3 DEF Bev
  <2>6. PICK t \in SUBSET D : t = IF "timeouts" \in uses THEN D ELSE {} OBVIOUS
  <2>7. PICK s \in {"live", "unused"} : s = IF Has(b, uses) THEN "live" ELSE "unused" OBVIOUS
  <2>8. PICK o \in BOOLEAN : o = Has(b, uses) /\ (o = TRUE <=> s = "live")
    BY <2>7 DEF Has
  <2>9. PICK v : v = [f EXCEPT !.enabled = e, !.pend = p, !.tv = t, !.st = s, !.own = o]
    OBVIOUS
  <2>10. bev[b] = v BY <2>1, <2>4, <2>5, <2>6, <2>7, <2>8, <2>9 DEF Init
  <2>11. /\ v \in Bev /\ v.st = s /\ v.lookup = "no" /\ v.final = {} /\ v.due = FALSE
         /\ v.refcnt = 1 /\ v.cbs = TRUE /\ v.own = o
    BY <2>2, <2>9 DEF Bev
  <2>12. o = TRUE <=> s = "live" BY <2>8
  <2> QED BY <2>10, <2>11, <2>12
<1>3. grp \in Grp /\ grp.members = {}
  <2>1. PICK l : l = [d \in D |-> Rate] OBVIOUS
  <2>2. l \in [D -> Int] BY <2>1, Sizes
  <2>3. grp = [members |-> {}, limit |-> l, suspended |-> {}, again |-> {},
               owed |-> 0, due |-> FALSE]
    BY <2>1 DEF Init
  <2> QED BY <2>2, <2>3 DEF Grp
<1>4. Now \in Worlds
  <2>1. DOMAIN bev = Bevs /\ bev = [b \in Bevs |-> bev[b]] BY DEF Init
  <2>2. bev \in [Bevs -> Bev] BY <1>2, <2>1
  <2>3. queue = << >> BY DEF Init
  <2>4. queue \in Seq(Entries) BY <2>3
  <2> QED BY <1>3, <2>2, <2>4 DEF Worlds, Now
<1>5. Tasks(Now.queue) = {} BY <1>1 DEF Tasks
<1>6. QueueFits(Now, loop) BY <1>1, <1>5 DEF QueueFits, Apart
<1>7. LoopFits(Now, loop) BY <1>1, Sizes DEF LoopFits
<1>8. ASSUME NEW c \in Bevs PROVE Counted(Now, loop, c) /\ Alive(Now, c)
  <2>1. ~Deferred(Now, c) /\ ~AtDeferred(loop, c) BY <1>1, <1>5 DEF Deferred, AtDeferred
  <2>2. Of(Deferred(Now, c)) = 0 /\ Of(AtDeferred(loop, c)) = 0 BY <2>1 DEF Of
  <2>3. PICK v : v = bev[c] OBVIOUS
  <2>4. /\ v \in Bev /\ v.st \in {"live", "unused"} /\ v.lookup = "no" /\ v.final = {}
        /\ v.due = FALSE /\ v.refcnt = 1 /\ v.cbs = TRUE /\ v.own \in BOOLEAN
        /\ v.own = TRUE <=> v.st = "live"
    BY <1>2, <2>3 DEF Bev
  <2>5. Of(v.lookup # "no") = 0 BY <2>4 DEF Of
  <2>6. v.st = "live" => Of(v.own = TRUE) = 1 /\ v.own = TRUE BY <2>4 DEF Of
  <2>7. {} # Kinds BY DEF Kinds
  <2> QED BY <1>1, <1>3, <2>2, <2>3, <2>4, <2>5, <2>6, <2>7 DEF Counted, Alive
<1> QED BY <1>4, <1>6, <1>7, <1>8 DEF Sound, Base

LEMMA ProgramStep ==
  ASSUME Sound(Now, loop), "bufferevent_decref_and_unlock_" \in Repaired,
         NEW b \in Bevs, Program(b)
  PROVE  Sound(Now', loop') /\ Within(Now, Now')
<1>1. CASE \E d \in D : Enable(b, d) \/ Disable(b, d) BY <1>1, EnableDisableStep
<1>2. CASE \E d \in D : DecrementLimit(b, d) BY <1>2, DecrementLimitStep
<1>3. CASE Write(b) BY <1>3, WriteStep
<1>4. CASE Read(b) BY <1>4, ReadStep
<1>5. CASE SetReadMarks(b) BY <1>5, SetReadMarksStep
<1>6. CASE SetWriteMark(b) BY <1>6, SetWriteMarkStep
<1>7. CASE SetTimeouts(b) BY <1>7, SetTimeoutsStep
<1>8. CASE SetFd(b) BY <1>8, SetFdStep
<1>9. CASE Connect(b) BY <1>9, ConnectStep
<1>10. CASE ConnectHostname(b) BY <1>10, ConnectHostnameStep
<1>11. CASE Free(b) BY <1>11, FreeStep
<1>12. CASE \E c \in Cfgs : SetRateLimit(b, c) BY <1>12, SetRateLimitStep
<1>13. CASE EndRateLimit(b) BY <1>13, EndRateLimitStep
<1>14. CASE Join(b) \/ Leave(b) BY <1>14, JoinLeaveStep
<1> QED BY <1>1, <1>2, <1>3, <1>4, <1>5, <1>6, <1>7, <1>8, <1>9, <1>10, <1>11, <1>12, <1>13,
           <1>14, Zenon DEF Program

LEMMA NextStep ==
  ASSUME Sound(Now, loop), "bufferevent_decref_and_unlock_" \in Repaired, [Next]_vars
  PROVE  Sound(Now', loop') /\ Within(Now, Now')
<1>1. CASE Poll BY <1>1, PollStep
<1>2. CASE Take BY <1>2, TakeStep
<1>3. CASE GroupRefill BY <1>3, GroupRefillStep
<1>4. CASE Tick BY <1>4, TickStep
<1>5. ASSUME NEW b \in Bevs, ReadCb(b) PROVE Sound(Now', loop') /\ Within(Now, Now')
  BY <1>5, ReadCbStep
<1>6. ASSUME NEW b \in Bevs, WriteCb(b) PROVE Sound(Now', loop') /\ Within(Now, Now')
  BY <1>6, WriteCbStep
<1>7. ASSUME NEW b \in Bevs, Refill(b) PROVE Sound(Now', loop') /\ Within(Now, Now')
  BY <1>7, RefillStep
<1>8. ASSUME NEW b \in Bevs, RunDeferred(b) \/ CallbackReturns(b)
      PROVE  Sound(Now', loop') /\ Within(Now, Now')
  BY <1>8, TellingStep
<1>9. ASSUME NEW b \in Bevs, FinalizeCb(b) PROVE Sound(Now', loop') /\ Within(Now, Now')
  BY <1>9, FinalizeCbStep
<1>10. ASSUME NEW b \in Bevs, Network(b) PROVE Sound(Now', loop') /\ Within(Now, Now')
  BY <1>10, NetworkStep
<1>11. ASSUME NEW b \in Bevs, LookupDone(b) PROVE Sound(Now', loop') /\ Within(Now, Now')
  BY <1>11, LookupDoneStep
<1>12. ASSUME NEW b \in Bevs, Program(b) PROVE Sound(Now', loop') /\ Within(Now, Now')
  BY <1>12, ProgramStep
<1>13. CASE UNCHANGED vars
  <2>1. Now' = Now /\ loop' = loop BY <1>13 DEF vars, Now
  <2>2. Within(Now, Now) BY SameWithin DEF Within, SameLen, Sound, Base
  <2> QED BY <2>1, <2>2
<1> QED BY <1>1, <1>2, <1>3, <1>4, <1>5, <1>6, <1>7, <1>8, <1>9, <1>10, <1>11, <1>12, <1>13, Zenon
        DEF Next, LoopStep

\* The references of every bufferevent have their holders, whoever has none is
\* finalized, and the queue and the loop hold only who is there
\* (bufferevent_incref_, bufferevent_decref_and_unlock_, bufferevent_finalize_cb_).
THEOREM AlwaysSound ==
  ASSUME "bufferevent_decref_and_unlock_" \in Repaired
  PROVE  Spec => []Sound(Now, loop)
<1>1. Init => Sound(Now, loop) BY InitSound
<1>2. Sound(Now, loop) /\ [Next]_vars => Sound(Now, loop)' BY NextStep
<1> QED BY <1>1, <1>2, PTL DEF Spec

\* A bufferevent is freed once, by bufferevent_finalize_cb_, after the last
\* reference, and nothing of it is left in the event base, in the group or with
\* the loop.
THEOREM FreedOnce ==
  ASSUME "bufferevent_decref_and_unlock_" \in Repaired
  PROVE  Spec => []Released
<1>1. ASSUME Sound(Now, loop) PROVE Released
  <2>1. /\ Now \in Worlds /\ Now.bev = bev /\ Now.grp = grp /\ Now.queue = queue
        /\ QueueFits(Now, loop) /\ LoopFits(Now, loop)
    BY <1>1 DEF Sound, Base, Now
  <2> SUFFICES ASSUME NEW b \in Bevs
               PROVE  /\ bev[b].st = "freed" =>
                           /\ bev[b].refcnt = 0 /\ bev[b].pend = {} /\ b \notin grp.members
                           /\ ~\E i \in DOMAIN queue : queue[i].b = b
                           /\ loop.b # b
                      /\ bev[b].final # {} => ~bev[b].own
    BY DEF Released
  <2>2. Counted(Now, loop, b) /\ bev[b] \in Bev BY <1>1, <2>1 DEF Sound, Base, Worlds
  <2>3. ASSUME bev[b].st = "freed", NEW i \in DOMAIN queue, queue[i].b = b PROVE FALSE
    <3>1. queue[i] \in Tasks(Now.queue) BY <2>1 DEF Tasks
    <3>2. b # None BY Sizes
    <3>3. bev[b].st = "live" BY <2>1, <2>3, <3>1, <3>2 DEF QueueFits
    <3> QED BY <2>3, <3>3
  <2>4. ASSUME bev[b].final # {} PROVE bev[b].own = FALSE
    <3>1. bev[b].final = Kinds /\ bev[b].refcnt = 0 BY <2>1, <2>2, <2>4 DEF Counted
    <3>2. bev[b].own # TRUE
      <4> DEFINE o == Of(bev[b].own = TRUE)
                 k == Of(bev[b].lookup # "no")
                 d == Of(Deferred(Now, b))
                 a == Of(AtDeferred(loop, b))
      <4>1. k \in {0, 1} /\ d \in {0, 1} /\ a \in {0, 1} /\ (bev[b].own = TRUE => o = 1)
        BY DEF Of
      <4>2. bev[b].st = "live" => 0 = o + k + d + a BY <2>1, <2>2, <3>1 DEF Counted
      <4>3. bev[b].st # "live" => bev[b].own = FALSE BY <2>1, <2>2 DEF Counted
      <4> HIDE DEF o, k, d, a
      <4>4. ASSUME o = 1, 0 = o + k + d + a PROVE FALSE BY <4>1, <4>4
      <4>5. bev[b].own = TRUE => bev[b].st = "live" BY <4>3
      <4> QED BY <4>1, <4>2, <4>4, <4>5
    <3>3. bev[b].own \in BOOLEAN BY <2>2 DEF Bev
    <3> QED BY <3>2, <3>3
  <2>5. bev[b].st = "freed" => bev[b].refcnt = 0 /\ bev[b].pend = {} /\ b \notin grp.members
    BY <2>1, <2>2 DEF Counted
  <2>6. bev[b].st = "freed" => loop.b # b BY <2>1 DEF LoopFits
  <2>7. bev[b].final # {} => ~bev[b].own BY <2>4, Zenon
  <2> QED BY <2>3, <2>5, <2>6, <2>7
<1> QED BY <1>1, AlwaysSound, PTL

\* Bytes move only while nothing suspends the direction, never past the mark,
\* beyond the bucket or beyond the share of the group (bufferevent_readcb,
\* bufferevent_writecb, bufferevent_get_rlim_max_).
THEOREM LimitsAreKept ==
  ASSUME "bufferevent_decref_and_unlock_" \in Repaired
  PROVE  Spec => MovesWithinLimits
<1>1. Sound(Now, loop) /\ [Next]_vars => [\A b \in Bevs : WithinLimits(Now, Now', b)]_vars
  BY NextStep DEF Within
<1> QED BY <1>1, AlwaysSound, PTL DEF Spec, MovesWithinLimits
=============================================================================
