---------------------------- MODULE EvMapProofs ----------------------------
(***************************************************************************)
(* Theorems about EvMap, for every number of descriptors and events: the   *)
(* counts are those of the events, every change knows its place, and the   *)
(* kernel watches what the events want once the changes are applied.       *)
(***************************************************************************)
EXTENDS EvMap, FiniteSetTheorems, TLAPS

OneChange == [AllKinds -> {"none", "add", "del"}]
Adds(f)   == With(changes[idxplus1[f]], "add")
Dels(f)   == With(changes[idxplus1[f]], "del")
Old(f)    == changes[idxplus1[f]].old

(***************************************************************************)
(* What a change that waits in the list promises of its descriptor: it     *)
(* leads from what the kernel had when it was made to what the events want *)
(* now.  The kinds it does not speak of are those the kernel still has;    *)
(* the kernel may have forgotten the descriptor since, but then the change *)
(* speaks of every kind the kernel had.                                    *)
(***************************************************************************)
Waiting(f) ==
  /\ Interest(f) = (Old(f) \ Dels(f)) \cup Adds(f)
  /\ Dels(f) \subseteq Old(f)
  /\ IsOpen(f) => Old(f) \ (Adds(f) \cup Dels(f)) \subseteq kernel[f]
  /\ file[f] = "open" => \/ kernel[f] = Old(f)
                         \/ kernel[f] = NoItem /\ Old(f) \subseteq Adds(f) \cup Dels(f)

\* Watched of one descriptor that has no change.
Settled(f) ==
  IsOpen(f) => /\ Interest(f) \subseteq kernel[f]
               /\ file[f] = "open" => kernel[f] = Interest(f)

Watches(f) == IF idxplus1[f] = 0 THEN Settled(f) ELSE Waiting(f)

MapInv ==
  /\ TypeOK /\ CountsAgree /\ ChangesAgree
  /\ \A f \in Fds : IsFiniteSet(events[f])
  /\ ~changelist => \A f \in Fds : idxplus1[f] = 0
  /\ \A f \in Fds : Watches(f)

---------------------------------------------------------------------------
(* What the kernel answers.                                                *)

LEMMA Wants ==
  ASSUME NEW ch, NEW A, NEW D, A = With(ch, "add"), D = With(ch, "del")
  PROVE  /\ A = {} /\ D = {} => OpTable(ch).op = "none"
         /\ A # {} \/ D # {} =>
              /\ OpTable(ch).want = (ch.old \ D) \cup A
              /\ A # {} => OpTable(ch).op = IF ch.old = {} THEN "ADD" ELSE "MOD"
              /\ A = {} => OpTable(ch).op = IF ch.old \ D = {} THEN "DEL" ELSE "MOD"
BY DEF OpTable

\* A change of an open descriptor that the kernel takes gives it the interest
\* asked for; one that it refuses leaves it without.
LEMMA ApplyOpen ==
  ASSUME NEW item, NEW ch, NEW answer \in Answers, IsOpen(ch.fd),
         NEW A, NEW D, A = With(ch, "add"), D = With(ch, "del"), A # {} \/ D # {}
  PROVE  LET r == Apply(item, ch, answer) IN
         /\ r.ok => r.item = (ch.old \ D) \cup A
         /\ ~r.ok => answer = "ENOMEM" /\ r.item = NoItem /\ item = NoItem
<1> DEFINE want == (ch.old \ D) \cup A
<1>1. OpTable(ch).want = want BY Wants
<1>2. CASE OpTable(ch).op = "ADD"
  BY <1>1, <1>2 DEF Apply, EpollCtl, NoItem, Answers
<1>3. CASE OpTable(ch).op = "MOD"
  BY <1>1, <1>3 DEF Apply, EpollCtl, NoItem, Answers
<1>4. CASE OpTable(ch).op = "DEL"
  <2>1. want = {} BY <1>4, Wants
  <2> QED BY <1>1, <1>4, <2>1 DEF Apply, EpollCtl, NoItem
<1> QED BY <1>2, <1>3, <1>4, Wants

LEMMA ApplyNone ==
  ASSUME NEW item, NEW ch, NEW answer, With(ch, "add") = {}, With(ch, "del") = {}
  PROVE  Apply(item, ch, answer).item = item
BY Wants DEF Apply

\* The kernel answers EBADF for a descriptor that is not open.
LEMMA ApplyClosed ==
  ASSUME NEW item, NEW ch, NEW answer, ~IsOpen(ch.fd)
  PROVE  Apply(item, ch, answer).item = item
<1> DEFINE ctl(op) == EpollCtl(ch.fd, item, op, OpTable(ch).want, answer)
<1>1. \A op : ctl(op) = [errno |-> "EBADF", item |-> item] BY DEF EpollCtl
<1>2. ctl(OpTable(ch).op) = [errno |-> "EBADF", item |-> item] BY <1>1
<1> QED BY <1>2 DEF Apply

\* The kinds of a change made at once.
LEMMA NewChangeKinds ==
  ASSUME NEW f, NEW old, NEW what \in {"add", "del"}, NEW kinds \in SUBSET AllKinds
  PROVE  LET ch == NewChange(f, old, what, kinds) IN
         /\ ch.fd = f /\ ch.old = old
         /\ With(ch, what) = kinds
         /\ \A other \in {"add", "del"} : other # what => With(ch, other) = {}
BY DEF NewChange, With

---------------------------------------------------------------------------
(* The list of changes.                                                    *)

\* A list that knows its places has at most one change for a descriptor.
LEMMA ListFits ==
  ASSUME NEW chs \in Seq(Change), NEW idx, \A i \in DOMAIN chs : idx[chs[i].fd] = i
  PROVE  Len(chs) <= Cardinality(Fds)
<1> DEFINE fds == [i \in 1 .. Len(chs) |-> chs[i].fd]
<1>1. fds \in [1 .. Len(chs) -> Fds]
  <2>1. \A i \in 1 .. Len(chs) : chs[i] \in Change OBVIOUS
  <2> QED BY <2>1 DEF Change
<1>2. \A i, j \in 1 .. Len(chs) : fds[i] = fds[j] => i = j OBVIOUS
<1>3. fds \in Injection(1 .. Len(chs), Fds) BY <1>1, <1>2 DEF Injection, IsInjective
<1>4. Cardinality(1 .. Len(chs)) <= Cardinality(Fds)
  BY <1>3, FS_Injection, EvMapAssumption
<1>5. Cardinality(1 .. Len(chs)) = Len(chs)
  <2>1. Len(chs) \in Nat OBVIOUS
  <2>2. Cardinality(1 .. Len(chs)) = IF 1 > Len(chs) THEN 0 ELSE Len(chs) - 1 + 1
    BY <2>1, FS_Interval
  <2> QED BY <2>1, <2>2
<1> QED BY <1>4, <1>5

\* The part of TypeOK and ChangesAgree that is about the list.
ListOK ==
  /\ changes \in Seq(Change)
  /\ idxplus1 \in [Fds -> 0 .. Len(changes)]
  /\ ChangesAgree

Recorded(f, c, p, kinds) ==
  /\ changes' = [c EXCEPT ![p].change = kinds]
  /\ idxplus1' = [idxplus1 EXCEPT ![f] = p]

\* The change of f, made now if there is none yet, gets the new kinds; the
\* changes of the others stay.
LEMMA SaveChange ==
  ASSUME ListOK, NEW f \in Fds, NEW old \in SUBSET AllKinds, NEW kinds \in OneChange,
         NEW c, c = Construct(changes, idxplus1, f, old),
         NEW p, p = Place(changes, idxplus1, f),
         Recorded(f, c, p, kinds)
  PROVE  /\ ListOK'
         /\ idxplus1'[f] # 0
         /\ changes'[idxplus1'[f]] =
              [fd |-> f, old |-> IF idxplus1[f] = 0 THEN old ELSE Old(f), change |-> kinds]
         /\ \A g \in Fds \ {f} : /\ idxplus1'[g] = idxplus1[g]
                                 /\ idxplus1[g] # 0 => changes'[idxplus1[g]] = changes[idxplus1[g]]
<1> DEFINE n == [fd |-> f, old |-> IF idxplus1[f] = 0 THEN old ELSE Old(f), change |-> kinds]
<1>1. /\ c \in Seq(Change) /\ p \in 1 .. Len(c)
      /\ [c[p] EXCEPT !.change = kinds] = n /\ n \in Change
      /\ Len(changes) <= Len(c) /\ \A i \in 1 .. Len(changes) : c[i] = changes[i]
      /\ \A i \in 1 .. Len(c) : i # p => i \in 1 .. Len(changes)
  <2>1. CASE idxplus1[f] = 0
    <3> DEFINE new == NewChange(f, old, "none", {})
    <3>1. c = Append(changes, new) /\ p = Len(changes) + 1 BY <2>1 DEF Construct, Place
    <3>2. new \in Change BY DEF NewChange, Change
    <3>3. [new EXCEPT !.change = kinds] = n /\ n \in Change
      BY <2>1 DEF NewChange, Change, OneChange
    <3> HIDE DEF new, n
    <3> QED BY <3>1, <3>2, <3>3 DEF ListOK
  <2>2. CASE idxplus1[f] # 0
    <3>1. c = changes /\ p = idxplus1[f] BY <2>2 DEF Construct, Place
    <3>2. p \in DOMAIN changes /\ changes[p].fd = f /\ changes[p] \in Change
      BY <2>2, <3>1 DEF ListOK, ChangesAgree
    <3>3. [changes[p] EXCEPT !.change = kinds] = n /\ n \in Change
      BY <2>2, <3>1, <3>2 DEF Change, OneChange, Old
    <3> HIDE DEF n
    <3> QED BY <3>1, <3>2, <3>3 DEF ListOK
  <2> QED BY <2>1, <2>2
<1>2. n.fd = f OBVIOUS
<1> HIDE DEF n
<1>3. changes' = [c EXCEPT ![p] = n] BY <1>1 DEF Recorded
<1>4. /\ changes' \in Seq(Change) /\ Len(changes') = Len(c) /\ changes'[p] = n
      /\ DOMAIN changes' = 1 .. Len(c)
      /\ \A i \in 1 .. Len(c) : i # p => changes'[i] = changes[i]
  BY <1>1, <1>3
<1>5. idxplus1'[f] = p /\ \A g \in Fds \ {f} : idxplus1'[g] = idxplus1[g] BY DEF ListOK, Recorded
<1>6. \A g \in Fds \ {f} : idxplus1[g] # 0 =>
        /\ idxplus1[g] \in 1 .. Len(changes) /\ idxplus1[g] # p
        /\ changes[idxplus1[g]].fd = g
  <2> SUFFICES ASSUME NEW g \in Fds \ {f}, idxplus1[g] # 0
               PROVE  /\ idxplus1[g] \in 1 .. Len(changes) /\ idxplus1[g] # p
                      /\ changes[idxplus1[g]].fd = g
    OBVIOUS
  <2>1. idxplus1[g] \in 1 .. Len(changes) /\ changes[idxplus1[g]].fd = g
    BY DEF ListOK, ChangesAgree
  <2>2. p \in 1 .. Len(changes) => changes[p].fd = f
    <3>1. CASE idxplus1[f] = 0
      <4>1. p = Len(changes) + 1 BY <3>1 DEF Place
      <4> QED BY <4>1 DEF ListOK
    <3>2. CASE idxplus1[f] # 0 BY <3>2 DEF ListOK, ChangesAgree, Place
    <3> QED BY <3>1, <3>2
  <2> QED BY <2>1, <2>2
<1>7. \A g \in Fds \ {f} : idxplus1[g] # 0 => changes'[idxplus1[g]] = changes[idxplus1[g]]
  BY <1>1, <1>4, <1>6
<1>8. idxplus1' \in [Fds -> 0 .. Len(changes')] BY <1>1, <1>4 DEF ListOK, Recorded
<1>9. ChangesAgree'
  <2>1. ASSUME NEW i \in DOMAIN changes' PROVE idxplus1'[changes'[i].fd] = i
    <3>1. CASE i = p BY <1>2, <1>4, <1>5, <3>1
    <3>2. CASE i # p
      <4>1. i \in DOMAIN changes /\ changes'[i] = changes[i] BY <1>1, <1>4, <2>1, <3>2
      <4>2. changes[i].fd \in Fds /\ idxplus1[changes[i].fd] = i
        <5>1. changes[i] \in Change BY <4>1 DEF ListOK
        <5> QED BY <4>1, <5>1 DEF ListOK, ChangesAgree, Change
      <4>3. changes[i].fd # f
        BY <3>2, <4>1, <4>2 DEF Place, ListOK
      <4> QED BY <1>5, <4>1, <4>2, <4>3
    <3> QED BY <3>1, <3>2
  <2>2. ASSUME NEW g \in Fds, idxplus1'[g] # 0
        PROVE  idxplus1'[g] \in DOMAIN changes' /\ changes'[idxplus1'[g]].fd = g
    <3>1. CASE g = f
      <4>1. idxplus1'[g] = p /\ p \in DOMAIN changes' /\ changes'[p].fd = f
        BY <1>1, <1>2, <1>4, <1>5, <3>1
      <4> QED BY <3>1, <4>1
    <3>2. CASE g # f BY <1>1, <1>4, <1>5, <1>6, <1>7, <2>2, <3>2
    <3> QED BY <3>1, <3>2
  <2> QED BY <2>1, <2>2 DEF ChangesAgree
<1>10. changes'[idxplus1'[f]] = n /\ idxplus1'[f] # 0 BY <1>1, <1>4, <1>5
<1> QED BY <1>4, <1>5, <1>7, <1>8, <1>9, <1>10 DEF ListOK, n

---------------------------------------------------------------------------
(* The counts.                                                             *)

First(e) == {k \in Kinds[e] : count[Fd[e]][k] = 0}
Last(e)  == {k \in Kinds[e] : count[Fd[e]][k] = 1}

LEMMA CountAdd ==
  ASSUME TypeOK, CountsAgree, NEW e \in Events, NEW f \in Fds, f = Fd[e],
         IsFiniteSet(events[f]), e \notin events[f], \A k \in Kinds[e] : count[f][k] < MaxCount,
         count' = Counts(f, 1, Kinds[e]), events' = [events EXCEPT ![f] = @ \cup {e}]
  PROVE  /\ events' \in [Fds -> SUBSET Events]
         /\ count' \in [Fds -> [AllKinds -> 0 .. MaxCount]]
         /\ CountsAgree' /\ IsFiniteSet(events'[f])
         /\ Interest(f)' = Interest(f) \cup First(e)
         /\ \A g \in Fds \ {f} : count'[g] = count[g] /\ events'[g] = events[g]
<1> USE EvMapAssumption
<1> DEFINE wants(g, k) == {d \in events[g] : k \in Kinds[d]}
<1>1. Kinds[e] \subseteq AllKinds OBVIOUS
<1>2. \A k \in AllKinds : /\ count'[f][k] = IF k \in Kinds[e] THEN count[f][k] + 1 ELSE count[f][k]
                          /\ count[f][k] \in 0 .. MaxCount
  BY DEF Counts, TypeOK
<1>3. events'[f] = events[f] \cup {e} BY DEF TypeOK
<1>4. \A g \in Fds \ {f} : count'[g] = count[g] /\ events'[g] = events[g] BY DEF Counts, TypeOK
<1>5. count' \in [Fds -> [AllKinds -> 0 .. MaxCount]]
  <2>1. count'[f] \in [AllKinds -> 0 .. MaxCount] BY <1>1, <1>2 DEF Counts, TypeOK
  <2> QED BY <1>4, <2>1 DEF Counts, TypeOK
<1>6. IsFiniteSet(events'[f]) BY <1>3, FS_AddElement
<1>7. ASSUME NEW k \in AllKinds
      PROVE  count'[f][k] = Cardinality({d \in events'[f] : k \in Kinds[d]})
  <2>1. IsFiniteSet(wants(f, k)) BY FS_Subset
  <2>2. count[f][k] = Cardinality(wants(f, k)) BY DEF CountsAgree
  <2>3. CASE k \in Kinds[e]
    <3>1. {d \in events'[f] : k \in Kinds[d]} = wants(f, k) \cup {e} BY <1>3, <2>3
    <3>2. Cardinality(wants(f, k) \cup {e}) = Cardinality(wants(f, k)) + 1
      BY <2>1, FS_AddElement
    <3> QED BY <1>2, <2>2, <2>3, <3>1, <3>2
  <2>4. CASE k \notin Kinds[e]
    <3>1. {d \in events'[f] : k \in Kinds[d]} = wants(f, k) BY <1>3, <2>4
    <3> QED BY <1>2, <2>2, <2>4, <3>1
  <2> QED BY <2>3, <2>4
<1>8. CountsAgree' BY <1>4, <1>7 DEF CountsAgree
<1>9. Interest(f)' = Interest(f) \cup First(e) BY <1>1, <1>2 DEF Interest, First
<1> QED BY <1>3, <1>4, <1>5, <1>6, <1>8, <1>9 DEF TypeOK

LEMMA CountDel ==
  ASSUME TypeOK, CountsAgree, NEW e \in Events, NEW f \in Fds, f = Fd[e],
         IsFiniteSet(events[f]), e \in events[f],
         count' = Counts(f, -1, Kinds[e]), events' = [events EXCEPT ![f] = @ \ {e}]
  PROVE  /\ events' \in [Fds -> SUBSET Events]
         /\ count' \in [Fds -> [AllKinds -> 0 .. MaxCount]]
         /\ CountsAgree' /\ IsFiniteSet(events'[f])
         /\ Interest(f)' = Interest(f) \ Last(e) /\ Last(e) \subseteq Interest(f)
         /\ \A g \in Fds \ {f} : count'[g] = count[g] /\ events'[g] = events[g]
<1> USE EvMapAssumption
<1> DEFINE wants(g, k) == {d \in events[g] : k \in Kinds[d]}
<1>1. Kinds[e] \subseteq AllKinds OBVIOUS
<1>2. \A k \in AllKinds : /\ count'[f][k] = IF k \in Kinds[e] THEN count[f][k] - 1 ELSE count[f][k]
                          /\ count[f][k] \in 0 .. MaxCount
  BY DEF Counts, TypeOK
<1>3. events'[f] = events[f] \ {e} BY DEF TypeOK
<1>4. \A g \in Fds \ {f} : count'[g] = count[g] /\ events'[g] = events[g] BY DEF Counts, TypeOK
<1>5. IsFiniteSet(events'[f]) BY <1>3, FS_RemoveElement
<1>6. ASSUME NEW k \in AllKinds
      PROVE  /\ count'[f][k] = Cardinality({d \in events'[f] : k \in Kinds[d]})
             /\ k \in Kinds[e] => count[f][k] > 0
  <2>1. IsFiniteSet(wants(f, k)) BY FS_Subset
  <2>2. count[f][k] = Cardinality(wants(f, k)) BY DEF CountsAgree
  <2>3. CASE k \in Kinds[e]
    <3>1. {d \in events'[f] : k \in Kinds[d]} = wants(f, k) \ {e} BY <1>3, <2>3
    <3>2. e \in wants(f, k) BY <2>3
    <3>3. Cardinality(wants(f, k) \ {e}) = Cardinality(wants(f, k)) - 1
      BY <2>1, <3>2, FS_RemoveElement
    <3>4. Cardinality(wants(f, k) \ {e}) \in Nat
      BY <2>1, FS_RemoveElement, FS_CardinalityType
    <3>5. Cardinality({d \in events'[f] : k \in Kinds[d]}) = count[f][k] - 1
      BY <2>2, <3>1, <3>3
    <3>6. count[f][k] \in Nat /\ count[f][k] - 1 \in Nat
      BY <1>2, <2>2, <3>3, <3>4
    <3> QED BY <1>2, <2>3, <3>5, <3>6
  <2>4. CASE k \notin Kinds[e]
    <3>1. {d \in events'[f] : k \in Kinds[d]} = wants(f, k) BY <1>3, <2>4
    <3> QED BY <1>2, <2>2, <2>4, <3>1
  <2> QED BY <2>3, <2>4
<1>7. count' \in [Fds -> [AllKinds -> 0 .. MaxCount]]
  <2>1. count'[f] \in [AllKinds -> 0 .. MaxCount]
    <3>1. \A k \in AllKinds : count'[f][k] \in 0 .. MaxCount
      <4>1. \A k \in AllKinds : k \in Kinds[e] => count[f][k] > 0 BY <1>6
      <4> QED BY <1>2, <4>1
    <3>2. count'[f] = [k \in AllKinds |-> count'[f][k]] BY DEF Counts, TypeOK
    <3> QED BY <3>1, <3>2
  <2> QED BY <1>4, <2>1 DEF Counts, TypeOK
<1>8. CountsAgree'
  <2>1. \A g \in Fds \ {f}, k \in AllKinds :
          count'[g][k] = Cardinality({d \in events'[g] : k \in Kinds[d]})
    BY <1>4 DEF CountsAgree
  <2>2. \A k \in AllKinds : count'[f][k] = Cardinality({d \in events'[f] : k \in Kinds[d]})
    BY <1>6
  <2> QED BY <2>1, <2>2 DEF CountsAgree
<1>9. Interest(f)' = Interest(f) \ Last(e) /\ Last(e) \subseteq Interest(f)
  BY <1>1, <1>2, <1>6 DEF Interest, Last
<1> QED BY <1>3, <1>4, <1>5, <1>7, <1>8, <1>9 DEF TypeOK

---------------------------------------------------------------------------
(* The descriptors a step does not touch, and the one it does.             *)

Same(g) ==
  /\ count'[g] = count[g] /\ file'[g] = file[g] /\ kernel'[g] = kernel[g]
  /\ idxplus1'[g] = idxplus1[g]
  /\ idxplus1[g] # 0 => changes'[idxplus1[g]] = changes[idxplus1[g]]

LEMMA SameWatches ==
  ASSUME NEW g, Same(g), Watches(g)
  PROVE  Watches(g)'
BY DEF Same, Watches, Settled, Waiting, Interest, IsOpen, Old, Adds, Dels, With

\* The step touches one descriptor at most, and what it needs is there.
LEMMA OneTouched ==
  ASSUME MapInv, NEW f \in Fds, \A g \in Fds \ {f} : Same(g), Watches(f)',
         changelist' = changelist, ListOK',
         events' \in [Fds -> SUBSET Events], count' \in [Fds -> [AllKinds -> 0 .. MaxCount]],
         kernel' \in [Fds -> SUBSET AllKinds],
         file' \in [Fds -> {"closed", "kept", "open", "dup"}],
         CountsAgree', \A g \in Fds : IsFiniteSet(events'[g]),
         ~changelist => idxplus1'[f] = 0
  PROVE  MapInv'
<1>1. \A g \in Fds : Watches(g)' BY SameWatches DEF MapInv
<1>2. Len(changes') <= Cardinality(Fds)
  <2>1. changes' \in Seq(Change) /\ \A i \in DOMAIN changes' : idxplus1'[changes'[i].fd] = i
    BY DEF ListOK, ChangesAgree
  <2> QED BY <2>1, ListFits
<1>3. TypeOK' BY <1>2 DEF TypeOK, ListOK, MapInv
<1>4. ~changelist' => \A g \in Fds : idxplus1'[g] = 0 BY DEF MapInv, Same
<1> QED BY <1>1, <1>3, <1>4 DEF MapInv, ListOK

---------------------------------------------------------------------------
(* The steps.                                                              *)

\* An add and a delete that the backend does not hear of.
LEMMA Silent ==
  ASSUME MapInv, NEW f \in Fds, Interest(f)' = Interest(f),
         UNCHANGED <<changes, idxplus1, kernel, file>>
  PROVE  Watches(f)'
BY DEF MapInv, Watches, Settled, Waiting, IsOpen, Old, Adds, Dels, With

\* The change that will be changed: the one in the list, or a new one, promises
\* what Waiting says.
Promise(ch, f) ==
  /\ Interest(f) = (ch.old \ With(ch, "del")) \cup With(ch, "add")
  /\ With(ch, "del") \subseteq ch.old
  /\ IsOpen(f) => ch.old \ (With(ch, "add") \cup With(ch, "del")) \subseteq kernel[f]
  /\ file[f] = "open" =>
       \/ kernel[f] = ch.old
       \/ kernel[f] = NoItem /\ ch.old \subseteq With(ch, "add") \cup With(ch, "del")

LEMMA Before ==
  ASSUME MapInv, NEW f \in Fds,
         NEW c, c = Construct(changes, idxplus1, f, Interest(f)),
         NEW p, p = Place(changes, idxplus1, f)
  PROVE  /\ Promise(c[p], f) /\ c[p].change \in OneChange
         /\ c[p].old = IF idxplus1[f] = 0 THEN Interest(f) ELSE Old(f)
<1>1. CASE idxplus1[f] = 0
  <2> DEFINE new == NewChange(f, Interest(f), "none", {})
  <2>1. /\ new.old = Interest(f) /\ new.change \in OneChange
        /\ With(new, "add") = {} /\ With(new, "del") = {}
    BY DEF NewChange, With, OneChange
  <2> HIDE DEF new
  <2>2. c[p] = new
    <3>1. c = Append(changes, new) /\ p = Len(changes) + 1 BY <1>1 DEF Construct, Place, new
    <3>2. changes \in Seq(Change) BY DEF MapInv, TypeOK
    <3>3. new \in Change BY DEF new, NewChange, Change, Interest
    <3> QED BY <3>1, <3>2, <3>3
  <2>3. Settled(f) BY <1>1 DEF MapInv, Watches
  <2>4. /\ Interest(f) = (new.old \ With(new, "del")) \cup With(new, "add")
        /\ With(new, "del") \subseteq new.old
        /\ new.old \ (With(new, "add") \cup With(new, "del")) = Interest(f)
    BY <2>1
  <2>5. Promise(new, f) BY <2>1, <2>3, <2>4 DEF Promise, Settled, IsOpen
  <2> QED BY <1>1, <2>1, <2>2, <2>5
<1>2. CASE idxplus1[f] # 0
  <2>1. c[p] = changes[idxplus1[f]] BY <1>2 DEF Construct, Place
  <2>2. Waiting(f) BY <1>2 DEF MapInv, Watches
  <2>3. changes[idxplus1[f]] \in Change
    BY <1>2 DEF MapInv, TypeOK, ChangesAgree
  <2>4. Promise(c[p], f) BY <2>1, <2>2 DEF Promise, Waiting, Old, Adds, Dels
  <2> QED BY <1>2, <2>1, <2>3, <2>4 DEF Change, OneChange, Old
<1> QED BY <1>1, <1>2

\* Added to the list.
LEMMA SavedAdd ==
  ASSUME MapInv, NEW f \in Fds, NEW new \in SUBSET AllKinds,
         Interest(f)' = Interest(f) \cup new,
         Saved(ChangelistAdd(changes, idxplus1, f, Interest(f), new), f),
         UNCHANGED file
  PROVE  /\ ListOK' /\ Watches(f)'
         /\ \A g \in Fds \ {f} : /\ idxplus1'[g] = idxplus1[g]
                                 /\ idxplus1[g] # 0 => changes'[idxplus1[g]] = changes[idxplus1[g]]
<1> DEFINE c == Construct(changes, idxplus1, f, Interest(f))
           p == Place(changes, idxplus1, f)
           ch == c[p]
           kinds == [k \in AllKinds |-> IF k \in new THEN "add" ELSE ch.change[k]]
           next == [fd |-> f, old |-> ch.old, change |-> kinds]
<1>1. Promise(ch, f) /\ ch.change \in OneChange
      /\ ch.old = IF idxplus1[f] = 0 THEN Interest(f) ELSE Old(f)
  BY Before
<1>2. kinds \in OneChange BY <1>1 DEF OneChange
<1>3. Recorded(f, c, p, kinds)
  <2>1. [c EXCEPT ![p].change = kinds] = ChangelistAdd(changes, idxplus1, f, Interest(f), new)
    BY DEF ChangelistAdd
  <2> QED BY <2>1 DEF Saved, Recorded
<1>4. ListOK BY DEF MapInv, TypeOK, ListOK
<1>5. Interest(f) \in SUBSET AllKinds BY DEF Interest
<1>0. c = Construct(changes, idxplus1, f, Interest(f)) /\ p = Place(changes, idxplus1, f)
  OBVIOUS
<1> HIDE DEF c, p, kinds
<1>6. /\ ListOK' /\ idxplus1'[f] # 0 /\ changes'[idxplus1'[f]] = next
      /\ \A g \in Fds \ {f} : /\ idxplus1'[g] = idxplus1[g]
                              /\ idxplus1[g] # 0 => changes'[idxplus1[g]] = changes[idxplus1[g]]
  <2>1. /\ ListOK' /\ idxplus1'[f] # 0
        /\ changes'[idxplus1'[f]] =
             [fd |-> f, old |-> IF idxplus1[f] = 0 THEN Interest(f) ELSE Old(f),
              change |-> kinds]
        /\ \A g \in Fds \ {f} :
             /\ idxplus1'[g] = idxplus1[g]
             /\ idxplus1[g] # 0 => changes'[idxplus1[g]] = changes[idxplus1[g]]
    BY <1>0, <1>2, <1>3, <1>4, <1>5, SaveChange
  <2> QED BY <1>1, <2>1
<1>7. /\ With(next, "add") = With(ch, "add") \cup new
      /\ With(next, "del") = With(ch, "del") \ new
  BY DEF With, kinds
<1>8. kernel'[f] = kernel[f] /\ file'[f] = file[f] BY DEF Saved
<1> HIDE DEF ch
<1>9. /\ Old(f)' = ch.old
      /\ Adds(f)' = With(next, "add") /\ Dels(f)' = With(next, "del")
  BY <1>6 DEF Old, Adds, Dels, With
<1> HIDE DEF next
<1>10. Waiting(f)' BY <1>1, <1>7, <1>8, <1>9 DEF Waiting, Promise, IsOpen
<1> QED BY <1>6, <1>10 DEF Watches

\* Deleted, in the list.
LEMMA SavedDel ==
  ASSUME MapInv, NEW f \in Fds, NEW gone \in SUBSET AllKinds,
         Interest(f)' = Interest(f) \ gone,
         Saved(ChangelistDel(changes, idxplus1, f, Interest(f), gone), f),
         UNCHANGED file
  PROVE  /\ ListOK' /\ Watches(f)'
         /\ \A g \in Fds \ {f} : /\ idxplus1'[g] = idxplus1[g]
                                 /\ idxplus1[g] # 0 => changes'[idxplus1[g]] = changes[idxplus1[g]]
<1> DEFINE c == Construct(changes, idxplus1, f, Interest(f))
           p == Place(changes, idxplus1, f)
           ch == c[p]
           kinds == [k \in AllKinds |-> IF k \notin gone THEN ch.change[k]
                                        ELSE IF k \in ch.old THEN "del" ELSE "none"]
           next == [fd |-> f, old |-> ch.old, change |-> kinds]
<1>1. Promise(ch, f) /\ ch.change \in OneChange
      /\ ch.old = IF idxplus1[f] = 0 THEN Interest(f) ELSE Old(f)
  BY Before
<1>2. kinds \in OneChange BY <1>1 DEF OneChange
<1>3. Recorded(f, c, p, kinds)
  <2>1. [c EXCEPT ![p].change = kinds] = ChangelistDel(changes, idxplus1, f, Interest(f), gone)
    BY DEF ChangelistDel
  <2> QED BY <2>1 DEF Saved, Recorded
<1>4. ListOK BY DEF MapInv, TypeOK, ListOK
<1>5. Interest(f) \in SUBSET AllKinds BY DEF Interest
<1>0. c = Construct(changes, idxplus1, f, Interest(f)) /\ p = Place(changes, idxplus1, f)
  OBVIOUS
<1> HIDE DEF c, p, kinds
<1>6. /\ ListOK' /\ idxplus1'[f] # 0 /\ changes'[idxplus1'[f]] = next
      /\ \A g \in Fds \ {f} : /\ idxplus1'[g] = idxplus1[g]
                              /\ idxplus1[g] # 0 => changes'[idxplus1[g]] = changes[idxplus1[g]]
  <2>1. /\ ListOK' /\ idxplus1'[f] # 0
        /\ changes'[idxplus1'[f]] =
             [fd |-> f, old |-> IF idxplus1[f] = 0 THEN Interest(f) ELSE Old(f),
              change |-> kinds]
        /\ \A g \in Fds \ {f} :
             /\ idxplus1'[g] = idxplus1[g]
             /\ idxplus1[g] # 0 => changes'[idxplus1[g]] = changes[idxplus1[g]]
    BY <1>0, <1>2, <1>3, <1>4, <1>5, SaveChange
  <2> QED BY <1>1, <2>1
<1>7. /\ With(next, "add") = With(ch, "add") \ gone
      /\ With(next, "del") = (With(ch, "del") \ gone) \cup (gone \cap ch.old)
  BY DEF With, kinds
<1>8. kernel'[f] = kernel[f] /\ file'[f] = file[f] BY DEF Saved
<1> HIDE DEF ch
<1>9. /\ Old(f)' = ch.old
      /\ Adds(f)' = With(next, "add") /\ Dels(f)' = With(next, "del")
  BY <1>6 DEF Old, Adds, Dels, With
<1> HIDE DEF next
<1>10. Waiting(f)' BY <1>1, <1>7, <1>8, <1>9 DEF Waiting, Promise, IsOpen
<1> QED BY <1>6, <1>10 DEF Watches

\* Without the list the kernel hears of a change at once.
LEMMA DirectChange ==
  ASSUME MapInv, NEW f \in Fds, NEW what \in {"add", "del"},
         NEW kinds \in SUBSET AllKinds, kinds # {}, NEW answer \in Answers,
         NEW r, r = Apply(kernel[f], NewChange(f, Interest(f), what, kinds), answer),
         Direct(f, r)
  PROVE  /\ kernel' \in [Fds -> SUBSET AllKinds] /\ \A g \in Fds \ {f} : kernel'[g] = kernel[g]
         /\ IsOpen(f) => /\ r.ok => kernel'[f] = IF what = "add" THEN Interest(f) \cup kinds
                                                 ELSE Interest(f) \ kinds
                         /\ ~r.ok => answer = "ENOMEM" /\ kernel'[f] = kernel[f]
<1> DEFINE ch == NewChange(f, Interest(f), what, kinds)
           want == (Interest(f) \ With(ch, "del")) \cup With(ch, "add")
<1>1. /\ ch.fd = f /\ ch.old = Interest(f) /\ With(ch, what) = kinds
      /\ \A other \in {"add", "del"} : other # what => With(ch, other) = {}
  BY NewChangeKinds
<1>2. kernel \in [Fds -> SUBSET AllKinds] /\ Interest(f) \in SUBSET AllKinds
  BY DEF MapInv, TypeOK, Interest
<1>3. kernel' = [kernel EXCEPT ![f] = r.item] BY DEF Direct
<1>4. want = IF what = "add" THEN Interest(f) \cup kinds ELSE Interest(f) \ kinds BY <1>1
<1>5. CASE IsOpen(f)
  <2>1. With(ch, "add") # {} \/ With(ch, "del") # {} BY <1>1
  <2> HIDE DEF ch, want
  <2>2. /\ r.ok => r.item = want
        /\ ~r.ok => answer = "ENOMEM" /\ r.item = NoItem /\ kernel[f] = NoItem
    <3>1. r = Apply(kernel[f], ch, answer) BY DEF ch
    <3> QED BY <1>1, <1>5, <2>1, <3>1, ApplyOpen DEF want
  <2>3. r.item \in SUBSET AllKinds
    <3>1. r.ok => r.item \in SUBSET AllKinds BY <1>2, <1>4, <2>2
    <3>2. ~r.ok => r.item = {} BY <2>2 DEF NoItem
    <3> QED BY <3>1, <3>2
  <2> QED BY <1>2, <1>3, <1>4, <2>2, <2>3
<1>6. CASE ~IsOpen(f)
  <2>1. r.item = kernel[f]
    <3> HIDE DEF ch
    <3>1. r = Apply(kernel[f], ch, answer) BY DEF ch
    <3> QED BY <1>1, <1>6, <3>1, ApplyClosed
  <2> QED BY <1>2, <1>3, <1>6, <2>1
<1> QED BY <1>5, <1>6

LEMMA AddStep ==
  ASSUME MapInv, NEW e \in Events, NEW answer \in Answers, EvmapIoAdd(e, answer)
  PROVE  MapInv'
<1> DEFINE f == Fd[e]
           added == /\ count' = Counts(f, 1, Kinds[e])
                    /\ events' = [events EXCEPT ![f] = @ \cup {e}]
<1>1. /\ f \in Fds /\ First(e) \in SUBSET AllKinds
      /\ TypeOK /\ CountsAgree /\ IsFiniteSet(events[f]) /\ ListOK
  BY EvMapAssumption DEF MapInv, First, ListOK, TypeOK
<1>2. /\ e \notin events[f] /\ \A k \in Kinds[e] : count[f][k] < MaxCount
      /\ UNCHANGED <<changelist, file>>
  BY DEF EvmapIoAdd
<1>3. added => /\ events' \in [Fds -> SUBSET Events]
               /\ count' \in [Fds -> [AllKinds -> 0 .. MaxCount]]
               /\ CountsAgree' /\ \A g \in Fds : IsFiniteSet(events'[g])
               /\ Interest(f)' = Interest(f) \cup First(e)
               /\ \A g \in Fds \ {f} : count'[g] = count[g]
  <2> HIDE DEF f
  <2>1. f = Fd[e] BY DEF f
  <2> QED BY <1>1, <1>2, <2>1, CountAdd DEF MapInv
<1>4. file' \in [Fds -> {"closed", "kept", "open", "dup"}] /\ kernel \in [Fds -> SUBSET AllKinds]
  BY <1>2 DEF MapInv, TypeOK
<1>5. CASE First(e) = {}
  <2>1. added /\ UNCHANGED <<changes, idxplus1, kernel>> BY <1>5 DEF EvmapIoAdd, First
  <2> HIDE DEF f, added
  <2>2. Watches(f)' BY <1>1, <1>2, <1>3, <1>5, <2>1, Silent
  <2>3. ListOK' BY <1>1, <2>1 DEF ListOK, ChangesAgree
  <2>4. \A g \in Fds \ {f} : Same(g) BY <1>2, <1>3, <2>1 DEF Same
  <2>5. ~changelist => idxplus1'[f] = 0 BY <1>1, <2>1 DEF MapInv
  <2> QED BY <1>1, <1>2, <1>3, <1>4, <2>1, <2>2, <2>3, <2>4, <2>5, OneTouched
<1>6. CASE First(e) # {} /\ changelist
  <2>1. added /\ Saved(ChangelistAdd(changes, idxplus1, f, Interest(f), First(e)), f)
    BY <1>6 DEF EvmapIoAdd, First
  <2> HIDE DEF f, added
  <2>2. /\ ListOK' /\ Watches(f)'
        /\ \A g \in Fds \ {f} : /\ idxplus1'[g] = idxplus1[g]
                                /\ idxplus1[g] # 0 => changes'[idxplus1[g]] = changes[idxplus1[g]]
    BY <1>1, <1>2, <1>3, <2>1, SavedAdd
  <2>3. kernel' = kernel BY <2>1 DEF Saved
  <2>4. \A g \in Fds \ {f} : Same(g) BY <1>2, <1>3, <2>1, <2>2, <2>3 DEF Same
  <2> QED BY <1>1, <1>2, <1>3, <1>4, <1>6, <2>1, <2>2, <2>3, <2>4, OneTouched
<1>7. CASE First(e) # {} /\ ~changelist
  <2> DEFINE r == Apply(kernel[f], NewChange(f, Interest(f), "add", First(e)), answer)
  <2>1. Direct(f, r) /\ IF r.ok THEN added ELSE UNCHANGED <<count, events>>
    BY <1>7 DEF EvmapIoAdd, First
  <2>2. UNCHANGED <<changes, idxplus1>> /\ idxplus1[f] = 0 BY <1>1, <1>7, <2>1 DEF Direct, MapInv
  <2>3. /\ kernel' \in [Fds -> SUBSET AllKinds] /\ \A g \in Fds \ {f} : kernel'[g] = kernel[g]
        /\ IsOpen(f) => /\ r.ok => kernel'[f] = Interest(f) \cup First(e)
                        /\ ~r.ok => answer = "ENOMEM" /\ kernel'[f] = kernel[f]
    BY <1>1, <1>7, <2>1, DirectChange
  <2> HIDE DEF f, added, r
  <2>4. ListOK' BY <1>1, <2>2 DEF ListOK, ChangesAgree
  <2>5. CASE r.ok
    <3>1. Watches(f)' BY <1>2, <1>3, <2>1, <2>2, <2>3, <2>5 DEF Watches, Settled, IsOpen
    <3>2. \A g \in Fds \ {f} : Same(g) BY <1>2, <1>3, <2>1, <2>2, <2>3, <2>5 DEF Same
    <3> QED BY <1>1, <1>2, <1>3, <1>4, <2>1, <2>2, <2>3, <2>4, <2>5, <3>1, <3>2, OneTouched
  <2>6. CASE ~r.ok
    <3>1. UNCHANGED <<count, events>> BY <2>1, <2>6
    <3>2. Watches(f)'
      <4>1. Watches(f) BY <1>1 DEF MapInv
      <4> QED BY <1>2, <2>2, <2>3, <2>6, <3>1, <4>1 DEF Watches, Settled, IsOpen, Interest
    <3>3. \A g \in Fds \ {f} : Same(g) BY <1>2, <2>2, <2>3, <3>1 DEF Same
    <3>4. /\ events' \in [Fds -> SUBSET Events] /\ count' \in [Fds -> [AllKinds -> 0 .. MaxCount]]
          /\ CountsAgree' /\ \A g \in Fds : IsFiniteSet(events'[g])
      BY <3>1 DEF MapInv, TypeOK, CountsAgree
    <3> QED BY <1>1, <1>2, <1>4, <2>2, <2>3, <2>4, <3>2, <3>3, <3>4, OneTouched
  <2> QED BY <2>5, <2>6
<1> QED BY <1>5, <1>6, <1>7

LEMMA DelStep ==
  ASSUME MapInv, NEW e \in Events, EvmapIoDel(e)
  PROVE  MapInv'
<1> DEFINE f == Fd[e]
<1>1. /\ f \in Fds /\ Last(e) \in SUBSET AllKinds
      /\ TypeOK /\ CountsAgree /\ IsFiniteSet(events[f]) /\ ListOK
  BY EvMapAssumption DEF MapInv, Last, ListOK, TypeOK
<1>2. /\ e \in events[f] /\ count' = Counts(f, -1, Kinds[e])
      /\ events' = [events EXCEPT ![f] = @ \ {e}]
      /\ UNCHANGED <<changelist, file>>
  BY DEF EvmapIoDel
<1>3. /\ events' \in [Fds -> SUBSET Events]
      /\ count' \in [Fds -> [AllKinds -> 0 .. MaxCount]]
      /\ CountsAgree' /\ \A g \in Fds : IsFiniteSet(events'[g])
      /\ Interest(f)' = Interest(f) \ Last(e)
      /\ \A g \in Fds \ {f} : count'[g] = count[g]
  <2> HIDE DEF f
  <2>1. f = Fd[e] BY DEF f
  <2> QED BY <1>1, <1>2, <2>1, CountDel DEF MapInv
<1>4. file' \in [Fds -> {"closed", "kept", "open", "dup"}] /\ kernel \in [Fds -> SUBSET AllKinds]
  BY <1>2 DEF MapInv, TypeOK
<1>5. CASE Last(e) = {}
  <2>1. UNCHANGED <<changes, idxplus1, kernel>> BY <1>5 DEF EvmapIoDel, Last
  <2> HIDE DEF f
  <2>2. Watches(f)' BY <1>1, <1>2, <1>3, <1>5, <2>1, Silent
  <2>3. ListOK' BY <1>1, <2>1 DEF ListOK, ChangesAgree
  <2>4. \A g \in Fds \ {f} : Same(g) BY <1>2, <1>3, <2>1 DEF Same
  <2>5. ~changelist => idxplus1'[f] = 0 BY <1>1, <2>1 DEF MapInv
  <2> QED BY <1>1, <1>2, <1>3, <1>4, <2>1, <2>2, <2>3, <2>4, <2>5, OneTouched
<1>6. CASE Last(e) # {} /\ changelist
  <2>1. Saved(ChangelistDel(changes, idxplus1, f, Interest(f), Last(e)), f)
    BY <1>6 DEF EvmapIoDel, Last
  <2> HIDE DEF f
  <2>2. /\ ListOK' /\ Watches(f)'
        /\ \A g \in Fds \ {f} : /\ idxplus1'[g] = idxplus1[g]
                                /\ idxplus1[g] # 0 => changes'[idxplus1[g]] = changes[idxplus1[g]]
    BY <1>1, <1>2, <1>3, <2>1, SavedDel
  <2>3. kernel' = kernel BY <2>1 DEF Saved
  <2>4. \A g \in Fds \ {f} : Same(g) BY <1>2, <1>3, <2>2, <2>3 DEF Same
  <2> QED BY <1>1, <1>2, <1>3, <1>4, <1>6, <2>2, <2>3, <2>4, OneTouched
<1>7. CASE Last(e) # {} /\ ~changelist
  <2> DEFINE r == Apply(kernel[f], NewChange(f, Interest(f), "del", Last(e)), "none")
  <2>1. Direct(f, r) BY <1>7 DEF EvmapIoDel, Last
  <2>2. UNCHANGED <<changes, idxplus1>> /\ idxplus1[f] = 0 BY <1>1, <1>7, <2>1 DEF Direct, MapInv
  <2>3. /\ kernel' \in [Fds -> SUBSET AllKinds] /\ \A g \in Fds \ {f} : kernel'[g] = kernel[g]
        /\ IsOpen(f) => kernel'[f] = Interest(f) \ Last(e)
    BY <1>1, <1>7, <2>1, DirectChange DEF Answers
  <2> HIDE DEF f, r
  <2>4. ListOK' BY <1>1, <2>2 DEF ListOK, ChangesAgree
  <2>5. Watches(f)' BY <1>2, <1>3, <2>2, <2>3 DEF Watches, Settled, IsOpen
  <2>6. \A g \in Fds \ {f} : Same(g) BY <1>2, <1>3, <2>2, <2>3 DEF Same
  <2> QED BY <1>1, <1>2, <1>3, <1>4, <2>2, <2>3, <2>4, <2>5, <2>6, OneTouched
<1> QED BY <1>5, <1>6, <1>7

\* What every step needs that leaves the map alone.
LEMMA MapKept ==
  ASSUME MapInv, UNCHANGED <<changelist, events, count>>, TypeOK', ChangesAgree',
         ~changelist => \A f \in Fds : idxplus1'[f] = 0, \A f \in Fds : Watches(f)'
  PROVE  MapInv'
BY DEF MapInv, CountsAgree

\* epoll_apply_changes gives every descriptor with a change what it wants.
LEMMA DispatchStep ==
  ASSUME MapInv, EpollDispatch
  PROVE  MapInv'
<1> USE DEF EpollDispatch
<1>1. ListOK /\ kernel \in [Fds -> SUBSET AllKinds] BY DEF MapInv, TypeOK, ListOK
<1>2. changes' = << >> /\ kernel' = EpollApplyChanges BY DEF EpollDispatch
<1>3. \A f \in Fds : idxplus1'[f] = 0
  <2>1. \A f \in Fds : idxplus1[f] # 0 => Changed(f) # {}
    BY <1>1 DEF Changed, ListOK, ChangesAgree
  <2> QED BY <2>1
<1>4. ASSUME NEW f \in Fds PROVE Settled(f)' /\ kernel'[f] \in SUBSET AllKinds
  <2>1. UNCHANGED <<count, file>> OBVIOUS
  <2>2. CASE Changed(f) = {}
    <3>1. kernel'[f] = kernel[f] BY <2>2 DEF EpollApplyChanges
    <3>2. idxplus1[f] = 0 BY <1>1, <2>2 DEF Changed, ListOK, ChangesAgree
    <3>3. Settled(f) BY <3>2 DEF MapInv, Watches
    <3> QED BY <1>1, <2>1, <3>1, <3>3 DEF Settled, Interest, IsOpen
  <2>3. CASE Changed(f) # {}
    <3> DEFINE i == CHOOSE j \in Changed(f) : TRUE
               r == Apply(kernel[f], changes[i], "none")
    <3>1. i \in DOMAIN changes /\ changes[i].fd = f BY <2>3 DEF Changed
    <3>2. idxplus1[f] = i /\ i # 0 /\ changes[i] \in Change
      <4> HIDE DEF i
      <4>1. changes \in Seq(Change) BY <1>1 DEF ListOK
      <4> QED BY <3>1, <4>1, <1>1 DEF ListOK, ChangesAgree
    <3>3. kernel'[f] = r.item BY <2>3 DEF EpollApplyChanges
    <3>4. Waiting(f) BY <3>2 DEF MapInv, Watches
    <3> HIDE DEF i
    <3> DEFINE ch == changes[i]
    <3>5. Old(f) = ch.old /\ Adds(f) = With(ch, "add") /\ Dels(f) = With(ch, "del")
      BY <3>2 DEF Old, Adds, Dels
    <3>6. Interest(f)' = Interest(f) /\ Interest(f) \in SUBSET AllKinds BY <2>1 DEF Interest
    <3>7. CASE ~IsOpen(f)
      <4>1. r.item = kernel[f] BY <3>1, <3>7, ApplyClosed
      <4> QED BY <1>1, <2>1, <3>3, <3>7, <4>1 DEF Settled, IsOpen
    <3>8. CASE IsOpen(f) /\ (Adds(f) # {} \/ Dels(f) # {})
      <4>1. r.item = (ch.old \ With(ch, "del")) \cup With(ch, "add")
        <5> HIDE DEF ch
        <5>1. r = Apply(kernel[f], ch, "none") BY DEF ch
        <5> HIDE DEF r
        <5>2. IsOpen(ch.fd) /\ (With(ch, "add") # {} \/ With(ch, "del") # {})
          BY <3>1, <3>5, <3>8 DEF ch
        <5> QED BY <5>1, <5>2, ApplyOpen DEF Answers
      <4>2. r.item = Interest(f) BY <3>4, <3>5, <4>1 DEF Waiting
      <4> QED BY <3>3, <3>6, <4>2 DEF Settled
    <3>9. CASE IsOpen(f) /\ Adds(f) = {} /\ Dels(f) = {}
      <4>1. r.item = kernel[f] BY <3>5, <3>9, ApplyNone
      <4>2. Interest(f) = Old(f) BY <3>4, <3>9 DEF Waiting
      <4>3. Old(f) \subseteq kernel[f] /\ (file[f] = "open" => kernel[f] = Old(f))
        BY <3>4, <3>9 DEF Waiting, NoItem
      <4> QED BY <1>1, <2>1, <3>3, <3>6, <4>1, <4>2, <4>3 DEF Settled
    <3> QED BY <3>7, <3>8, <3>9
  <2> QED BY <2>2, <2>3
<1>5. kernel' \in [Fds -> SUBSET AllKinds]
  <2>1. kernel' = [f \in Fds |-> kernel'[f]] BY <1>2 DEF EpollApplyChanges
  <2> QED BY <1>4, <2>1
<1>6. idxplus1' = [f \in Fds |-> 0]
  <2>1. idxplus1' = [f \in Fds |-> idxplus1'[f]] OBVIOUS
  <2> QED BY <1>3, <2>1
<1>7. TypeOK'
  <2>1. Len(changes') = 0 /\ changes' \in Seq(Change) BY <1>2
  <2>2. Cardinality(Fds) \in Nat BY EvMapAssumption, FS_CardinalityType
  <2> QED BY <1>5, <1>6, <2>1, <2>2 DEF MapInv, TypeOK
<1>8. ChangesAgree' BY <1>2, <1>6 DEF ChangesAgree
<1>9. \A f \in Fds : Watches(f)' BY <1>3, <1>4 DEF Watches
<1> QED BY <1>3, <1>7, <1>8, <1>9, MapKept

LEMMA ReinitStep ==
  ASSUME MapInv, EventReinit
  PROVE  MapInv'
<1> DEFINE n == Cardinality(Fds)
<1>0. /\ UNCHANGED <<changelist, events, count, file>>
      /\ TypeOK /\ n \in Nat /\ \A f \in Fds : Interest(f) \in SUBSET AllKinds
  BY EvMapAssumption, FS_CardinalityType DEF EventReinit, MapInv, Interest
<1> HIDE DEF n
<1>1. CASE changelist
  <2> DEFINE of(i) == CHOOSE g \in Fds : idxplus1'[g] = i
  <2>1. /\ kernel' = [f \in Fds |-> NoItem]
        /\ idxplus1' \in Bijection(Fds, 1 .. n)
        /\ changes' = [i \in 1 .. n |-> NewChange(of(i), {}, "add", Interest(of(i)))]
    BY <1>1 DEF EventReinit, n
  <2>2. /\ idxplus1' \in [Fds -> 1 .. n]
        /\ \A f, g \in Fds : idxplus1'[f] = idxplus1'[g] => f = g
        /\ \A i \in 1 .. n : \E f \in Fds : idxplus1'[f] = i
    BY <2>1 DEF Bijection, Injection, Surjection, IsInjective
  <2>3. \A i \in 1 .. n : of(i) \in Fds /\ idxplus1'[of(i)] = i BY <2>2
  <2>4. \A f \in Fds : of(idxplus1'[f]) = f BY <2>2, <2>3
  <2> HIDE DEF of
  <2>5. \A f \in Fds : NewChange(f, {}, "add", Interest(f)) \in Change
    BY DEF NewChange, Change
  <2>6. changes' \in Seq(Change) /\ Len(changes') = n BY <1>0, <2>1, <2>3, <2>5
  <2>7. ASSUME NEW f \in Fds
        PROVE  /\ idxplus1'[f] \in 1 .. n
               /\ changes'[idxplus1'[f]] = NewChange(f, {}, "add", Interest(f))
    BY <2>1, <2>2, <2>4
  <2>8. \A f, k : NewChange(f, {}, "add", k).fd = f BY DEF NewChange
  <2>9. ChangesAgree'
    BY <2>1, <2>3, <2>6, <2>7, <2>8 DEF ChangesAgree
  <2>10. TypeOK'
    <3>1. kernel' \in [Fds -> SUBSET AllKinds] BY <2>1 DEF NoItem
    <3>2. idxplus1' \in [Fds -> 0 .. Len(changes')] BY <1>0, <2>2, <2>6
    <3>3. Len(changes') <= Cardinality(Fds) BY <1>0, <2>6 DEF n
    <3> QED BY <1>0, <2>6, <3>1, <3>2, <3>3 DEF TypeOK
  <2>11. ASSUME NEW f \in Fds PROVE Watches(f)'
    <3> DEFINE ch == NewChange(f, {}, "add", Interest(f))
    <3>1. ch.old = {} /\ With(ch, "add") = Interest(f) /\ With(ch, "del") = {}
      BY <1>0, NewChangeKinds
    <3>2. changes'[idxplus1'[f]] = ch BY <2>7
    <3> HIDE DEF ch
    <3>3. Old(f)' = {} /\ Adds(f)' = Interest(f) /\ Dels(f)' = {}
      BY <3>1, <3>2 DEF Old, Adds, Dels, With
    <3>4. Interest(f)' = Interest(f) /\ kernel'[f] = {} BY <1>0, <2>1 DEF Interest, NoItem
    <3>5. idxplus1'[f] # 0 BY <1>0, <2>7
    <3> QED BY <3>3, <3>4, <3>5 DEF Watches, Waiting
  <2> QED BY <1>0, <1>1, <2>9, <2>10, <2>11, MapKept
<1>2. CASE ~changelist
  <2> DEFINE r(f) == Apply(NoItem, NewChange(f, {}, "add", Interest(f)), "none")
  <2>1. kernel' = [f \in Fds |-> r(f).item] /\ UNCHANGED <<changes, idxplus1>>
    BY <1>2 DEF EventReinit
  <2>2. ASSUME NEW f \in Fds
        PROVE  r(f).item \in SUBSET AllKinds /\ (IsOpen(f) => r(f).item = Interest(f))
    <3> DEFINE ch == NewChange(f, {}, "add", Interest(f))
    <3>1. ch.fd = f /\ ch.old = {} /\ With(ch, "add") = Interest(f) /\ With(ch, "del") = {}
      BY <1>0, NewChangeKinds
    <3>2. r(f) = Apply(NoItem, ch, "none") OBVIOUS
    <3> HIDE DEF ch, r
    <3>3. CASE ~IsOpen(f) BY <3>1, <3>2, <3>3, ApplyClosed DEF NoItem
    <3>4. CASE Interest(f) = {} BY <3>1, <3>2, <3>4, ApplyNone DEF NoItem
    <3>5. CASE IsOpen(f) /\ Interest(f) # {}
      <4>1. r(f).item = (ch.old \ With(ch, "del")) \cup With(ch, "add")
        BY <3>1, <3>2, <3>5, ApplyOpen DEF Answers
      <4>2. r(f).item = Interest(f) BY <3>1, <4>1
      <4> QED BY <1>0, <4>2
    <3> QED BY <3>3, <3>4, <3>5
  <2> HIDE DEF r
  <2>3. TypeOK' BY <1>0, <2>1, <2>2 DEF TypeOK
  <2>4. ChangesAgree' /\ \A f \in Fds : idxplus1'[f] = 0 BY <1>2, <2>1 DEF MapInv, ChangesAgree
  <2>5. \A f \in Fds : Watches(f)'
    BY <1>0, <2>1, <2>2, <2>4 DEF Watches, Settled, IsOpen, Interest
  <2> QED BY <1>0, <2>3, <2>4, <2>5, MapKept
<1> QED BY <1>1, <1>2

\* A step of the program on one of its descriptors.
LEMMA FileStep ==
  ASSUME MapInv, NEW f \in Fds, NEW now \in {"closed", "kept", "open", "dup"},
         file' = [file EXCEPT ![f] = now],
         kernel' = [kernel EXCEPT ![f] = NoItem] \/ kernel' = kernel,
         UNCHANGED <<changelist, events, count, changes, idxplus1>>,
         Watches(f)'
  PROVE  MapInv'
<1>1. \A g \in Fds \ {f} : Same(g) BY DEF MapInv, TypeOK, Same
<1>2. ListOK' BY DEF MapInv, TypeOK, ListOK, ChangesAgree
<1>3. /\ kernel' \in [Fds -> SUBSET AllKinds]
      /\ file' \in [Fds -> {"closed", "kept", "open", "dup"}]
      /\ events' \in [Fds -> SUBSET Events] /\ count' \in [Fds -> [AllKinds -> 0 .. MaxCount]]
  BY DEF MapInv, TypeOK, NoItem
<1>4. CountsAgree' /\ \A g \in Fds : IsFiniteSet(events'[g]) BY DEF MapInv, CountsAgree
<1>5. ~changelist => idxplus1'[f] = 0 BY DEF MapInv
<1> QED BY <1>1, <1>2, <1>3, <1>4, <1>5, OneTouched

LEMMA CloseStep ==
  ASSUME MapInv, NEW f \in Fds, Close(f)
  PROVE  MapInv'
<1>1. PICK now \in {"closed", "kept"} : file' = [file EXCEPT ![f] = now] BY DEF Close
<1>2. /\ UNCHANGED <<changelist, events, count, changes, idxplus1>>
      /\ kernel' = [kernel EXCEPT ![f] = NoItem] \/ kernel' = kernel
  BY DEF Close
<1>3. file'[f] = now BY <1>1 DEF MapInv, TypeOK
<1>4. Watches(f)'
  <2>1. Watches(f) BY DEF MapInv
  <2> QED BY <1>2, <1>3, <2>1
          DEF Watches, Settled, Waiting, IsOpen, Interest, Old, Adds, Dels, With
<1> QED BY <1>1, <1>2, <1>4, FileStep

\* The events of the descriptor are gone: a change that waits deletes all the
\* kernel had.
LEMMA OpenStep ==
  ASSUME MapInv, NEW f \in Fds, Open(f)
  PROVE  MapInv'
<1>1. PICK now \in {"open", "dup"} :
        /\ file' = [file EXCEPT ![f] = now]
        /\ IF now = "open" THEN kernel' = [kernel EXCEPT ![f] = NoItem] ELSE UNCHANGED kernel
  BY DEF Open
<1>2. events[f] = {} /\ UNCHANGED <<changelist, events, count, changes, idxplus1>>
  BY DEF Open
<1>3. file'[f] = now /\ (now = "open" => kernel'[f] = {}) BY <1>1 DEF MapInv, TypeOK, NoItem
<1>4. Interest(f) = {}
  <2>1. \A k \in AllKinds : {e \in events[f] : k \in Kinds[e]} = {} BY <1>2
  <2>2. \A k \in AllKinds : count[f][k] = 0 BY <2>1, FS_EmptySet DEF MapInv, CountsAgree
  <2> QED BY <2>2 DEF Interest
<1>5. /\ Interest(f)' = Interest(f) /\ idxplus1' = idxplus1
      /\ Old(f)' = Old(f) /\ Adds(f)' = Adds(f) /\ Dels(f)' = Dels(f)
  BY <1>2 DEF Interest, Old, Adds, Dels, With
<1>6. Watches(f)'
  <2>1. CASE idxplus1[f] = 0 BY <1>3, <1>4, <1>5, <2>1 DEF Watches, Settled
  <2>2. CASE idxplus1[f] # 0
    <3>1. Waiting(f) BY <2>2 DEF MapInv, Watches
    <3>2. Adds(f) = {} /\ Dels(f) = Old(f) BY <1>4, <3>1 DEF Waiting
    <3> QED BY <1>3, <1>4, <1>5, <2>2, <3>1, <3>2 DEF Watches, Waiting, NoItem
  <2> QED BY <2>1, <2>2
<1> QED BY <1>1, <1>2, <1>6, FileStep

---------------------------------------------------------------------------
(* The theorems.                                                           *)

LEMMA MapInit == Init => MapInv
<1> SUFFICES ASSUME Init PROVE MapInv OBVIOUS
<1>1. Cardinality(Fds) \in Nat BY EvMapAssumption, FS_CardinalityType
<1>2. TypeOK BY <1>1, EvMapAssumption DEF Init, TypeOK, NoItem
<1>3. CountsAgree /\ \A f \in Fds : IsFiniteSet(events[f])
  <2>1. \A f \in Fds, k \in AllKinds : {e \in events[f] : k \in Kinds[e]} = {} BY DEF Init
  <2> QED BY <2>1, FS_EmptySet DEF Init, CountsAgree
<1>4. ChangesAgree BY DEF Init, ChangesAgree
<1>5. \A f \in Fds : Watches(f) BY DEF Init, Watches, Settled, Interest, NoItem
<1> QED BY <1>2, <1>3, <1>4, <1>5 DEF MapInv, Init

LEMMA MapStep == MapInv /\ [Next]_vars => MapInv'
<1> SUFFICES ASSUME MapInv, [Next]_vars PROVE MapInv' OBVIOUS
<1>1. CASE UNCHANGED vars
  BY <1>1 DEF vars, MapInv, TypeOK, CountsAgree, ChangesAgree, Watches, Settled, Waiting,
              IsOpen, Interest, Old, Adds, Dels, With
<1> QED BY <1>1, AddStep, DelStep, DispatchStep, ReinitStep, CloseStep, OpenStep DEF Next

(***************************************************************************)
(* The map is consistent after every call, whatever the backend refused:   *)
(* evmap_io_check_integrity_fn and event_changelist_assert_ok hold, for    *)
(* every number of descriptors and events.                                 *)
(***************************************************************************)
THEOREM MapIsConsistent == Spec => []Inv
<1>1. MapInv => Inv BY DEF MapInv, Inv
<1> QED BY <1>1, MapInit, MapStep, PTL DEF Spec

(***************************************************************************)
(* Once no change of it is left to apply, the kernel watches an open       *)
(* descriptor for what its events want, with the list of changes and       *)
(* without (epoll_apply_one_change), however often the program closed and  *)
(* opened it meanwhile.                                                    *)
(***************************************************************************)
THEOREM KernelWatches == Spec => []Watched
<1>1. MapInv => Watched BY DEF MapInv, Watched, Watches, Settled
<1> QED BY <1>1, MapInit, MapStep, PTL DEF Spec
============================================================================
