----------------------------- MODULE EvBevCauses -----------------------------
(***************************************************************************)
(* A theorem about EvBev, for every number of bufferevents and every size   *)
(* of buffers and buckets: what suspends a direction has its cause and its  *)
(* end, and an event is added exactly while it is wanted.  EvBevProofs has  *)
(* the types, and that each reference has its holder.                       *)
(***************************************************************************)
EXTENDS EvBevProofs

---------------------------------------------------------------------------
(* What suspends a direction has its cause, and an event is added exactly   *)
(* while it is wanted: how each function leaves the bufferevent it is       *)
(* called for                                                              *)

\* What the addition and removal of events leaves as it was
Still(u, v) ==
  /\ v.cbs = u.cbs /\ v.enabled = u.enabled /\ v.len = u.len /\ v.high = u.high
  /\ v.sock = u.sock /\ v.connecting = u.connecting /\ v.refused = u.refused
  /\ v.cfg = u.cfg /\ v.limit = u.limit /\ v.tell = u.tell

\* Only b is touched, and of the queue only its events.
Aside(w, x, b) ==
  /\ x \in Worlds /\ x.grp = w.grp /\ \A c \in Bevs \ {b} : x.bev[c] = w.bev[c]
  /\ x.bev[b].st = w.bev[b].st /\ x.bev[b].final = w.bev[b].final
  /\ \A e \in Tasks(w.queue) : e \in Tasks(x.queue) \/ (e.b = b /\ e.k \in {"R", "W", "T"})

\* The refill timer is where it was.
SameTimer(w, x, b) == /\ "T" \in x.bev[b].pend <=> "T" \in w.bev[b].pend
                      /\ \A e \in Tasks(w.queue) : e.k = "T" => e \in Tasks(x.queue)

LEMMA AsideTwice ==
  ASSUME NEW w, NEW x, NEW y, NEW b, Aside(w, x, b), Aside(x, y, b)
  PROVE  Aside(w, y, b)
BY DEF Aside

\* A bufferevent is replaced.
Puts(w, x, b, v) == Aside(w, x, b) /\ x.bev[b] = v /\ x.queue = w.queue

LEMMA PutAside ==
  ASSUME NEW w \in Worlds, NEW b \in Bevs, NEW v \in Bev, NEW x, x = [w EXCEPT !.bev[b] = v],
         v.st = w.bev[b].st, v.final = w.bev[b].final
  PROVE  Puts(w, x, b, v)
<1>1. /\ x \in Worlds /\ x.grp = w.grp /\ x.queue = w.queue /\ x.bev[b] = v
      /\ \A c \in Bevs \ {b} : x.bev[c] = w.bev[c]
  BY DEF Worlds
<1> QED BY <1>1 DEF Aside, Puts

LEMMA DequeueKeeps ==
  ASSUME NEW w \in Worlds, NEW b \in Bevs, NEW k, NEW x, x = Dequeue(w, b, k)
  PROVE  /\ x \in Worlds /\ x.bev = w.bev /\ x.grp = w.grp
         /\ \A e \in Tasks(w.queue) : e \in Tasks(x.queue) \/ (e.b = b /\ e.k = k)
<1>1. CASE ~Queued(w, b, k) BY <1>1 DEF Dequeue
<1>2. CASE Queued(w, b, k)
  <2> DEFINE i == CHOOSE j \in DOMAIN w.queue : w.queue[j].b = b /\ w.queue[j].k = k
  <2>1. i \in DOMAIN w.queue /\ w.queue[i].b = b /\ w.queue[i].k = k BY <1>2 DEF Queued
  <2>2. PICK p : p = RemoveAt(w.queue, i) OBVIOUS
  <2>3. x = [w EXCEPT !.queue = p] BY <1>2, <2>2 DEF Dequeue
  <2> HIDE DEF i
  <2>4. w.queue \in Seq(Entries) BY DEF Worlds
  <2>5. p \in Seq(Entries) /\ \A e \in Tasks(w.queue) : e # w.queue[i] => e \in Tasks(p)
    BY <2>1, <2>2, <2>4, Without
  <2>6. x \in Worlds /\ x.bev = w.bev /\ x.grp = w.grp /\ x.queue = p BY <2>3, <2>5 DEF Worlds
  <2> QED BY <2>1, <2>5, <2>6
<1> QED BY <1>1, <1>2

\* One of its events is added.
Added(w, x, b, k) ==
  /\ Aside(w, x, b) /\ Still(w.bev[b], x.bev[b]) /\ x.bev[b].susp = w.bev[b].susp
  /\ x.bev[b].pend = IF k \in w.bev[b].final THEN w.bev[b].pend ELSE w.bev[b].pend \cup {k}
  /\ k # "T" => SameTimer(w, x, b)

LEMMA AddIs ==
  ASSUME NEW w \in Worlds, NEW b \in Bevs, NEW k \in {"R", "W", "T"}, NEW x, x = Add(w, b, k)
  PROVE  Added(w, x, b, k)
<1>0. w.bev[b] \in Bev BY DEF Worlds
<1>1. CASE k \in w.bev[b].final
  <2>1. x = w BY <1>1 DEF Add
  <2> QED BY <1>1, <2>1 DEF Added, Aside, Still, SameTimer
<1>2. CASE k \notin w.bev[b].final
  <2>1. PICK y : y = IF k = "T" THEN Dequeue(w, b, k) ELSE w OBVIOUS
  <2>2. /\ y \in Worlds /\ y.bev = w.bev /\ y.grp = w.grp
        /\ \A e \in Tasks(w.queue) : e \in Tasks(y.queue) \/ (e.b = b /\ e.k = k)
        /\ k # "T" => y = w
    BY <2>1, DequeueKeeps
  <2>3. PICK p, g : /\ p = w.bev[b].pend \cup {k}
                    /\ g = IF k = "T" THEN FALSE ELSE w.bev[b].due
    OBVIOUS
  <2>4. p \in SUBSET {"R", "W", "T"} /\ g \in BOOLEAN BY <1>0, <2>3 DEF Bev
  <2>5. PICK v : v = [w.bev[b] EXCEPT !.pend = p, !.due = g] OBVIOUS
  <2>6. v \in Bev BY <1>0, <2>4, <2>5 DEF Bev
  <2>7. /\ v.pend = p /\ v.susp = w.bev[b].susp /\ v.st = w.bev[b].st
        /\ v.final = w.bev[b].final /\ Still(w.bev[b], v)
    BY <1>0, <2>5 DEF Bev, Still
  <2>8. x = [y EXCEPT !.bev[b] = v]
    <3>1. CASE k = "T"
      <4>1. v = [w.bev[b] EXCEPT !.pend = @ \cup {k}, !.due = FALSE] BY <2>3, <2>5, <3>1
      <4> QED BY <1>2, <2>1, <2>2, <3>1, <4>1 DEF Add, Worlds
    <3>2. CASE k # "T"
      <4>1. w.bev[b].due = g BY <2>3, <3>2
      <4>2. v = [w.bev[b] EXCEPT !.pend = @ \cup {k}] BY <1>0, <2>3, <2>5, <4>1 DEF Bev
      <4> QED BY <1>2, <2>1, <3>2, <4>2 DEF Add
    <3> QED BY <3>1, <3>2
  <2>9. Aside(y, x, b) /\ x.bev[b] = v /\ x.queue = y.queue
    <3>1. v.st = y.bev[b].st /\ v.final = y.bev[b].final BY <2>2, <2>7
    <3>2. Puts(y, x, b, v) BY <2>2, <2>6, <2>8, <3>1, PutAside
    <3> QED BY <3>2 DEF Puts
  <2>10. Aside(w, x, b) BY <2>2, <2>9 DEF Aside
  <2>11. k # "T" => SameTimer(w, x, b) BY <2>2, <2>3, <2>7, <2>9 DEF SameTimer
  <2> QED BY <1>2, <2>3, <2>7, <2>9, <2>10, <2>11 DEF Added
<1> QED BY <1>1, <1>2

\* One of its events is deleted.
Deleted(w, x, b, k) ==
  /\ Aside(w, x, b) /\ Still(w.bev[b], x.bev[b]) /\ x.bev[b].susp = w.bev[b].susp
  /\ x.bev[b].pend = IF k \in w.bev[b].final THEN w.bev[b].pend ELSE w.bev[b].pend \ {k}
  /\ k # "T" => SameTimer(w, x, b)

LEMMA DelIs ==
  ASSUME NEW w \in Worlds, NEW b \in Bevs, NEW k \in {"R", "W", "T"}, NEW x, x = Del(w, b, k)
  PROVE  Deleted(w, x, b, k)
<1>0. w.bev[b] \in Bev BY DEF Worlds
<1>1. CASE k \in w.bev[b].final
  <2>1. x = w BY <1>1 DEF Del
  <2> QED BY <1>1, <2>1 DEF Deleted, Aside, Still, SameTimer
<1>2. CASE k \notin w.bev[b].final
  <2>1. PICK y : y = Dequeue(w, b, k) OBVIOUS
  <2>2. /\ y \in Worlds /\ y.bev = w.bev /\ y.grp = w.grp
        /\ \A e \in Tasks(w.queue) : e \in Tasks(y.queue) \/ (e.b = b /\ e.k = k)
    BY <2>1, DequeueKeeps
  <2>3. PICK p, g : /\ p = w.bev[b].pend \ {k}
                    /\ g = IF k = "T" THEN FALSE ELSE w.bev[b].due
    OBVIOUS
  <2>4. p \in SUBSET {"R", "W", "T"} /\ g \in BOOLEAN BY <1>0, <2>3 DEF Bev
  <2>5. PICK v : v = [w.bev[b] EXCEPT !.pend = p, !.due = g] OBVIOUS
  <2>6. v \in Bev BY <1>0, <2>4, <2>5 DEF Bev
  <2>7. /\ v.pend = p /\ v.susp = w.bev[b].susp /\ v.st = w.bev[b].st
        /\ v.final = w.bev[b].final /\ Still(w.bev[b], v)
    BY <1>0, <2>5 DEF Bev, Still
  <2>8. x = [y EXCEPT !.bev[b] = v] BY <1>2, <2>1, <2>2, <2>3, <2>5 DEF Del, Worlds
  <2>9. Aside(y, x, b) /\ x.bev[b] = v /\ x.queue = y.queue
    <3>1. v.st = y.bev[b].st /\ v.final = y.bev[b].final BY <2>2, <2>7
    <3>2. Puts(y, x, b, v) BY <2>2, <2>6, <2>8, <3>1, PutAside
    <3> QED BY <3>2 DEF Puts
  <2>10. Aside(w, x, b) BY <2>2, <2>9 DEF Aside
  <2>11. k # "T" => SameTimer(w, x, b) BY <2>2, <2>3, <2>7, <2>9 DEF SameTimer
  <2> QED BY <1>2, <2>3, <2>7, <2>9, <2>10, <2>11 DEF Deleted
<1> QED BY <1>1, <1>2

\* The events of several directions
Started(w, x, b, ds) ==
  /\ Aside(w, x, b) /\ Still(w.bev[b], x.bev[b]) /\ x.bev[b].susp = w.bev[b].susp
  /\ SameTimer(w, x, b) /\ (w.bev[b].final = {} => x.bev[b].pend = w.bev[b].pend \cup ds)
Stopped(w, x, b, ds) ==
  /\ Aside(w, x, b) /\ Still(w.bev[b], x.bev[b]) /\ x.bev[b].susp = w.bev[b].susp
  /\ SameTimer(w, x, b) /\ (w.bev[b].final = {} => x.bev[b].pend = w.bev[b].pend \ ds)

LEMMA SockEnableIs ==
  ASSUME NEW w \in Worlds, NEW b \in Bevs, NEW ds \in SUBSET D, NEW x, x = SockEnable(w, b, ds)
  PROVE  Started(w, x, b, ds)
<1>1. PICK r : r = IF "R" \in ds THEN Add(w, b, "R") ELSE w OBVIOUS
<1>2. /\ Aside(w, r, b) /\ Still(w.bev[b], r.bev[b]) /\ r.bev[b].susp = w.bev[b].susp
      /\ SameTimer(w, r, b)
      /\ w.bev[b].final = {} => r.bev[b].pend = w.bev[b].pend \cup (ds \cap {"R"})
  <2>1. CASE "R" \in ds
    <3>1. ds \cap {"R"} = {"R"} BY <2>1
    <3>2. r = Add(w, b, "R") BY <1>1, <2>1
    <3>3. Added(w, r, b, "R") BY <3>2, AddIs
    <3> QED BY <3>1, <3>3 DEF Added
  <2>2. CASE "R" \notin ds
    <3>1. r = w /\ ds \cap {"R"} = {} BY <1>1, <2>2
    <3> QED BY <3>1 DEF Aside, Still, SameTimer
  <2> QED BY <2>1, <2>2
<1>3. r \in Worlds /\ r.bev[b].final = w.bev[b].final BY <1>2 DEF Aside
<1>4. x = IF "W" \in ds THEN Add(r, b, "W") ELSE r BY <1>1 DEF SockEnable, InTurn
<1>5. /\ Aside(r, x, b) /\ Still(r.bev[b], x.bev[b]) /\ x.bev[b].susp = r.bev[b].susp
      /\ SameTimer(r, x, b)
      /\ r.bev[b].final = {} => x.bev[b].pend = r.bev[b].pend \cup (ds \cap {"W"})
  <2>1. CASE "W" \in ds
    <3>1. ds \cap {"W"} = {"W"} BY <2>1
    <3>2. x = Add(r, b, "W") BY <1>4, <2>1
    <3>3. Added(r, x, b, "W") BY <1>3, <3>2, AddIs
    <3> QED BY <3>1, <3>3 DEF Added
  <2>2. CASE "W" \notin ds
    <3>1. x = r /\ ds \cap {"W"} = {} BY <1>4, <2>2
    <3> QED BY <1>3, <3>1 DEF Aside, Still, SameTimer
  <2> QED BY <2>1, <2>2
<1>6. Aside(w, x, b) BY <1>2, <1>5, AsideTwice
<1>7. ds = (ds \cap {"R"}) \cup (ds \cap {"W"}) BY Directions
<1> QED BY <1>2, <1>3, <1>5, <1>6, <1>7 DEF Started, Still, SameTimer

LEMMA SockDisableIs ==
  ASSUME NEW w \in Worlds, NEW b \in Bevs, NEW ds \in SUBSET D,
         NEW es, es = IF w.bev[b].connecting THEN ds \ {"W"} ELSE ds,
         NEW x, x = SockDisable(w, b, ds)
  PROVE  Stopped(w, x, b, es)
<1>0. es \in SUBSET D OBVIOUS
<1>1. PICK r : r = IF "R" \in es THEN Del(w, b, "R") ELSE w OBVIOUS
<1>2. /\ Aside(w, r, b) /\ Still(w.bev[b], r.bev[b]) /\ r.bev[b].susp = w.bev[b].susp
      /\ SameTimer(w, r, b)
      /\ w.bev[b].final = {} => r.bev[b].pend = w.bev[b].pend \ (es \cap {"R"})
  <2>1. CASE "R" \in es
    <3>1. es \cap {"R"} = {"R"} BY <2>1
    <3>2. r = Del(w, b, "R") BY <1>1, <2>1
    <3>3. Deleted(w, r, b, "R") BY <3>2, DelIs
    <3> QED BY <3>1, <3>3 DEF Deleted
  <2>2. CASE "R" \notin es
    <3>1. r = w /\ es \cap {"R"} = {} BY <1>1, <2>2
    <3> QED BY <3>1 DEF Aside, Still, SameTimer
  <2> QED BY <2>1, <2>2
<1>3. r \in Worlds /\ r.bev[b].final = w.bev[b].final BY <1>2 DEF Aside
<1>4. x = IF "W" \in es THEN Del(r, b, "W") ELSE r BY <1>1 DEF SockDisable, InTurn
<1>5. /\ Aside(r, x, b) /\ Still(r.bev[b], x.bev[b]) /\ x.bev[b].susp = r.bev[b].susp
      /\ SameTimer(r, x, b)
      /\ r.bev[b].final = {} => x.bev[b].pend = r.bev[b].pend \ (es \cap {"W"})
  <2>1. CASE "W" \in es
    <3>1. es \cap {"W"} = {"W"} BY <2>1
    <3>2. x = Del(r, b, "W") BY <1>4, <2>1
    <3>3. Deleted(r, x, b, "W") BY <1>3, <3>2, DelIs
    <3> QED BY <3>1, <3>3 DEF Deleted
  <2>2. CASE "W" \notin es
    <3>1. x = r /\ es \cap {"W"} = {} BY <1>4, <2>2
    <3> QED BY <1>3, <3>1 DEF Aside, Still, SameTimer
  <2> QED BY <2>1, <2>2
<1>6. Aside(w, x, b) BY <1>2, <1>5, AsideTwice
<1>7. es = (es \cap {"R"}) \cup (es \cap {"W"}) BY <1>0, Directions
<1> QED BY <1>2, <1>3, <1>5, <1>6, <1>7 DEF Stopped, Still, SameTimer

---------------------------------------------------------------------------
(* What stops and starts a direction                                       *)

\* The events are again as they should be, if they were before.
Stirs(w, x, b) ==
  /\ Aside(w, x, b) /\ Still(w.bev[b], x.bev[b])
  /\ w.bev[b].final = {} /\ Waits(w.bev[b]) => Waits(x.bev[b])

LEMMA StirsTwice ==
  ASSUME NEW w, NEW x, NEW y, NEW b, Stirs(w, x, b), Stirs(x, y, b)
  PROVE  Stirs(w, y, b)
<1>1. Aside(w, y, b) BY AsideTwice DEF Stirs
<1>2. x.bev[b].final = w.bev[b].final BY DEF Stirs, Aside
<1>3. Still(w.bev[b], y.bev[b]) BY DEF Stirs, Still
<1> QED BY <1>1, <1>2, <1>3 DEF Stirs

\* The refill timer is no matter of Waits.
LEMMA TimerStirs ==
  ASSUME NEW w \in Worlds, NEW b \in Bevs, NEW x, x = Add(w, b, "T") \/ x = Del(w, b, "T")
  PROVE  /\ Stirs(w, x, b) /\ x.bev[b].susp = w.bev[b].susp
         /\ x = Add(w, b, "T") /\ w.bev[b].final = {} => "T" \in x.bev[b].pend
<1>1. Added(w, x, b, "T") \/ Deleted(w, x, b, "T") BY AddIs, DelIs
<1>2. /\ Aside(w, x, b) /\ Still(w.bev[b], x.bev[b]) /\ x.bev[b].susp = w.bev[b].susp
      /\ "R" \in x.bev[b].pend <=> "R" \in w.bev[b].pend
      /\ "W" \in x.bev[b].pend <=> "W" \in w.bev[b].pend
  BY <1>1 DEF Added, Deleted
<1>3. x = Add(w, b, "T") /\ w.bev[b].final = {} => "T" \in x.bev[b].pend
  <2>1. x = Add(w, b, "T") => Added(w, x, b, "T") BY AddIs
  <2> QED BY <2>1 DEF Added
<1> QED BY <1>2, <1>3 DEF Stirs, Waits, Still

\* One reason of one direction comes or goes.
Suspends(w, x, b, d, why) ==
  /\ Stirs(w, x, b) /\ SameTimer(w, x, b)
  /\ x.bev[b].susp = [w.bev[b].susp EXCEPT ![d] = @ \cup {why}]
Resumed(w, x, b, d, why) ==
  /\ Stirs(w, x, b) /\ SameTimer(w, x, b)
  /\ x.bev[b].susp = [w.bev[b].susp EXCEPT ![d] = @ \ {why}]

LEMMA SuspendIs ==
  ASSUME NEW w \in Worlds, NEW b \in Bevs, NEW d \in D, NEW why \in Reasons,
         NEW x, x = Suspend(w, b, d, why)
  PROVE  Suspends(w, x, b, d, why)
<1>0. w.bev[b] \in Bev BY DEF Worlds
<1>10. w.bev[b].susp \in [D -> SUBSET Reasons] /\ w.bev[b].connecting \in BOOLEAN BY <1>0 DEF Bev
<1>1. PICK y : y = IF w.bev[b].susp[d] = {} THEN SockDisable(w, b, {d}) ELSE w OBVIOUS
<1>2. PICK es : es = IF w.bev[b].connecting THEN {d} \ {"W"} ELSE {d} OBVIOUS
<1>3. /\ Aside(w, y, b) /\ Still(w.bev[b], y.bev[b]) /\ y.bev[b].susp = w.bev[b].susp
      /\ SameTimer(w, y, b)
      /\ w.bev[b].final = {} =>
           y.bev[b].pend = IF w.bev[b].susp[d] = {} THEN w.bev[b].pend \ es ELSE w.bev[b].pend
  <2>1. CASE w.bev[b].susp[d] = {}
    <3>1. y = SockDisable(w, b, {d}) /\ {d} \in SUBSET D BY <1>1, <2>1
    <3>2. Stopped(w, y, b, es) BY <1>2, <3>1, SockDisableIs
    <3> QED BY <2>1, <3>2 DEF Stopped
  <2>2. CASE w.bev[b].susp[d] # {}
    <3>1. y = w BY <1>1, <2>2
    <3> QED BY <2>2, <3>1 DEF Aside, Still, SameTimer
  <2> QED BY <2>1, <2>2
<1>4. y \in Worlds /\ y.bev[b] \in Bev BY <1>3 DEF Aside, Worlds
<1>5. PICK s : s = [w.bev[b].susp EXCEPT ![d] = @ \cup {why}] OBVIOUS
<1>6. s \in [D -> SUBSET Reasons] BY <1>5, <1>10
<1>7. PICK v : v = [y.bev[b] EXCEPT !.susp = s] OBVIOUS
<1>8. /\ v \in Bev /\ v.susp = s /\ v.pend = y.bev[b].pend /\ Still(y.bev[b], v)
      /\ v.st = y.bev[b].st /\ v.final = y.bev[b].final
  BY <1>4, <1>6, <1>7 DEF Bev, Still
<1>9. x = [y EXCEPT !.bev[b] = v]
  <2>1. v = [y.bev[b] EXCEPT !.susp[d] = @ \cup {why}] BY <1>3, <1>5, <1>7
  <2> QED BY <1>1, <2>1 DEF Suspend
<1>11. Puts(y, x, b, v) BY <1>4, <1>8, <1>9, PutAside
<1>12. Aside(w, x, b) BY <1>3, <1>11, AsideTwice DEF Puts
<1>13. Still(w.bev[b], v) BY <1>3, <1>8 DEF Still
<1>14. SameTimer(w, x, b) BY <1>3, <1>8, <1>11 DEF SameTimer, Puts
<1>15. ASSUME w.bev[b].final = {}, Waits(w.bev[b]) PROVE Waits(v)
  <2>1. v.pend = IF w.bev[b].susp[d] = {} THEN w.bev[b].pend \ es ELSE w.bev[b].pend
    BY <1>3, <1>8, <1>15
  <2>2. \A e \in D : v.susp[e] = IF e = d THEN w.bev[b].susp[d] \cup {why} ELSE w.bev[b].susp[e]
    BY <1>5, <1>8, <1>10
  <2>3. d = "R" \/ d = "W" BY Directions
  <2>4. CASE d = "R"
    <3>1. es = {"R"} BY <1>2, <2>4
    <3> QED BY <1>13, <1>15, <2>1, <2>2, <2>4, <3>1, Directions DEF Waits, Still
  <2>5. CASE d = "W"
    <3>1. es = IF w.bev[b].connecting THEN {} ELSE {"W"} BY <1>2, <2>5
    <3> QED BY <1>10, <1>13, <1>15, <2>1, <2>2, <2>5, <3>1, Directions DEF Waits, Still
  <2> QED BY <2>3, <2>4, <2>5
<1> QED BY <1>5, <1>8, <1>11, <1>12, <1>13, <1>14, <1>15 DEF Suspends, Stirs, Puts

LEMMA UnsuspendIs ==
  ASSUME NEW w \in Worlds, NEW b \in Bevs, NEW d \in D, NEW why,
         NEW x, x = Unsuspend(w, b, d, why)
  PROVE  Resumed(w, x, b, d, why)
<1>0. w.bev[b] \in Bev BY DEF Worlds
<1>1. w.bev[b].susp \in [D -> SUBSET Reasons] BY <1>0 DEF Bev
<1>2. PICK s : s = [w.bev[b].susp EXCEPT ![d] = @ \ {why}] OBVIOUS
<1>3. s \in [D -> SUBSET Reasons] BY <1>1, <1>2
<1>4. PICK v : v = [w.bev[b] EXCEPT !.susp = s] OBVIOUS
<1>5. /\ v \in Bev /\ v.susp = s /\ v.pend = w.bev[b].pend /\ Still(w.bev[b], v)
      /\ v.st = w.bev[b].st /\ v.final = w.bev[b].final
  BY <1>0, <1>3, <1>4 DEF Bev, Still
<1>6. PICK y : y = [w EXCEPT !.bev[b] = v] OBVIOUS
<1>7. Puts(w, y, b, v) BY <1>5, <1>6, PutAside
<1>8. y \in Worlds /\ y.bev[b] = v BY <1>7 DEF Puts, Aside
<1>9. x = IF y.bev[b].susp[d] = {} /\ d \in y.bev[b].enabled THEN SockEnable(y, b, {d}) ELSE y
  BY <1>2, <1>4, <1>6 DEF Unsuspend
<1>10. /\ Aside(y, x, b) /\ Still(v, x.bev[b]) /\ x.bev[b].susp = s /\ SameTimer(y, x, b)
       /\ v.final = {} =>
            x.bev[b].pend = IF s[d] = {} /\ d \in v.enabled THEN v.pend \cup {d} ELSE v.pend
  <2>1. CASE s[d] = {} /\ d \in v.enabled
    <3>1. x = SockEnable(y, b, {d}) /\ {d} \in SUBSET D BY <1>5, <1>8, <1>9, <2>1
    <3>2. Started(y, x, b, {d}) BY <1>8, <3>1, SockEnableIs
    <3> QED BY <1>5, <1>8, <2>1, <3>2 DEF Started
  <2>2. CASE ~(s[d] = {} /\ d \in v.enabled)
    <3>1. x = y BY <1>5, <1>8, <1>9, <2>2
    <3> QED BY <1>5, <1>8, <2>2, <3>1 DEF Aside, Still, SameTimer
  <2> QED BY <2>1, <2>2
<1>11. Aside(w, x, b) BY <1>7, <1>10, AsideTwice DEF Puts
<1>12. Still(w.bev[b], x.bev[b]) BY <1>5, <1>10 DEF Still
<1>13. SameTimer(w, x, b) BY <1>5, <1>7, <1>10 DEF SameTimer, Puts
<1>14. ASSUME w.bev[b].final = {}, Waits(w.bev[b]) PROVE Waits(x.bev[b])
  <2>1. /\ x.bev[b].pend = IF s[d] = {} /\ d \in w.bev[b].enabled
                          THEN w.bev[b].pend \cup {d} ELSE w.bev[b].pend
        /\ x.bev[b].susp = s
    BY <1>5, <1>10, <1>14 DEF Still
  <2>2. \A e \in D : s[e] = IF e = d THEN w.bev[b].susp[d] \ {why} ELSE w.bev[b].susp[e]
    BY <1>1, <1>2
  <2>3. d = "R" \/ d = "W" BY Directions
  <2>4. CASE d = "R" BY <1>12, <1>14, <2>1, <2>2, <2>4, Directions DEF Waits, Still
  <2>5. CASE d = "W" BY <1>12, <1>14, <2>1, <2>2, <2>5, Directions DEF Waits, Still
  <2> QED BY <2>3, <2>4, <2>5
<1> QED BY <1>2, <1>10, <1>11, <1>12, <1>13, <1>14 DEF Resumed, Stirs

---------------------------------------------------------------------------
(* What holds of a bufferevent between any two calls                       *)

AtTimer(l, c) == l.at \in {"taken", "telling"} /\ l.b = c /\ l.k = "T"
\* The refill timer is going to run, or is running.
Timed(w, l, c) == \/ "T" \in w.bev[c].pend
                  \/ \E e \in Tasks(w.queue) : e.b = c /\ e.k = "T"
                  \/ AtTimer(l, c)
\* The deferred callback has t still before it.
Awaits(l, c, t) ==
  /\ l.b = c /\ l.k = "D"
  /\ \/ l.at = "taken"
     \/ l.at = "telling" /\ \E i, j \in DOMAIN Calls :
                              i < j /\ Calls[i] = l.what /\ t \in Tells(Calls[j])

Capped(v) == \A d \in D : v.cfg # NoCfg /\ v.limit[d] <= 0 => "BW" \in v.susp[d]
Backed(w, l, c) ==
  \A d \in D : "BW" \in w.bev[c].susp[d] => w.bev[c].cfg # NoCfg /\ Timed(w, l, c)
\* S: the directions in which the group suspends its members, or some of them
Tied(w, c, S) == \A d \in D : "GROUP" \in w.bev[c].susp[d] => c \in w.grp.members /\ d \in S
Owed(w, l, c) ==
  w.bev[c].cbs = TRUE => \A t \in w.bev[c].tell : Deferred(w, c) \/ Awaits(l, c, t)

Upheld(w, l, c, S) == Capped(w.bev[c]) /\ Backed(w, l, c) /\ Tied(w, c, S) /\ Owed(w, l, c)
Plain(v) == (v.refused = TRUE => v.sock = "dead") /\ v.high \in 0 .. MaxLen

\* All but that the mark is held
Stands(w, l, c, S) == Waits(w.bev[c]) /\ Upheld(w, l, c, S) /\ Plain(w.bev[c])
\* All but what is said of one reason
Nearly(w, l, c, S, why) ==
  /\ Waits(w.bev[c]) /\ Owed(w, l, c) /\ Plain(w.bev[c])
  /\ why # "BW" => Capped(w.bev[c]) /\ Backed(w, l, c)
  /\ why # "GROUP" => Tied(w, c, S)
Firm(w, l, c, S) == Stands(w, l, c, S) /\ MarkHeld(w.bev[c])

Sized(v) == (\A d \in D : v.len[d] \in 0 .. MaxLen) /\ (v.st = "unused" => v.refcnt = 1)

Good(w, l, S) ==
  \A c \in Bevs : /\ Sized(w.bev[c]) /\ (c \in w.grp.members => w.bev[c].st = "live")
                  /\ w.bev[c].st = "live" /\ w.bev[c].final = {} => Firm(w, l, c, S)

\* b is moved from one good world to another.
Fares(w, x, b, l, S) == Aside(w, x, b) /\ Good(x, l, S)

LEMMA AsideGood ==
  ASSUME NEW w, NEW l, NEW S, Good(w, l, S), NEW b \in Bevs, w.bev[b].st = "live",
         NEW x, Aside(w, x, b), \A d \in D : x.bev[b].len[d] \in 0 .. MaxLen,
         w.bev[b].final = {} => Firm(x, l, b, S)
  PROVE  Fares(w, x, b, l, S)
<1>1. x.bev[b].st = "live" /\ x.bev[b].final = w.bev[b].final /\ x.grp = w.grp BY DEF Aside
<1>2. ASSUME NEW c \in Bevs \ {b}, Firm(w, l, c, S) PROVE Firm(x, l, c, S)
  <2>1. x.bev[c] = w.bev[c] BY DEF Aside
  <2>2. Deferred(w, c) => Deferred(x, c) BY DEF Deferred, Aside
  <2>3. Timed(w, l, c) => Timed(x, l, c) BY <2>1 DEF Timed, Aside
  <2>4. Backed(x, l, c) BY <1>2, <2>1, <2>3 DEF Firm, Stands, Upheld, Backed
  <2>5. Owed(x, l, c) BY <1>2, <2>1, <2>2 DEF Firm, Stands, Upheld, Owed
  <2>6. Tied(x, c, S) BY <1>1, <1>2, <2>1 DEF Firm, Stands, Upheld, Tied
  <2> QED BY <1>2, <2>1, <2>4, <2>5, <2>6 DEF Firm, Stands, Upheld
<1>3. \A c \in Bevs \ {b} : x.bev[c] = w.bev[c] BY DEF Aside
<1>4. \A c \in Bevs \ {b} :
         /\ Sized(x.bev[c]) /\ (c \in x.grp.members => x.bev[c].st = "live")
         /\ x.bev[c].st = "live" /\ x.bev[c].final = {} => Firm(x, l, c, S)
  BY <1>1, <1>2, <1>3 DEF Good
<1>5. Sized(x.bev[b]) BY <1>1 DEF Sized
<1> QED BY <1>1, <1>4, <1>5 DEF Good, Fares

\* Nothing but one reason for suspension comes or goes.
Differ(u, v, why) ==
  \A d \in D, r \in Reasons \ {why} : r \in v.susp[d] <=> r \in u.susp[d]

LEMMA StirStands ==
  ASSUME NEW w, NEW l, NEW S, NEW b \in Bevs, NEW why \in Reasons, Nearly(w, l, b, S, why),
         w.bev[b].final = {},
         NEW x, Stirs(w, x, b), Differ(w.bev[b], x.bev[b], why),
         why = "BW" => Capped(x.bev[b]) /\ Backed(x, l, b),
         why # "BW" => SameTimer(w, x, b),
         why = "GROUP" => Tied(x, b, S)
  PROVE  /\ Stands(x, l, b, S)
         /\ why # "WM" /\ MarkHeld(w.bev[b]) => MarkHeld(x.bev[b])
<1>1. Still(w.bev[b], x.bev[b]) /\ x.grp = w.grp BY DEF Stirs, Aside
<1>2. Waits(x.bev[b]) BY DEF Stirs, Nearly
<1>3. Deferred(w, b) => Deferred(x, b) BY DEF Deferred, Stirs, Aside
<1>4. Owed(x, l, b) BY <1>1, <1>3 DEF Nearly, Owed, Still
<1>5. ASSUME why # "BW" PROVE Capped(x.bev[b]) /\ Backed(x, l, b)
  <2>1. \A d \in D : "BW" \in x.bev[b].susp[d] <=> "BW" \in w.bev[b].susp[d]
    BY <1>5 DEF Differ, Reasons
  <2>2. Capped(x.bev[b]) BY <1>1, <1>5, <2>1 DEF Nearly, Capped, Still
  <2>3. Timed(w, l, b) => Timed(x, l, b) BY <1>5 DEF Timed, SameTimer
  <2>4. Backed(x, l, b) BY <1>1, <1>5, <2>1, <2>3 DEF Nearly, Backed, Still
  <2> QED BY <2>2, <2>4
<1>7. ASSUME why # "GROUP" PROVE Tied(x, b, S)
  <2>1. \A d \in D : "GROUP" \in x.bev[b].susp[d] <=> "GROUP" \in w.bev[b].susp[d]
    BY <1>7 DEF Differ, Reasons
  <2> QED BY <1>1, <1>7, <2>1 DEF Nearly, Tied
<1>8. ASSUME why # "WM", MarkHeld(w.bev[b]) PROVE MarkHeld(x.bev[b])
  <2>1. "WM" \in x.bev[b].susp["R"] <=> "WM" \in w.bev[b].susp["R"]
    BY <1>8, Directions DEF Differ, Reasons
  <2> QED BY <1>1, <1>8, <2>1 DEF MarkHeld, Still
<1>9. Plain(x.bev[b]) BY <1>1 DEF Nearly, Plain, Still
<1> QED BY <1>2, <1>4, <1>5, <1>7, <1>8, <1>9 DEF Stands, Upheld

LEMMA SuspendsDiffer ==
  ASSUME NEW w \in Worlds, NEW x, NEW b \in Bevs, NEW d \in D, NEW why,
         Suspends(w, x, b, d, why) \/ Resumed(w, x, b, d, why)
  PROVE  Differ(w.bev[b], x.bev[b], why)
<1>1. w.bev[b].susp \in [D -> SUBSET Reasons] BY DEF Worlds, Bev
<1>2. \A e \in D : \/ x.bev[b].susp[e] = w.bev[b].susp[e]
                   \/ x.bev[b].susp[e] = w.bev[b].susp[e] \cup {why}
                   \/ x.bev[b].susp[e] = w.bev[b].susp[e] \ {why}
  BY <1>1 DEF Suspends, Resumed
<1> QED BY <1>2 DEF Differ

\* What no property speaks of is changed.
LEMMA TouchGood ==
  ASSUME NEW w, NEW l, NEW S, Good(w, l, S), NEW b \in Bevs, w.bev[b].st = "live",
         NEW x, Aside(w, x, b), SameTimer(w, x, b), Still(w.bev[b], x.bev[b]),
         x.bev[b].susp = w.bev[b].susp,
         x.bev[b].pend = w.bev[b].pend
  PROVE  Fares(w, x, b, l, S)
<1>1. \A d \in D : x.bev[b].len[d] \in 0 .. MaxLen BY DEF Good, Sized, Still
<1>2. ASSUME w.bev[b].final = {} PROVE Firm(x, l, b, S)
  <2>1. Firm(w, l, b, S) BY <1>2 DEF Good
  <2>2. x.grp = w.grp BY DEF Aside
  <2>3. Deferred(w, b) => Deferred(x, b) BY DEF Deferred, Aside
  <2>4. Timed(w, l, b) => Timed(x, l, b) BY DEF Timed, SameTimer
  <2>5. Backed(x, l, b) BY <2>1, <2>4 DEF Firm, Stands, Upheld, Backed, Still
  <2>6. Owed(x, l, b) BY <2>1, <2>3 DEF Firm, Stands, Upheld, Owed, Still
  <2>7. Tied(x, b, S) BY <2>1, <2>2 DEF Firm, Stands, Upheld, Tied
  <2>8. Waits(x.bev[b]) /\ MarkHeld(x.bev[b]) /\ Capped(x.bev[b])
    BY <2>1 DEF Firm, Stands, Upheld, Still, Waits, MarkHeld, Capped
  <2> QED BY <2>1, <2>5, <2>6, <2>7, <2>8 DEF Firm, Stands, Upheld, Plain, Still
<1> QED BY <1>1, <1>2, AsideGood

LEMMA FaresTwice ==
  ASSUME NEW w, NEW x, NEW y, NEW b, NEW l, NEW S, Fares(w, x, b, l, S), Fares(x, y, b, l, S)
  PROVE  Fares(w, y, b, l, S)
BY AsideTwice DEF Fares

\* The reason is one that only says that a name is being looked up.
LEMMA LookupGood ==
  ASSUME NEW w \in Worlds, NEW l, NEW S, Good(w, l, S), NEW b \in Bevs, w.bev[b].st = "live",
         NEW d \in D, NEW x,
         x = Suspend(w, b, d, "LOOKUP") \/ x = Unsuspend(w, b, d, "LOOKUP")
  PROVE  Fares(w, x, b, l, S)
<1>1. "LOOKUP" \in Reasons BY DEF Reasons
<1>2. Suspends(w, x, b, d, "LOOKUP") \/ Resumed(w, x, b, d, "LOOKUP")
  BY <1>1, SuspendIs, UnsuspendIs
<1>3. Stirs(w, x, b) /\ Aside(w, x, b) /\ SameTimer(w, x, b)
  BY <1>2 DEF Suspends, Resumed, Stirs
<1>4. Differ(w.bev[b], x.bev[b], "LOOKUP") BY <1>2, SuspendsDiffer
<1>5. \A e \in D : x.bev[b].len[e] \in 0 .. MaxLen BY <1>3 DEF Good, Sized, Stirs, Still
<1>6. ASSUME w.bev[b].final = {} PROVE Firm(x, l, b, S)
  <2>1. Firm(w, l, b, S) BY <1>6 DEF Good
  <2>2. Nearly(w, l, b, S, "LOOKUP") BY <2>1 DEF Firm, Stands, Upheld, Nearly
  <2> QED BY <1>1, <1>3, <1>4, <1>6, <2>1, <2>2, StirStands DEF Firm
<1> QED BY <1>3, <1>5, <1>6, AsideGood

---------------------------------------------------------------------------
(* How the calls leave it                                                  *)

\* What the suspensions, the limits and the callbacks owed are a matter of
Else(u, v) == /\ v.cbs = u.cbs /\ v.tell = u.tell /\ v.cfg = u.cfg /\ v.limit = u.limit
              /\ v.susp = u.susp

LEMMA ElseUpheld ==
  ASSUME NEW w, NEW l, NEW S, NEW b, Upheld(w, l, b, S), NEW x, Aside(w, x, b),
         SameTimer(w, x, b), Else(w.bev[b], x.bev[b])
  PROVE  Upheld(x, l, b, S)
<1>1. x.grp = w.grp BY DEF Aside
<1>2. Deferred(w, b) => Deferred(x, b) BY DEF Deferred, Aside
<1>3. Timed(w, l, b) => Timed(x, l, b) BY DEF Timed, SameTimer
<1>4. Capped(x.bev[b]) BY DEF Upheld, Capped, Else
<1>5. Backed(x, l, b) BY <1>3 DEF Upheld, Backed, Else
<1>6. Tied(x, b, S) BY <1>1 DEF Upheld, Tied, Else
<1>7. Owed(x, l, b) BY <1>2 DEF Upheld, Owed, Else
<1> QED BY <1>4, <1>5, <1>6, <1>7 DEF Upheld

\* Only the directions that are wanted, and their events, are others.
Kept(u, v) ==
  /\ Else(u, v) /\ v.len = u.len /\ v.high = u.high /\ v.sock = u.sock
  /\ v.connecting = u.connecting /\ v.refused = u.refused

LEMMA KeptGood ==
  ASSUME NEW w, NEW l, NEW S, Good(w, l, S), NEW b \in Bevs, w.bev[b].st = "live",
         NEW x, Aside(w, x, b), SameTimer(w, x, b), Kept(w.bev[b], x.bev[b]),
         w.bev[b].final = {} /\ Waits(w.bev[b]) => Waits(x.bev[b])
  PROVE  Fares(w, x, b, l, S)
<1>1. \A d \in D : x.bev[b].len[d] \in 0 .. MaxLen BY DEF Good, Sized, Kept
<1>2. ASSUME w.bev[b].final = {} PROVE Firm(x, l, b, S)
  <2>1. Firm(w, l, b, S) BY <1>2 DEF Good
  <2>2. Upheld(x, l, b, S) BY <2>1, ElseUpheld DEF Firm, Stands, Kept
  <2>3. Waits(x.bev[b]) BY <1>2, <2>1 DEF Firm, Stands
  <2>4. MarkHeld(x.bev[b]) /\ Plain(x.bev[b])
    BY <2>1 DEF Firm, Stands, Kept, Else, MarkHeld, Plain
  <2> QED BY <2>2, <2>3, <2>4 DEF Firm, Stands
<1> QED BY <1>1, <1>2, AsideGood

\* Directions become wanted, or unwanted.
Turned(w, x, b, e, p) ==
  /\ Aside(w, x, b) /\ SameTimer(w, x, b) /\ Kept(w.bev[b], x.bev[b])
  /\ x.bev[b].enabled = e /\ (w.bev[b].final = {} => x.bev[b].pend = p)

LEMMA EnableIs ==
  ASSUME NEW w \in Worlds, NEW b \in Bevs, NEW ds \in SUBSET D, NEW x, x = EnableBev(w, b, ds)
  PROVE  Turned(w, x, b, w.bev[b].enabled \cup ds,
                w.bev[b].pend \cup {d \in ds : w.bev[b].susp[d] = {}})
<1>0. w.bev[b] \in Bev BY DEF Worlds
<1>1. PICK e : e = w.bev[b].enabled \cup ds OBVIOUS
<1>2. e \in SUBSET D BY <1>0, <1>1 DEF Bev
<1>3. PICK v : v = [w.bev[b] EXCEPT !.enabled = e] OBVIOUS
<1>4. /\ v \in Bev /\ v.enabled = e /\ v.pend = w.bev[b].pend /\ Kept(w.bev[b], v)
      /\ v.st = w.bev[b].st /\ v.final = w.bev[b].final
  BY <1>0, <1>2, <1>3 DEF Bev, Kept, Else
<1>5. PICK y : y = [w EXCEPT !.bev[b] = v] OBVIOUS
<1>6. Puts(w, y, b, v) BY <1>4, <1>5, PutAside
<1>7. y \in Worlds /\ y.bev[b] = v BY <1>6 DEF Puts, Aside
<1>8. PICK es : es = {d \in ds : w.bev[b].susp[d] = {}} OBVIOUS
<1>9. es \in SUBSET D BY <1>8
<1>10. x = SockEnable(y, b, es) BY <1>1, <1>3, <1>5, <1>8 DEF EnableBev
<1>11. Started(y, x, b, es) BY <1>7, <1>9, <1>10, SockEnableIs
<1>12. Aside(w, x, b) BY <1>6, <1>11, AsideTwice DEF Puts, Started
<1>13. SameTimer(w, x, b) BY <1>4, <1>6, <1>11 DEF SameTimer, Puts, Started
<1>14. Kept(w.bev[b], x.bev[b]) BY <1>4, <1>7, <1>11 DEF Kept, Else, Started, Still
<1>15. x.bev[b].enabled = e /\ (w.bev[b].final = {} => x.bev[b].pend = w.bev[b].pend \cup es)
  BY <1>4, <1>7, <1>11 DEF Started, Still
<1> QED BY <1>1, <1>8, <1>12, <1>13, <1>14, <1>15 DEF Turned

LEMMA DisableIs ==
  ASSUME NEW w \in Worlds, NEW b \in Bevs, NEW ds \in SUBSET D, NEW x, x = DisableBev(w, b, ds)
  PROVE  Turned(w, x, b, w.bev[b].enabled \ ds,
                w.bev[b].pend \ (IF w.bev[b].connecting THEN ds \ {"W"} ELSE ds))
<1>0. w.bev[b] \in Bev BY DEF Worlds
<1>1. PICK e : e = w.bev[b].enabled \ ds OBVIOUS
<1>2. e \in SUBSET D BY <1>0, <1>1 DEF Bev
<1>3. PICK v : v = [w.bev[b] EXCEPT !.enabled = e] OBVIOUS
<1>4. /\ v \in Bev /\ v.enabled = e /\ v.pend = w.bev[b].pend /\ Kept(w.bev[b], v)
      /\ v.st = w.bev[b].st /\ v.final = w.bev[b].final
  BY <1>0, <1>2, <1>3 DEF Bev, Kept, Else
<1>5. PICK y : y = [w EXCEPT !.bev[b] = v] OBVIOUS
<1>6. Puts(w, y, b, v) BY <1>4, <1>5, PutAside
<1>7. y \in Worlds /\ y.bev[b] = v BY <1>6 DEF Puts, Aside
<1>8. PICK es : es = IF y.bev[b].connecting THEN ds \ {"W"} ELSE ds OBVIOUS
<1>9. v.connecting = w.bev[b].connecting BY <1>4 DEF Kept
<1>10. x = SockDisable(y, b, ds) BY <1>1, <1>3, <1>5 DEF DisableBev
<1>11. Stopped(y, x, b, es) BY <1>7, <1>8, <1>10, SockDisableIs
<1>12. Aside(w, x, b) BY <1>6, <1>11, AsideTwice DEF Puts, Stopped
<1>13. SameTimer(w, x, b) BY <1>4, <1>6, <1>11 DEF SameTimer, Puts, Stopped
<1>14. Kept(w.bev[b], x.bev[b]) BY <1>4, <1>7, <1>11 DEF Kept, Else, Stopped, Still
<1>15. x.bev[b].enabled = e /\ (w.bev[b].final = {} => x.bev[b].pend = w.bev[b].pend \ es)
  BY <1>4, <1>7, <1>11 DEF Stopped, Still
<1> QED BY <1>1, <1>7, <1>8, <1>9, <1>12, <1>13, <1>14, <1>15 DEF Turned

LEMMA EnableGood ==
  ASSUME NEW w \in Worlds, NEW l, NEW S, Good(w, l, S), NEW b \in Bevs, w.bev[b].st = "live",
         NEW ds \in SUBSET D, NEW x, x = EnableBev(w, b, ds)
  PROVE  Fares(w, x, b, l, S)
<1>1. PICK es : es = {d \in ds : w.bev[b].susp[d] = {}} OBVIOUS
<1>2. Turned(w, x, b, w.bev[b].enabled \cup ds, w.bev[b].pend \cup es) BY <1>1, EnableIs
<1>3. ASSUME w.bev[b].final = {}, Waits(w.bev[b]) PROVE Waits(x.bev[b])
  <2>1. /\ x.bev[b].pend = w.bev[b].pend \cup es /\ x.bev[b].enabled = w.bev[b].enabled \cup ds
        /\ Kept(w.bev[b], x.bev[b])
    BY <1>2, <1>3 DEF Turned
  <2> QED BY <1>1, <1>3, <2>1 DEF Waits, Kept, Else
<1> QED BY <1>2, <1>3, KeptGood DEF Turned

LEMMA DisableGood ==
  ASSUME NEW w \in Worlds, NEW l, NEW S, Good(w, l, S), NEW b \in Bevs, w.bev[b].st = "live",
         NEW ds \in SUBSET D, NEW x, x = DisableBev(w, b, ds)
  PROVE  Fares(w, x, b, l, S)
<1>1. PICK es : es = IF w.bev[b].connecting THEN ds \ {"W"} ELSE ds OBVIOUS
<1>2. Turned(w, x, b, w.bev[b].enabled \ ds, w.bev[b].pend \ es) BY <1>1, DisableIs
<1>3. ASSUME w.bev[b].final = {}, Waits(w.bev[b]) PROVE Waits(x.bev[b])
  <2>1. /\ x.bev[b].pend = w.bev[b].pend \ es /\ x.bev[b].enabled = w.bev[b].enabled \ ds
        /\ Kept(w.bev[b], x.bev[b])
    BY <1>2, <1>3 DEF Turned
  <2>2. "R" \in es <=> "R" \in ds BY <1>1
  <2>3. "W" \in es => "W" \in ds BY <1>1
  <2>4. "W" \in ds => "W" \in es \/ w.bev[b].connecting BY <1>1
  <2> QED BY <1>3, <2>1, <2>2, <2>3, <2>4 DEF Waits, Kept, Else
<1> QED BY <1>2, <1>3, KeptGood DEF Turned

---------------------------------------------------------------------------
(* The callbacks that become owed                                          *)

\* All but the callbacks is as it was.
Silent(u, v) ==
  /\ v.cbs = u.cbs /\ v.enabled = u.enabled /\ v.len = u.len /\ v.high = u.high
  /\ v.sock = u.sock /\ v.connecting = u.connecting /\ v.refused = u.refused
  /\ v.cfg = u.cfg /\ v.limit = u.limit /\ v.susp = u.susp /\ v.pend = u.pend

Told(w, x, b) ==
  /\ Aside(w, x, b) /\ Silent(w.bev[b], x.bev[b]) /\ Tasks(w.queue) \subseteq Tasks(x.queue)
  /\ w.bev[b].final = {} => x.bev[b].tell = w.bev[b].tell \/ Deferred(x, b)

LEMMA ScheduleIs ==
  ASSUME NEW w \in Worlds, NEW b \in Bevs, NEW x, x = Schedule(w, b)
  PROVE  Told(w, x, b) /\ (w.bev[b].final = {} => Deferred(x, b))
<1>0. w.bev[b] \in Bev BY DEF Worlds
<1>1. CASE "D" \in w.bev[b].final \/ Queued(w, b, "D")
  <2>1. x = w BY <1>1 DEF Schedule
  <2>2. w.bev[b].final = {} => Deferred(w, b) BY <1>1, Known
  <2> QED BY <2>1, <2>2 DEF Told, Aside, Silent
<1>2. CASE ~("D" \in w.bev[b].final \/ Queued(w, b, "D"))
  <2>1. PICK e : e = DEntry(b) OBVIOUS
  <2>2. e \in Entries /\ e.b = b /\ e.k = "D" BY <2>1 DEF DEntry, Entries, Kinds
  <2>3. PICK p : p = Append(w.queue, e) OBVIOUS
  <2>4. w.queue \in Seq(Entries) BY DEF Worlds
  <2>5. p \in Seq(Entries) /\ Tasks(p) = Tasks(w.queue) \cup {e} BY <2>2, <2>3, <2>4, With
  <2>6. PICK y : y = [w EXCEPT !.queue = p] OBVIOUS
  <2>7. y \in Worlds /\ y.grp = w.grp /\ y.queue = p /\ y.bev = w.bev
    BY <2>5, <2>6 DEF Worlds
  <2>8. PICK v : v = [w.bev[b] EXCEPT !.refcnt = @ + 1] OBVIOUS
  <2>9. /\ v \in Bev /\ Silent(w.bev[b], v) /\ v.tell = w.bev[b].tell
        /\ v.st = w.bev[b].st /\ v.final = w.bev[b].final
    BY <1>0, <2>8 DEF Bev, Silent
  <2>10. x = [w EXCEPT !.queue = p, !.bev[b] = v]
    BY <1>2, <2>1, <2>3, <2>8 DEF Schedule, DEntry, Entry
  <2>11. x = [y EXCEPT !.bev[b] = v] BY <2>6, <2>10
  <2>12. Puts(y, x, b, v)
    <3>1. v.st = y.bev[b].st /\ v.final = y.bev[b].final BY <2>7, <2>9
    <3> QED BY <2>7, <2>9, <2>11, <3>1, PutAside
  <2>13. Aside(w, x, b) BY <2>5, <2>7, <2>12 DEF Aside, Puts
  <2>14. x.bev[b] = v /\ x.queue = p BY <2>7, <2>12 DEF Puts
  <2>15. Deferred(x, b) BY <2>2, <2>5, <2>14 DEF Deferred
  <2> QED BY <2>5, <2>9, <2>13, <2>14, <2>15 DEF Told
<1> QED BY <1>1, <1>2

LEMMA RunCbIs ==
  ASSUME NEW w \in Worlds, NEW b \in Bevs, NEW what \in Whats, NEW x, x = RunCb(w, b, what)
  PROVE  Told(w, x, b)
<1>0. w.bev[b] \in Bev /\ w.bev[b].cbs \in BOOLEAN BY DEF Worlds, Bev
<1>1. CASE w.bev[b].cbs = FALSE
  <2>1. x = w BY <1>1 DEF RunCb
  <2> QED BY <2>1 DEF Told, Aside, Silent
<1>2. CASE w.bev[b].cbs = TRUE
  <2>1. PICK t : t = w.bev[b].tell \cup {what} OBVIOUS
  <2>2. t \in SUBSET (Events \cup {"read", "write"}) BY <1>0, <2>1 DEF Bev, Whats
  <2>3. PICK v : v = [w.bev[b] EXCEPT !.tell = t] OBVIOUS
  <2>4. v \in Bev /\ Silent(w.bev[b], v) /\ v.st = w.bev[b].st /\ v.final = w.bev[b].final
    BY <1>0, <2>2, <2>3 DEF Bev, Silent
  <2>5. PICK y : y = [w EXCEPT !.bev[b] = v] OBVIOUS
  <2>6. Puts(w, y, b, v) BY <2>4, <2>5, PutAside
  <2>7. y \in Worlds /\ y.bev[b] = v /\ y.queue = w.queue BY <2>6 DEF Puts, Aside
  <2>8. x = Schedule(y, b) BY <1>2, <2>1, <2>3, <2>5 DEF RunCb
  <2>9. Told(y, x, b) /\ (v.final = {} => Deferred(x, b)) BY <2>7, <2>8, ScheduleIs
  <2>10. Aside(w, x, b) BY <2>6, <2>9, AsideTwice DEF Puts, Told
  <2>11. Silent(w.bev[b], x.bev[b]) BY <2>4, <2>7, <2>9 DEF Silent, Told
  <2> QED BY <2>4, <2>7, <2>9, <2>10, <2>11 DEF Told
<1> QED BY <1>0, <1>1, <1>2

LEMMA ToldUpheld ==
  ASSUME NEW w, NEW l, NEW S, NEW b, w.bev[b].final = {}, Upheld(w, l, b, S), NEW x, Told(w, x, b)
  PROVE  Upheld(x, l, b, S)
<1>1. x.grp = w.grp /\ Silent(w.bev[b], x.bev[b]) BY DEF Told, Aside
<1>2. Deferred(w, b) => Deferred(x, b) BY DEF Deferred, Told
<1>3. Timed(w, l, b) => Timed(x, l, b) BY <1>1 DEF Timed, Told, Silent
<1>4. Capped(x.bev[b]) BY <1>1 DEF Upheld, Capped, Silent
<1>5. Backed(x, l, b) BY <1>1, <1>3 DEF Upheld, Backed, Silent
<1>6. Tied(x, b, S) BY <1>1 DEF Upheld, Tied, Silent
<1>7. Owed(x, l, b) BY <1>1, <1>2 DEF Upheld, Owed, Told, Silent
<1> QED BY <1>4, <1>5, <1>6, <1>7 DEF Upheld

LEMMA ToldGood ==
  ASSUME NEW w, NEW l, NEW S, Good(w, l, S), NEW b \in Bevs, w.bev[b].st = "live",
         NEW x, Told(w, x, b)
  PROVE  Fares(w, x, b, l, S)
<1>1. Aside(w, x, b) /\ Silent(w.bev[b], x.bev[b]) BY DEF Told
<1>2. \A d \in D : x.bev[b].len[d] \in 0 .. MaxLen BY <1>1 DEF Good, Sized, Silent
<1>3. ASSUME w.bev[b].final = {} PROVE Firm(x, l, b, S)
  <2>1. Firm(w, l, b, S) BY <1>3 DEF Good
  <2>2. Upheld(x, l, b, S) BY <1>3, <2>1, ToldUpheld DEF Firm, Stands
  <2>3. Waits(x.bev[b]) /\ MarkHeld(x.bev[b]) /\ Plain(x.bev[b])
    BY <1>1, <2>1 DEF Firm, Stands, Silent, Waits, MarkHeld, Plain
  <2> QED BY <2>2, <2>3 DEF Firm, Stands
<1> QED BY <1>1, <1>2, <1>3, AsideGood

LEMMA RunCbGood ==
  ASSUME NEW w \in Worlds, NEW l, NEW S, Good(w, l, S), NEW b \in Bevs, w.bev[b].st = "live",
         NEW what \in Whats, NEW x, x = RunCb(w, b, what)
  PROVE  Fares(w, x, b, l, S)
BY RunCbIs, ToldGood

LEMMA NothingGood ==
  ASSUME NEW w \in Worlds, NEW l, NEW S, Good(w, l, S), NEW b PROVE Fares(w, w, b, l, S)
BY DEF Fares, Aside

LEMMA TriggerGood ==
  ASSUME NEW w \in Worlds, NEW l, NEW S, Good(w, l, S), NEW b \in Bevs, w.bev[b].st = "live",
         NEW d, NEW x, x = Trigger(w, b, d)
  PROVE  Fares(w, x, b, l, S)
<1>1. "read" \in Whats /\ "write" \in Whats BY DEF Whats
<1>2. x = RunCb(w, b, "read") \/ x = RunCb(w, b, "write") \/ x = w BY DEF Trigger
<1> QED BY <1>1, <1>2, RunCbGood, NothingGood

\* The next of two calls has what it needs.
LEMMA FaresOn ==
  ASSUME NEW w, NEW x, NEW b, NEW l, NEW S, Fares(w, x, b, l, S), w.bev[b].st = "live"
  PROVE  x \in Worlds /\ Good(x, l, S) /\ x.bev[b].st = "live" /\ x.grp = w.grp
         /\ x.bev[b].final = w.bev[b].final
BY DEF Fares, Aside

LEMMA FailGood ==
  ASSUME NEW w \in Worlds, NEW l, NEW S, Good(w, l, S), NEW b \in Bevs, w.bev[b].st = "live",
         NEW d \in D, NEW what \in Whats, NEW x, x = Fail(w, b, d, what)
  PROVE  Fares(w, x, b, l, S)
<1>1. PICK y : y = DisableBev(w, b, {d}) OBVIOUS
<1>2. Fares(w, y, b, l, S)
  <2>1. {d} \in SUBSET D OBVIOUS
  <2> QED BY <1>1, <2>1, DisableGood
<1>3. y \in Worlds /\ Good(y, l, S) /\ y.bev[b].st = "live" BY <1>2, FaresOn
<1>4. x = RunCb(y, b, what) BY <1>1 DEF Fail
<1>5. Fares(y, x, b, l, S) BY <1>3, <1>4, RunCbGood
<1> QED BY <1>2, <1>5, FaresTwice

---------------------------------------------------------------------------
(* The mark                                                                *)

\* bufferevent_inbuf_wm_cb: the events follow, and the mark is held.
Marked(w, x, b) ==
  /\ Stirs(w, x, b) /\ SameTimer(w, x, b) /\ Differ(w.bev[b], x.bev[b], "WM")
  /\ w.bev[b].high # 0 => MarkHeld(x.bev[b])
  /\ w.bev[b].high = 0 => x = w

LEMMA WmCbIs ==
  ASSUME NEW w \in Worlds, NEW b \in Bevs, NEW x, x = WmCb(w, b)
  PROVE  Marked(w, x, b)
<1>0. w.bev[b] \in Bev /\ w.bev[b].susp \in [D -> SUBSET Reasons] BY DEF Worlds, Bev
<1>1. "WM" \in Reasons /\ "R" \in D BY Directions DEF Reasons
<1>2. CASE w.bev[b].high = 0
  <2>1. x = w BY <1>2 DEF WmCb
  <2> QED BY <1>2, <2>1 DEF Marked, Stirs, Aside, Still, SameTimer, Differ
<1>3. CASE w.bev[b].high # 0 /\ w.bev[b].len["R"] >= w.bev[b].high
  <2>1. x = Suspend(w, b, "R", "WM") BY <1>3 DEF WmCb
  <2>2. Suspends(w, x, b, "R", "WM") BY <1>1, <2>1, SuspendIs
  <2>3. Differ(w.bev[b], x.bev[b], "WM") BY <1>1, <2>2, SuspendsDiffer
  <2>4. "WM" \in x.bev[b].susp["R"] BY <1>0, <1>1, <2>2 DEF Suspends
  <2>5. MarkHeld(x.bev[b]) BY <1>3, <2>2, <2>4 DEF MarkHeld, Suspends, Stirs, Still
  <2> QED BY <1>3, <2>2, <2>3, <2>5 DEF Marked, Suspends
<1>4. CASE w.bev[b].high # 0 /\ ~(w.bev[b].len["R"] >= w.bev[b].high)
  <2>1. x = Unsuspend(w, b, "R", "WM") BY <1>4 DEF WmCb
  <2>2. Resumed(w, x, b, "R", "WM") BY <1>1, <2>1, UnsuspendIs
  <2>3. Differ(w.bev[b], x.bev[b], "WM") BY <1>1, <2>2, SuspendsDiffer
  <2>4. "WM" \notin x.bev[b].susp["R"] BY <1>0, <1>1, <2>2 DEF Resumed
  <2>5. MarkHeld(x.bev[b]) BY <1>4, <2>2, <2>4 DEF MarkHeld, Resumed, Stirs, Still
  <2> QED BY <1>4, <2>2, <2>3, <2>5 DEF Marked, Resumed
<1> QED BY <1>2, <1>3, <1>4

\* The input or its mark has changed, and bufferevent_inbuf_wm_cb is called.
LEMMA MarkedGood ==
  ASSUME NEW w, NEW l, NEW S, Good(w, l, S), NEW b \in Bevs, w.bev[b].st = "live",
         NEW y, Aside(w, y, b), \A d \in D : y.bev[b].len[d] \in 0 .. MaxLen,
         w.bev[b].final = {} => Stands(y, l, b, S),
         w.bev[b].final = {} /\ y.bev[b].high = 0 => MarkHeld(y.bev[b]),
         NEW x, Marked(y, x, b)
  PROVE  Fares(w, x, b, l, S)
<1>1. Aside(w, x, b) BY AsideTwice DEF Marked, Stirs
<1>2. \A d \in D : x.bev[b].len[d] \in 0 .. MaxLen BY DEF Marked, Stirs, Still
<1>3. ASSUME w.bev[b].final = {} PROVE Firm(x, l, b, S)
  <2>1. y.bev[b].final = {} BY <1>3 DEF Aside
  <2>2. "WM" \in Reasons BY DEF Reasons
  <2>3. Nearly(y, l, b, S, "WM") BY <1>3 DEF Stands, Upheld, Nearly
  <2>4. Stirs(y, x, b) /\ SameTimer(y, x, b) /\ Differ(y.bev[b], x.bev[b], "WM") BY DEF Marked
  <2>5. Stands(x, l, b, S) BY <2>1, <2>2, <2>3, <2>4, StirStands
  <2>6. MarkHeld(x.bev[b]) BY <1>3 DEF Marked
  <2> QED BY <2>5, <2>6 DEF Firm
<1> QED BY <1>1, <1>2, <1>3, AsideGood

LEMMA SetInputGood ==
  ASSUME NEW w \in Worlds, NEW l, NEW S, Good(w, l, S), NEW b \in Bevs, w.bev[b].st = "live",
         NEW n \in 0 .. MaxLen, NEW x, x = SetInput(w, b, n)
  PROVE  Fares(w, x, b, l, S)
<1>0. w.bev[b] \in Bev /\ w.bev[b].len \in [D -> Int] BY DEF Worlds, Bev
<1>1. PICK m : m = [w.bev[b].len EXCEPT !["R"] = n] OBVIOUS
<1>9. n \in Int BY Sizes
<1>2. m \in [D -> Int] /\ m["R"] = n /\ m["W"] = w.bev[b].len["W"]
  BY <1>0, <1>1, <1>9, Directions
<1>3. PICK v : v = [w.bev[b] EXCEPT !.len = m] OBVIOUS
<1>4. /\ v \in Bev /\ v.len = m /\ Else(w.bev[b], v) /\ v.enabled = w.bev[b].enabled
      /\ v.pend = w.bev[b].pend /\ v.high = w.bev[b].high /\ v.sock = w.bev[b].sock
      /\ v.connecting = w.bev[b].connecting /\ v.refused = w.bev[b].refused
      /\ v.st = w.bev[b].st /\ v.final = w.bev[b].final
  BY <1>0, <1>2, <1>3 DEF Bev, Else
<1>5. PICK y : y = [w EXCEPT !.bev[b] = v] OBVIOUS
<1>6. Puts(w, y, b, v) BY <1>4, <1>5, PutAside
<1>7. y \in Worlds /\ y.bev[b] = v /\ Aside(w, y, b) BY <1>6 DEF Puts, Aside
<1>8. SameTimer(w, y, b) BY <1>4, <1>6 DEF SameTimer, Puts
<1>10. \A d \in D : y.bev[b].len[d] \in 0 .. MaxLen
  BY <1>2, <1>4, <1>7, Directions DEF Good, Sized
<1>11. ASSUME w.bev[b].final = {}
       PROVE  Stands(y, l, b, S) /\ (y.bev[b].high = 0 => MarkHeld(y.bev[b]))
  <2>1. Firm(w, l, b, S) BY <1>11 DEF Good
  <2>2. Upheld(y, l, b, S) BY <1>4, <1>7, <1>8, <2>1, ElseUpheld DEF Firm, Stands
  <2>3. Waits(v) BY <1>2, <1>4, <2>1 DEF Firm, Stands, Waits, Else
  <2>4. Plain(v) BY <1>4, <2>1 DEF Firm, Stands, Plain
  <2>5. v.high = 0 => MarkHeld(v) BY <1>4, <2>1 DEF Firm, MarkHeld, Else
  <2> QED BY <1>7, <2>2, <2>3, <2>4, <2>5 DEF Stands
<1>12. x = WmCb(y, b) BY <1>1, <1>3, <1>5 DEF SetInput
<1>13. Marked(y, x, b) BY <1>7, <1>12, WmCbIs
<1> QED BY <1>7, <1>10, <1>11, <1>13, MarkedGood

\* bufferevent_setwatermark
Remarked(w, y, b, low, high) ==
  y = [w EXCEPT !.bev[b].low["R"] = low, !.bev[b].high = high]

LEMMA MarksGood ==
  ASSUME NEW w \in Worlds, NEW l, NEW S, Good(w, l, S), NEW b \in Bevs, w.bev[b].st = "live",
         NEW low \in Int, NEW high \in 0 .. MaxLen,
         NEW y, Remarked(w, y, b, low, high),
         NEW x, x = IF high = 0 THEN Unsuspend(y, b, "R", "WM") ELSE WmCb(y, b)
  PROVE  Fares(w, x, b, l, S)
<1>0. w.bev[b] \in Bev /\ w.bev[b].low \in [D -> Int] BY DEF Worlds, Bev
<1>1. PICK m : m = [w.bev[b].low EXCEPT !["R"] = low] OBVIOUS
<1>9. high \in Int BY Sizes
<1>2. m \in [D -> Int] BY <1>0, <1>1
<1>3. PICK v : v = [w.bev[b] EXCEPT !.low = m, !.high = high] OBVIOUS
<1>4. /\ v \in Bev /\ v.len = w.bev[b].len /\ Else(w.bev[b], v) /\ v.enabled = w.bev[b].enabled
      /\ v.pend = w.bev[b].pend /\ v.high = high /\ v.sock = w.bev[b].sock
      /\ v.connecting = w.bev[b].connecting /\ v.refused = w.bev[b].refused
      /\ v.st = w.bev[b].st /\ v.final = w.bev[b].final
  BY <1>0, <1>2, <1>3, <1>9 DEF Bev, Else
<1>5. y = [w EXCEPT !.bev[b] = v]
  <2>1. w.bev \in [Bevs -> Bev] BY DEF Worlds
  <2> QED BY <1>0, <1>1, <1>3, <2>1 DEF Worlds, Remarked
<1>6. Puts(w, y, b, v) BY <1>4, <1>5, PutAside
<1>7. y \in Worlds /\ y.bev[b] = v /\ Aside(w, y, b) BY <1>6 DEF Puts, Aside
<1>8. SameTimer(w, y, b) BY <1>4, <1>6 DEF SameTimer, Puts
<1>10. \A d \in D : y.bev[b].len[d] \in 0 .. MaxLen BY <1>4, <1>7 DEF Good, Sized
<1>11. ASSUME w.bev[b].final = {} PROVE  Stands(y, l, b, S)
  <2>1. Firm(w, l, b, S) BY <1>11 DEF Good
  <2>2. Upheld(y, l, b, S) BY <1>4, <1>7, <1>8, <2>1, ElseUpheld DEF Firm, Stands
  <2>3. Waits(v) BY <1>4, <2>1 DEF Firm, Stands, Waits, Else
  <2>4. Plain(v) BY <1>4, <2>1 DEF Firm, Stands, Plain
  <2> QED BY <1>7, <2>2, <2>3, <2>4 DEF Stands
<1>12. CASE high # 0
  <2>1. Marked(y, x, b) BY <1>7, <1>12, WmCbIs
  <2>2. y.bev[b].high # 0 BY <1>4, <1>7, <1>12
  <2> QED BY <1>7, <1>10, <1>11, <2>1, <2>2, MarkedGood
<1>13. CASE high = 0
  <2>1. x = Unsuspend(y, b, "R", "WM") /\ "R" \in D /\ "WM" \in Reasons
    BY <1>13, Directions DEF Reasons
  <2>2. Resumed(y, x, b, "R", "WM") BY <1>7, <2>1, UnsuspendIs
  <2>3. Differ(y.bev[b], x.bev[b], "WM") BY <1>7, <2>1, <2>2, SuspendsDiffer
  <2>4. Stirs(y, x, b) /\ SameTimer(y, x, b) BY <2>2 DEF Resumed
  <2>12. Aside(y, x, b) BY <2>4 DEF Stirs
  <2>5. Aside(w, x, b) BY <1>7, <2>12, AsideTwice
  <2>6. \A d \in D : x.bev[b].len[d] \in 0 .. MaxLen BY <1>10, <2>4 DEF Stirs, Still
  <2>7. y.bev[b].susp \in [D -> SUBSET Reasons] BY <1>4, <1>7 DEF Bev
  <2>8. "WM" \notin x.bev[b].susp["R"] BY <2>1, <2>2, <2>7 DEF Resumed
  <2>9. x.bev[b].high = 0 BY <1>4, <1>7, <1>13, <2>4 DEF Stirs, Still
  <2>10. MarkHeld(x.bev[b]) BY <2>8, <2>9 DEF MarkHeld
  <2>11. ASSUME w.bev[b].final = {} PROVE Firm(x, l, b, S)
    <3>1. y.bev[b].final = {} BY <1>4, <1>7, <2>11
    <3>2. Nearly(y, l, b, S, "WM") BY <1>11, <2>11 DEF Stands, Upheld, Nearly
    <3>3. Stands(x, l, b, S) BY <2>1, <2>3, <2>4, <3>1, <3>2, StirStands
    <3> QED BY <2>10, <3>3 DEF Firm
  <2> QED BY <2>5, <2>6, <2>11, AsideGood
<1> QED BY <1>12, <1>13

\* bufferevent_readcb finds the mark reached.
LEMMA ReachedGood ==
  ASSUME NEW w \in Worlds, NEW l, NEW S, Good(w, l, S), NEW b \in Bevs, w.bev[b].st = "live",
         w.bev[b].high # 0, w.bev[b].len["R"] >= w.bev[b].high,
         NEW x, x = Suspend(w, b, "R", "WM")
  PROVE  Fares(w, x, b, l, S)
<1>1. x = WmCb(w, b) BY DEF WmCb
<1>2. Marked(w, x, b) BY <1>1, WmCbIs
<1>3. Aside(w, w, b) BY DEF Aside
<1>4. \A d \in D : w.bev[b].len[d] \in 0 .. MaxLen BY DEF Good, Sized
<1>5. w.bev[b].final = {} => Firm(w, l, b, S) BY DEF Good
<1> QED BY <1>2, <1>3, <1>4, <1>5, MarkedGood DEF Firm

---------------------------------------------------------------------------
(* The group                                                               *)

LEMMA GroupedGood ==
  ASSUME NEW w \in Worlds, NEW l, NEW S, Good(w, l, S), NEW b \in Bevs,
         b \in w.grp.members, NEW d \in S \cap D, NEW x, x = Suspend(w, b, d, "GROUP")
  PROVE  Fares(w, x, b, l, S)
<1>0. w.bev[b].st = "live" /\ "GROUP" \in Reasons BY DEF Good, Reasons
<1>1. Suspends(w, x, b, d, "GROUP") BY <1>0, SuspendIs
<1>2. /\ Stirs(w, x, b) /\ SameTimer(w, x, b) /\ Aside(w, x, b)
      /\ x.bev[b].susp = [w.bev[b].susp EXCEPT ![d] = @ \cup {"GROUP"}]
  BY <1>1 DEF Suspends, Stirs
<1>3. Differ(w.bev[b], x.bev[b], "GROUP") BY <1>0, <1>1, SuspendsDiffer
<1>4. \A e \in D : x.bev[b].len[e] \in 0 .. MaxLen BY <1>2 DEF Good, Sized, Stirs, Still
<1>5. ASSUME w.bev[b].final = {} PROVE Firm(x, l, b, S)
  <2>1. Firm(w, l, b, S) BY <1>5 DEF Good
  <2>2. Nearly(w, l, b, S, "GROUP") BY <2>1 DEF Firm, Stands, Upheld, Nearly
  <2>3. Tied(x, b, S)
    <3>1. w.bev[b].susp \in [D -> SUBSET Reasons] BY DEF Worlds, Bev
    <3>2. \A e \in D : e # d => x.bev[b].susp[e] = w.bev[b].susp[e] BY <1>2, <3>1
    <3> QED BY <1>2, <2>1, <3>2 DEF Firm, Stands, Upheld, Tied, Aside
  <2> QED BY <1>0, <1>2, <1>3, <1>5, <2>1, <2>2, <2>3, StirStands DEF Firm
<1> QED BY <1>0, <1>2, <1>4, <1>5, AsideGood

LEMMA UngroupedGood ==
  ASSUME NEW w \in Worlds, NEW l, NEW S, Good(w, l, S), NEW b \in Bevs,
         w.bev[b].st = "live", NEW d \in D, NEW x, x = Unsuspend(w, b, d, "GROUP")
  PROVE  Fares(w, x, b, l, S) /\ "GROUP" \notin x.bev[b].susp[d]
<1>0. "GROUP" \in Reasons BY DEF Reasons
<1>1. Resumed(w, x, b, d, "GROUP") BY <1>0, UnsuspendIs
<1>2. /\ Stirs(w, x, b) /\ SameTimer(w, x, b) /\ Aside(w, x, b)
      /\ x.bev[b].susp = [w.bev[b].susp EXCEPT ![d] = @ \ {"GROUP"}]
  BY <1>1 DEF Resumed, Stirs
<1>3. Differ(w.bev[b], x.bev[b], "GROUP") BY <1>0, <1>1, SuspendsDiffer
<1>4. \A e \in D : x.bev[b].len[e] \in 0 .. MaxLen BY <1>2 DEF Good, Sized, Stirs, Still
<1>6. w.bev[b].susp \in [D -> SUBSET Reasons] BY DEF Worlds, Bev
<1>5. ASSUME w.bev[b].final = {} PROVE Firm(x, l, b, S)
  <2>1. Firm(w, l, b, S) BY <1>5 DEF Good
  <2>2. Nearly(w, l, b, S, "GROUP") BY <2>1 DEF Firm, Stands, Upheld, Nearly
  <2>3. Tied(x, b, S)
    <3>2. \A e \in D : x.bev[b].susp[e] \subseteq w.bev[b].susp[e] BY <1>2, <1>6
    <3> QED BY <1>2, <2>1, <3>2 DEF Firm, Stands, Upheld, Tied, Aside
  <2> QED BY <1>0, <1>2, <1>3, <1>5, <2>1, <2>2, <2>3, StirStands DEF Firm
<1>7. "GROUP" \notin x.bev[b].susp[d] BY <1>2, <1>6
<1> QED BY <1>2, <1>4, <1>5, <1>7, AsideGood

---------------------------------------------------------------------------
(* Bandwidth: an empty bucket suspends, and a refill is going to come      *)

LEMMA TheOther ==
  ASSUME NEW d \in D
  PROVE  Other(d) \in D /\ Other(d) # d /\ \A e \in D : e = d \/ e = Other(d)
<1>1. D \ {d} # {} BY Directions
<1>2. \E e \in D : e # d BY <1>1
<1>3. Other(d) \in D /\ Other(d) # d BY <1>2 DEF Other
<1> QED BY <1>3, Directions

\* A refill does not empty a bucket.
LEMMA RefilledMore ==
  ASSUME NEW m \in Int, m > 0, NEW top \in Int, top >= Rate, NEW n \in Nat
  PROVE  Refilled(m, top, n) > 0
<1>1. Rate \in Nat \ {0} BY Sizes
<1>2. CASE n = 0 BY <1>2 DEF Refilled
<1>3. CASE n # 0
  <2>1. PICK k : k = n * Rate OBVIOUS
  <2>2. k \in Nat BY <1>1, <2>1
  <2>3. m + k > 0 /\ top > 0 BY <1>1, <2>2
  <2> QED BY <1>3, <2>1, <2>3 DEF Refilled
<1> QED BY <1>2, <1>3

LEMMA DifferTwice ==
  ASSUME NEW u, NEW v, NEW t, NEW why, Differ(u, v, why), Differ(v, t, why)
  PROVE  Differ(u, t, why)
BY DEF Differ

\* All but the limit is as it was.
Relimited(u, v) ==
  /\ v.cbs = u.cbs /\ v.tell = u.tell /\ v.susp = u.susp /\ v.enabled = u.enabled
  /\ v.pend = u.pend /\ v.len = u.len /\ v.high = u.high /\ v.sock = u.sock
  /\ v.connecting = u.connecting /\ v.refused = u.refused

\* The limit has changed, and what it suspends has followed.
LEMMA LimitGood ==
  ASSUME NEW w, NEW l, NEW S, Good(w, l, S), NEW b \in Bevs, w.bev[b].st = "live",
         NEW y, NEW v, Puts(w, y, b, v), Relimited(w.bev[b], v),
         NEW x, Stirs(y, x, b), Differ(v, x.bev[b], "BW"),
         w.bev[b].final = {} => Capped(x.bev[b]) /\ Backed(x, l, b)
  PROVE  Fares(w, x, b, l, S)
<1>1. Aside(w, y, b) /\ y.bev[b] = v /\ y.queue = w.queue /\ y.grp = w.grp BY DEF Puts, Aside
<1>2. Aside(w, x, b) BY <1>1, AsideTwice DEF Stirs
<1>3. \A d \in D : x.bev[b].len[d] \in 0 .. MaxLen
  BY <1>1 DEF Good, Sized, Stirs, Still, Relimited
<1>4. ASSUME w.bev[b].final = {} PROVE Firm(x, l, b, S)
  <2>1. Firm(w, l, b, S) BY <1>4 DEF Good
  <2>2. v.final = {} BY <1>1, <1>4 DEF Aside
  <2>3. Waits(v) /\ Plain(v) /\ MarkHeld(v)
    BY <2>1 DEF Firm, Stands, Relimited, Waits, Plain, MarkHeld
  <2>4. Owed(y, l, b) BY <1>1, <2>1 DEF Firm, Stands, Upheld, Owed, Relimited, Deferred
  <2>5. Tied(y, b, S) BY <1>1, <2>1 DEF Firm, Stands, Upheld, Tied, Relimited
  <2>6. Nearly(y, l, b, S, "BW") BY <1>1, <2>3, <2>4, <2>5 DEF Nearly
  <2>7. "BW" \in Reasons BY DEF Reasons
  <2> QED BY <1>1, <1>4, <2>2, <2>3, <2>6, <2>7, StirStands DEF Firm
<1> QED BY <1>2, <1>3, <1>4, AsideGood

LEMMA StirsSelf ==
  ASSUME NEW w \in Worlds, NEW b, NEW why
  PROVE  Stirs(w, w, b) /\ Differ(w.bev[b], w.bev[b], why)
BY DEF Stirs, Aside, Still, Differ

LEMMA BucketsGood ==
  ASSUME NEW w \in Worlds, NEW l, NEW S, Good(w, l, S), NEW b \in Bevs, w.bev[b].st = "live",
         w.bev[b].cfg # NoCfg, NEW x, x = UpdateBuckets(w, b)
  PROVE  Fares(w, x, b, l, S)
<1>0. w.bev[b] \in Bev BY DEF Worlds
<1>1. /\ w.bev[b].cfg \in Cfgs /\ w.bev[b].owed \in Nat
      /\ \A d \in D : w.bev[b].limit[d] \in Int
  BY <1>0 DEF Bev
<1>2. PICK top : top = Burst[w.bev[b].cfg] OBVIOUS
<1>3. top \in Int /\ top >= Rate BY <1>1, <1>2, EvBevAssumption DEF EvBevAssumption
<1>4. PICK m : m = [d \in D |-> Refilled(w.bev[b].limit[d], top, w.bev[b].owed)] OBVIOUS
<1>5. \A d \in D : m[d] \in Int /\ (w.bev[b].limit[d] > 0 => m[d] > 0)
  BY <1>1, <1>3, <1>4, RefilledType, RefilledMore
<1>6. m \in [D -> Int] BY <1>4, <1>5
<1>7. PICK v : v = [w.bev[b] EXCEPT !.limit = m, !.owed = 0] OBVIOUS
<1>8. /\ v \in Bev /\ Relimited(w.bev[b], v) /\ v.limit = m /\ v.cfg = w.bev[b].cfg
      /\ v.st = w.bev[b].st /\ v.final = w.bev[b].final
  BY <1>0, <1>6, <1>7 DEF Bev, Relimited
<1>9. x = [w EXCEPT !.bev[b] = v] BY <1>2, <1>4, <1>7 DEF UpdateBuckets
<1>10. Puts(w, x, b, v) BY <1>8, <1>9, PutAside
<1>11. x.bev[b] = v /\ x \in Worlds /\ x.queue = w.queue BY <1>10 DEF Puts, Aside
<1>12. ASSUME w.bev[b].final = {} PROVE Capped(v) /\ Backed(x, l, b)
  <2>1. Capped(w.bev[b]) /\ Backed(w, l, b) BY <1>12 DEF Good, Firm, Stands, Upheld
  <2>2. \A d \in D : v.limit[d] <= 0 => w.bev[b].limit[d] <= 0 BY <1>1, <1>5, <1>8
  <2>3. Capped(v) BY <1>8, <2>1, <2>2 DEF Capped, Relimited
  <2>4. Backed(x, l, b) BY <1>8, <1>11, <2>1 DEF Backed, Timed, Relimited
  <2> QED BY <2>3, <2>4
<1>13. Stirs(x, x, b) /\ Differ(v, x.bev[b], "BW") BY <1>11, StirsSelf
<1> QED BY <1>8, <1>10, <1>11, <1>12, <1>13, LimitGood

\* Bytes are counted, or given back.
Used(w, y, b, d, n) ==
  /\ Puts(w, y, b, y.bev[b]) /\ Relimited(w.bev[b], y.bev[b]) /\ y.bev[b].cfg = w.bev[b].cfg
  /\ y.bev[b].limit[d] = w.bev[b].limit[d] - n
  /\ \A e \in D \ {d} : y.bev[b].limit[e] = w.bev[b].limit[e]

LEMMA UsedIs ==
  ASSUME NEW w \in Worlds, NEW b \in Bevs, NEW d \in D, NEW n \in Int,
         NEW y, y = [w EXCEPT !.bev[b].limit[d] = @ - n]
  PROVE  Used(w, y, b, d, n)
<1>0. w.bev[b] \in Bev /\ w.bev[b].limit \in [D -> Int] BY DEF Worlds, Bev
<1>1. PICK m : m = [w.bev[b].limit EXCEPT ![d] = @ - n] OBVIOUS
<1>2. /\ m \in [D -> Int] /\ m[d] = w.bev[b].limit[d] - n
      /\ \A e \in D \ {d} : m[e] = w.bev[b].limit[e]
  BY <1>0, <1>1
<1>3. PICK v : v = [w.bev[b] EXCEPT !.limit = m] OBVIOUS
<1>4. /\ v \in Bev /\ Relimited(w.bev[b], v) /\ v.limit = m /\ v.cfg = w.bev[b].cfg
      /\ v.st = w.bev[b].st /\ v.final = w.bev[b].final
  BY <1>0, <1>2, <1>3 DEF Bev, Relimited
<1>5. y = [w EXCEPT !.bev[b] = v] BY <1>1, <1>3
<1>6. Puts(w, y, b, v) BY <1>4, <1>5, PutAside
<1> QED BY <1>2, <1>4, <1>6 DEF Used, Puts

\* The bucket is empty: the direction is suspended until the refill.
LEMMA EmptyGood ==
  ASSUME NEW w \in Worlds, NEW l, NEW S, Good(w, l, S), NEW b \in Bevs, w.bev[b].st = "live",
         w.bev[b].cfg # NoCfg, NEW d \in D, NEW n \in Int,
         NEW y, y = [w EXCEPT !.bev[b].limit[d] = @ - n],
         NEW x, x = Add(Suspend(y, b, d, "BW"), b, "T")
  PROVE  Fares(w, x, b, l, S)
<1>1. Used(w, y, b, d, n) BY UsedIs
<1>2. y \in Worlds /\ Puts(w, y, b, y.bev[b]) /\ Relimited(w.bev[b], y.bev[b])
  BY <1>1 DEF Used, Puts, Aside
<1>3. y.bev[b].susp \in [D -> SUBSET Reasons] BY <1>2 DEF Worlds, Bev
<1>4. PICK z : z = Suspend(y, b, d, "BW") OBVIOUS
<1>5. "BW" \in Reasons BY DEF Reasons
<1>6. Suspends(y, z, b, d, "BW") BY <1>2, <1>4, <1>5, SuspendIs
<1>7. Differ(y.bev[b], z.bev[b], "BW") BY <1>2, <1>6, SuspendsDiffer
<1>8. Stirs(y, z, b) /\ z \in Worlds /\ z.bev[b].final = w.bev[b].final
  BY <1>2, <1>6 DEF Suspends, Stirs, Aside, Puts
<1>9. /\ Stirs(z, x, b) /\ x.bev[b].susp = z.bev[b].susp
      /\ z.bev[b].final = {} => "T" \in x.bev[b].pend
  BY <1>4, <1>8, TimerStirs
<1>10. Stirs(y, x, b) BY <1>8, <1>9, StirsTwice
<1>11. Differ(y.bev[b], x.bev[b], "BW") BY <1>7, <1>9 DEF Differ
<1>12. ASSUME w.bev[b].final = {} PROVE Capped(x.bev[b]) /\ Backed(x, l, b)
  <2>1. Capped(w.bev[b]) BY <1>12 DEF Good, Firm, Stands, Upheld
  <2>2. /\ "BW" \in x.bev[b].susp[d]
        /\ \A e \in D \ {d} : x.bev[b].susp[e] = w.bev[b].susp[e]
    BY <1>2, <1>3, <1>6, <1>9 DEF Suspends, Relimited
  <2>3. x.bev[b].cfg = w.bev[b].cfg /\ \A e \in D \ {d} : x.bev[b].limit[e] = w.bev[b].limit[e]
    BY <1>1, <1>10 DEF Used, Stirs, Still
  <2>4. Capped(x.bev[b]) BY <2>1, <2>2, <2>3 DEF Capped
  <2>5. Timed(x, l, b) BY <1>8, <1>9, <1>12 DEF Timed
  <2> QED BY <2>3, <2>4, <2>5 DEF Backed
<1> QED BY <1>2, <1>10, <1>11, <1>12, LimitGood

\* It is not, or no longer: the direction goes on, and without the refill unless
\* the other one waits for it.
LEMMA PartGood ==
  ASSUME NEW w \in Worlds, NEW l, NEW S, Good(w, l, S), NEW b \in Bevs, w.bev[b].st = "live",
         w.bev[b].cfg # NoCfg, NEW d \in D, NEW n \in Int, w.bev[b].limit[d] - n > 0,
         NEW y, y = [w EXCEPT !.bev[b].limit[d] = @ - n],
         NEW z, z = IF "BW" \in w.bev[b].susp[Other(d)] THEN y ELSE Del(y, b, "T"),
         NEW x, x = Unsuspend(z, b, d, "BW")
  PROVE  Fares(w, x, b, l, S)
<1>1. Used(w, y, b, d, n) BY UsedIs
<1>2. /\ y \in Worlds /\ Puts(w, y, b, y.bev[b]) /\ Relimited(w.bev[b], y.bev[b])
      /\ y.queue = w.queue
  BY <1>1 DEF Used, Puts, Aside
<1>3. y.bev[b].susp \in [D -> SUBSET Reasons] BY <1>2 DEF Worlds, Bev
<1>4. Stirs(y, z, b) /\ z.bev[b].susp = y.bev[b].susp
  BY <1>2, TimerStirs, StirsSelf
<1>5. z \in Worlds BY <1>4 DEF Stirs, Aside
<1>6. Resumed(z, x, b, d, "BW") BY <1>5, UnsuspendIs
<1>7. Differ(y.bev[b], x.bev[b], "BW")
  <2>1. Differ(z.bev[b], x.bev[b], "BW") BY <1>5, <1>6, SuspendsDiffer
  <2> QED BY <1>4, <2>1 DEF Differ
<1>8. Stirs(y, x, b) BY <1>4, <1>6, StirsTwice DEF Resumed
<1>12. ASSUME w.bev[b].final = {} PROVE Capped(x.bev[b]) /\ Backed(x, l, b)
  <2>1. Capped(w.bev[b]) /\ Backed(w, l, b) BY <1>12 DEF Good, Firm, Stands, Upheld
  <2>10. PICK s : s = w.bev[b].susp OBVIOUS
  <2>13. s = y.bev[b].susp BY <1>2, <2>10 DEF Relimited
  <2>14. s = z.bev[b].susp BY <1>4, <2>13
  <2>15. x.bev[b].susp = [z.bev[b].susp EXCEPT ![d] = @ \ {"BW"}] BY <1>6 DEF Resumed
  <2>11. s \in [D -> SUBSET Reasons] /\ x.bev[b].susp = [s EXCEPT ![d] = @ \ {"BW"}]
    BY <1>3, <2>13, <2>14, <2>15
  <2>2. /\ "BW" \notin x.bev[b].susp[d]
        /\ \A e \in D \ {d} : x.bev[b].susp[e] = w.bev[b].susp[e]
    BY <2>10, <2>11
  <2>3. /\ x.bev[b].cfg = w.bev[b].cfg /\ x.bev[b].limit[d] = w.bev[b].limit[d] - n
        /\ \A e \in D \ {d} : x.bev[b].limit[e] = w.bev[b].limit[e]
    BY <1>1, <1>8 DEF Used, Stirs, Still
  <2>12. w.bev[b].limit[d] \in Int BY DEF Worlds, Bev
  <2>16. PICK k : k = w.bev[b].limit[d] - n OBVIOUS
  <2>17. k \in Int /\ k > 0 BY <2>12, <2>16
  <2>18. x.bev[b].limit[d] = k BY <2>3, <2>16
  <2>19. ~(k <= 0) BY <2>17
  <2>9. ~(x.bev[b].limit[d] <= 0) BY <2>18, <2>19, Zenon
  <2>4. Capped(x.bev[b])
    <3> SUFFICES ASSUME NEW e \in D, x.bev[b].cfg # NoCfg, x.bev[b].limit[e] <= 0
                 PROVE  "BW" \in x.bev[b].susp[e]
      BY DEF Capped
    <3>1. e # d BY <2>9
    <3>2. w.bev[b].limit[e] <= 0 /\ w.bev[b].cfg # NoCfg BY <2>3, <3>1
    <3>3. "BW" \in w.bev[b].susp[e] BY <2>1, <3>2 DEF Capped
    <3> QED BY <2>2, <3>1, <3>3
  <2>5. Backed(x, l, b)
    <3>1. CASE "BW" \in w.bev[b].susp[Other(d)]
      <4>1. Timed(w, l, b) BY <2>1, <3>1, TheOther DEF Backed
      <4>2. SameTimer(z, x, b) /\ z = y BY <1>6, <3>1 DEF Resumed
      <4>3. Timed(y, l, b) BY <1>2, <4>1 DEF Timed, Relimited
      <4>4. Timed(x, l, b) BY <4>2, <4>3 DEF Timed, SameTimer
      <4> QED BY <2>3, <4>4 DEF Backed
    <3>2. CASE "BW" \notin w.bev[b].susp[Other(d)]
      <4>1. \A e \in D : "BW" \notin x.bev[b].susp[e] BY <2>2, <3>2, TheOther
      <4> QED BY <4>1 DEF Backed
    <3> QED BY <3>1, <3>2
  <2> QED BY <2>4, <2>5
<1> QED BY <1>2, <1>7, <1>8, <1>12, LimitGood

\* It was not, and is not.
LEMMA SomeGood ==
  ASSUME NEW w \in Worlds, NEW l, NEW S, Good(w, l, S), NEW b \in Bevs, w.bev[b].st = "live",
         NEW d \in D, NEW n \in Int, w.bev[b].limit[d] - n > 0,
         NEW x, x = [w EXCEPT !.bev[b].limit[d] = @ - n]
  PROVE  Fares(w, x, b, l, S)
<1>1. Used(w, x, b, d, n) BY UsedIs
<1>2. /\ x \in Worlds /\ Puts(w, x, b, x.bev[b]) /\ Relimited(w.bev[b], x.bev[b])
      /\ x.queue = w.queue
  BY <1>1 DEF Used, Puts, Aside
<1>3. Stirs(x, x, b) /\ Differ(x.bev[b], x.bev[b], "BW") BY <1>2, StirsSelf
<1>4. ASSUME w.bev[b].final = {} PROVE Capped(x.bev[b]) /\ Backed(x, l, b)
  <2>1. Capped(w.bev[b]) /\ Backed(w, l, b) BY <1>4 DEF Good, Firm, Stands, Upheld
  <2>2. w.bev[b].limit[d] \in Int BY DEF Worlds, Bev
  <2>3. Capped(x.bev[b]) BY <1>1, <2>1, <2>2 DEF Capped, Used, Relimited
  <2>4. Backed(x, l, b) BY <1>1, <1>2, <2>1 DEF Backed, Timed, Used, Relimited
  <2> QED BY <2>3, <2>4
<1> QED BY <1>2, <1>3, <1>4, LimitGood

\* It was, and is: what it suspends stays so.
LEMMA NoneGood ==
  ASSUME NEW w \in Worlds, NEW l, NEW S, Good(w, l, S), NEW b \in Bevs, w.bev[b].st = "live",
         NEW d \in D, NEW n \in Int, w.bev[b].limit[d] <= 0,
         NEW x, x = [w EXCEPT !.bev[b].limit[d] = @ - n]
  PROVE  Fares(w, x, b, l, S)
<1>1. Used(w, x, b, d, n) BY UsedIs
<1>2. /\ x \in Worlds /\ Puts(w, x, b, x.bev[b]) /\ Relimited(w.bev[b], x.bev[b])
      /\ x.queue = w.queue
  BY <1>1 DEF Used, Puts, Aside
<1>3. Stirs(x, x, b) /\ Differ(x.bev[b], x.bev[b], "BW") BY <1>2, StirsSelf
<1>4. ASSUME w.bev[b].final = {} PROVE Capped(x.bev[b]) /\ Backed(x, l, b)
  <2>1. Capped(w.bev[b]) /\ Backed(w, l, b) BY <1>4 DEF Good, Firm, Stands, Upheld
  <2>2. Capped(x.bev[b]) BY <1>1, <2>1 DEF Capped, Used, Relimited
  <2>3. Backed(x, l, b) BY <1>1, <1>2, <2>1 DEF Backed, Timed, Used, Relimited
  <2> QED BY <2>2, <2>3
<1> QED BY <1>2, <1>3, <1>4, LimitGood

\* bufferevent_decrement_read_buckets_, but for the group
LEMMA SpendOwnGood ==
  ASSUME NEW w \in Worlds, NEW l, NEW S, Good(w, l, S), NEW b \in Bevs, w.bev[b].st = "live",
         NEW d \in D, NEW n \in Int, NEW used, used = [w EXCEPT !.bev[b].limit[d] = @ - n],
         NEW x,
         x = CASE w.bev[b].cfg = NoCfg -> w
               [] w.bev[b].cfg # NoCfg /\ w.bev[b].limit[d] - n <= 0 ->
                    Add(Suspend(used, b, d, "BW"), b, "T")
               [] w.bev[b].cfg # NoCfg /\ w.bev[b].limit[d] - n > 0 /\ "BW" \in w.bev[b].susp[d] ->
                    Unsuspend(IF "BW" \in w.bev[b].susp[Other(d)] THEN used ELSE Del(used, b, "T"),
                              b, d, "BW")
               [] OTHER -> used
  PROVE  Fares(w, x, b, l, S)
<1>1. w.bev[b].limit[d] \in Int BY DEF Worlds, Bev
<1>2. /\ w.bev[b].limit[d] - n <= 0 => ~(w.bev[b].limit[d] - n > 0)
      /\ w.bev[b].limit[d] - n > 0 => ~(w.bev[b].limit[d] - n <= 0)
      /\ ~(w.bev[b].limit[d] - n <= 0) => w.bev[b].limit[d] - n > 0
  BY <1>1
<1>3. CASE w.bev[b].cfg = NoCfg BY <1>3, NothingGood
<1>4. CASE w.bev[b].cfg # NoCfg /\ w.bev[b].limit[d] - n <= 0
  <2>1. x = Add(Suspend(used, b, d, "BW"), b, "T") BY <1>2, <1>4
  <2> QED BY <1>4, <2>1, EmptyGood
<1>5. CASE w.bev[b].cfg # NoCfg /\ w.bev[b].limit[d] - n > 0 /\ "BW" \in w.bev[b].susp[d]
  <2>1. PICK z : z = IF "BW" \in w.bev[b].susp[Other(d)] THEN used ELSE Del(used, b, "T") OBVIOUS
  <2>2. x = Unsuspend(z, b, d, "BW") BY <1>2, <1>5, <2>1
  <2> QED BY <1>5, <2>1, <2>2, PartGood
<1>6. CASE w.bev[b].cfg # NoCfg /\ ~(w.bev[b].limit[d] - n <= 0) /\ "BW" \notin w.bev[b].susp[d]
  <2>1. x = used /\ w.bev[b].limit[d] - n > 0 BY <1>2, <1>6
  <2> QED BY <2>1, SomeGood
<1> QED BY <1>2, <1>3, <1>4, <1>5, <1>6

\* A bucket that is not empty: the direction goes on.
LEMMA ResumeGood ==
  ASSUME NEW w \in Worlds, NEW l, NEW S, Good(w, l, S), NEW b \in Bevs, w.bev[b].st = "live",
         NEW d \in D, w.bev[b].limit[d] > 0, NEW x, x = Unsuspend(w, b, d, "BW")
  PROVE  Fares(w, x, b, l, S) /\ x.bev[b].limit = w.bev[b].limit
<1>0. w.bev[b] \in Bev /\ w.bev[b].susp \in [D -> SUBSET Reasons] BY DEF Worlds, Bev
<1>1. Resumed(w, x, b, d, "BW") BY UnsuspendIs
<1>2. Stirs(w, x, b) /\ SameTimer(w, x, b) /\ Still(w.bev[b], x.bev[b])
  BY <1>1 DEF Resumed, Stirs
<1>3. Differ(w.bev[b], x.bev[b], "BW") BY <1>1, SuspendsDiffer
<1>4. \A e \in D : x.bev[b].susp[e] = IF e = d THEN w.bev[b].susp[d] \ {"BW"} ELSE w.bev[b].susp[e]
  BY <1>0, <1>1 DEF Resumed
<1>5. ASSUME w.bev[b].final = {} PROVE Capped(x.bev[b]) /\ Backed(x, l, b)
  <2>1. Capped(w.bev[b]) /\ Backed(w, l, b) BY <1>5 DEF Good, Firm, Stands, Upheld
  <2>2. w.bev[b].limit[d] \in Int BY <1>0 DEF Bev
  <2>3. ~(w.bev[b].limit[d] <= 0) BY <2>2
  <2>4. Capped(x.bev[b]) BY <1>2, <1>4, <2>1, <2>3 DEF Capped, Still
  <2>5. Timed(w, l, b) => Timed(x, l, b) BY <1>2 DEF Timed, SameTimer
  <2>6. \A e \in D : "BW" \in x.bev[b].susp[e] => "BW" \in w.bev[b].susp[e] BY <1>4
  <2>7. Backed(x, l, b) BY <1>2, <2>1, <2>5, <2>6 DEF Backed, Still
  <2> QED BY <2>4, <2>7
<1>6. Puts(w, w, b, w.bev[b]) /\ Relimited(w.bev[b], w.bev[b]) BY DEF Puts, Aside, Relimited
<1>7. Fares(w, x, b, l, S) BY <1>2, <1>3, <1>5, <1>6, LimitGood
<1> QED BY <1>2, <1>7 DEF Still

LEMMA AskRefillGood ==
  ASSUME NEW w \in Worlds, NEW l, NEW S, Good(w, l, S), NEW b \in Bevs, w.bev[b].st = "live",
         NEW x, x = Add(w, b, "T")
  PROVE  Fares(w, x, b, l, S) /\ (w.bev[b].final = {} => "T" \in x.bev[b].pend)
<1>1. /\ Stirs(w, x, b) /\ x.bev[b].susp = w.bev[b].susp
      /\ w.bev[b].final = {} => "T" \in x.bev[b].pend
  BY TimerStirs
<1>2. Differ(w.bev[b], x.bev[b], "BW") /\ Still(w.bev[b], x.bev[b]) BY <1>1 DEF Differ, Stirs
<1>3. ASSUME w.bev[b].final = {} PROVE Capped(x.bev[b]) /\ Backed(x, l, b)
  <2>1. Capped(w.bev[b]) /\ Backed(w, l, b) BY <1>3 DEF Good, Firm, Stands, Upheld
  <2> QED BY <1>1, <1>2, <1>3, <2>1 DEF Capped, Backed, Timed, Still
<1>4. Puts(w, w, b, w.bev[b]) /\ Relimited(w.bev[b], w.bev[b]) BY DEF Puts, Aside, Relimited
<1>5. Fares(w, x, b, l, S) BY <1>1, <1>2, <1>3, <1>4, LimitGood
<1> QED BY <1>1, <1>5

\* bev_refill_callback_: what it leaves suspended it has asked a refill for.
Waited(w, b) ==
  w.bev[b].final = {} /\ (\E d \in D : "BW" \in w.bev[b].susp[d]) => "T" \in w.bev[b].pend

LEMMA RefillGood ==
  ASSUME NEW w \in Worlds, NEW l, NEW S, Good(w, l, S), NEW b \in Bevs, w.bev[b].st = "live",
         NEW x, x = IF w.bev[b].cfg = NoCfg THEN w ELSE RefillOf(UpdateBuckets(w, b), b)
  PROVE  Fares(w, x, b, l, S) /\ Waited(x, b)
<1>1. CASE w.bev[b].cfg = NoCfg
  <2>1. x = w BY <1>1
  <2>2. ASSUME w.bev[b].final = {} PROVE \A d \in D : "BW" \notin w.bev[b].susp[d]
    BY <1>1, <2>2 DEF Good, Firm, Stands, Upheld, Backed
  <2> QED BY <2>1, <2>2, NothingGood DEF Waited
<1>2. CASE w.bev[b].cfg # NoCfg
  <2>1. PICK u : u = UpdateBuckets(w, b) OBVIOUS
  <2>2. Fares(w, u, b, l, S) BY <1>2, <2>1, BucketsGood
  <2>3. u \in Worlds /\ Good(u, l, S) /\ u.bev[b].st = "live" BY <2>2, FaresOn
  <2>4. PICK ds : ds = {d \in D : "BW" \in u.bev[b].susp[d] /\ u.bev[b].limit[d] > 0} OBVIOUS
  <2>5. PICK y : y = UnsuspendAll(u, b, ds, "BW") OBVIOUS
  <2>6. PICK r : r = IF "R" \in ds THEN Unsuspend(u, b, "R", "BW") ELSE u OBVIOUS
  <2>7. Fares(u, r, b, l, S) /\ r.bev[b].limit = u.bev[b].limit
    BY <2>3, <2>4, <2>6, ResumeGood, NothingGood
  <2>8. r \in Worlds /\ Good(r, l, S) /\ r.bev[b].st = "live" BY <2>3, <2>7, FaresOn
  <2>9. y = IF "W" \in ds THEN Unsuspend(r, b, "W", "BW") ELSE r
    BY <2>5, <2>6 DEF UnsuspendAll, InTurn
  <2>10. Fares(r, y, b, l, S) BY <2>4, <2>7, <2>8, <2>9, ResumeGood, NothingGood
  <2>11. y \in Worlds /\ Good(y, l, S) /\ y.bev[b].st = "live" BY <2>8, <2>10, FaresOn
  <2>12. x = IF \E d \in D : "BW" \in y.bev[b].susp[d] THEN Add(y, b, "T") ELSE y
    BY <1>2, <2>1, <2>4, <2>5 DEF RefillOf
  <2>13. Fares(y, x, b, l, S) /\ Waited(x, b)
    <3>1. CASE \E d \in D : "BW" \in y.bev[b].susp[d]
      <4>1. x = Add(y, b, "T") BY <2>12, <3>1
      <4>2. Fares(y, x, b, l, S) /\ (y.bev[b].final = {} => "T" \in x.bev[b].pend)
        BY <2>11, <4>1, AskRefillGood
      <4> QED BY <4>2 DEF Waited, Fares, Aside
    <3>2. CASE ~\E d \in D : "BW" \in y.bev[b].susp[d]
      <4>1. x = y BY <2>12, <3>2
      <4> QED BY <2>11, <3>2, <4>1, NothingGood DEF Waited
    <3> QED BY <3>1, <3>2
  <2>14. Fares(w, r, b, l, S) BY <2>2, <2>7, FaresTwice
  <2>15. Fares(w, y, b, l, S) BY <2>10, <2>14, FaresTwice
  <2> QED BY <2>13, <2>15, FaresTwice
<1> QED BY <1>1, <1>2

\* The bandwidth suspends one direction, or does not.
Settled(w, x, b, d, p) ==
  /\ Stirs(w, x, b) /\ Differ(w.bev[b], x.bev[b], "BW")
  /\ "BW" \in x.bev[b].susp[d] <=> ~p
  /\ \A e \in D \ {d} : x.bev[b].susp[e] = w.bev[b].susp[e]

LEMMA SettleOne ==
  ASSUME NEW w \in Worlds, NEW b \in Bevs, NEW d \in D, NEW p \in BOOLEAN,
         NEW x, x = IF p THEN Unsuspend(w, b, d, "BW") ELSE Suspend(w, b, d, "BW")
  PROVE  Settled(w, x, b, d, p)
<1>1. "BW" \in Reasons BY DEF Reasons
<1>2. w.bev[b].susp \in [D -> SUBSET Reasons] BY DEF Worlds, Bev
<1>3. CASE p
  <2>1. Resumed(w, x, b, d, "BW") BY <1>3, UnsuspendIs
  <2>2. Differ(w.bev[b], x.bev[b], "BW") BY <2>1, SuspendsDiffer
  <2>3. x.bev[b].susp = [w.bev[b].susp EXCEPT ![d] = @ \ {"BW"}] BY <2>1 DEF Resumed
  <2>4. /\ "BW" \notin x.bev[b].susp[d]
        /\ \A e \in D \ {d} : x.bev[b].susp[e] = w.bev[b].susp[e]
    BY <1>2, <2>3
  <2> QED BY <1>3, <2>1, <2>2, <2>4 DEF Settled, Resumed
<1>4. CASE ~p
  <2>1. Suspends(w, x, b, d, "BW") BY <1>1, <1>4, SuspendIs
  <2>2. Differ(w.bev[b], x.bev[b], "BW") BY <2>1, SuspendsDiffer
  <2>3. x.bev[b].susp = [w.bev[b].susp EXCEPT ![d] = @ \cup {"BW"}] BY <2>1 DEF Suspends
  <2>4. /\ "BW" \in x.bev[b].susp[d]
        /\ \A e \in D \ {d} : x.bev[b].susp[e] = w.bev[b].susp[e]
    BY <1>2, <2>3
  <2> QED BY <1>4, <2>1, <2>2, <2>4 DEF Settled, Suspends
<1> QED BY <1>3, <1>4

LEMMA WithCfgIs ==
  ASSUME NEW w \in Worlds, NEW b \in Bevs, NEW c \in Cfgs, NEW y, y = WithCfg(w, b, c)
  PROVE  Puts(w, y, b, y.bev[b]) /\ Relimited(w.bev[b], y.bev[b]) /\ y.bev[b].cfg = c
<1>0. w.bev[b] \in Bev /\ w.bev[b].limit \in [D -> Int] /\ w.bev[b].owed \in Nat
  BY DEF Worlds, Bev
<1>1. PICK m, o :
        /\ m = [d \in D |-> IF w.bev[b].cfg = NoCfg THEN Rate ELSE Least(w.bev[b].limit[d], Burst[c])]
        /\ o = IF w.bev[b].cfg = NoCfg THEN 0 ELSE w.bev[b].owed
  OBVIOUS
<1>2. Burst[c] \in Int /\ Rate \in Int BY Sizes
<1>3. \A d \in D : m[d] \in Int BY <1>0, <1>1, <1>2 DEF Least
<1>4. m \in [D -> Int] /\ o \in Nat BY <1>0, <1>1, <1>3
<1>5. PICK v : v = [w.bev[b] EXCEPT !.cfg = c, !.owed = o, !.limit = m] OBVIOUS
<1>6. v \in Bev /\ Relimited(w.bev[b], v) /\ v.cfg = c
  BY <1>0, <1>4, <1>5 DEF Bev, Relimited
<1>9. v.st = w.bev[b].st /\ v.final = w.bev[b].final BY <1>0, <1>5 DEF Bev
<1>7. y = [w EXCEPT !.bev[b] = v]
  <2>1. w.bev \in [Bevs -> Bev] BY DEF Worlds
  <2>2. y.bev = [w.bev EXCEPT ![b] = v]
    BY <1>0, <1>1, <1>5, <2>1 DEF WithCfg, Worlds
  <2> QED BY <2>1, <2>2 DEF WithCfg, Worlds
<1>8. Puts(w, y, b, v) BY <1>6, <1>7, <1>9, PutAside
<1> QED BY <1>6, <1>8 DEF Puts

\* bufferevent_set_rate_limit
LEMMA RateLimitGood ==
  ASSUME NEW w \in Worlds, NEW l, NEW S, Good(w, l, S), NEW b \in Bevs, w.bev[b].st = "live",
         NEW c \in Cfgs, NEW y, y = WithCfg(w, b, c), NEW s, s = Settle(y, b),
         NEW x, x = IF \E d \in D : y.bev[b].limit[d] <= 0 THEN Add(s, b, "T") ELSE s
  PROVE  Fares(w, x, b, l, S)
<1>1. Puts(w, y, b, y.bev[b]) /\ Relimited(w.bev[b], y.bev[b]) /\ y.bev[b].cfg = c BY WithCfgIs
<1>2. y \in Worlds /\ c # NoCfg BY <1>1, Sizes DEF Puts, Aside
<1>3. PICK z : z = Del(y, b, "T") OBVIOUS
<1>4. Stirs(y, z, b) /\ z.bev[b].susp = y.bev[b].susp BY <1>2, <1>3, TimerStirs
<1>5. z \in Worlds BY <1>4 DEF Stirs, Aside
<1>6. PICK full : full = [d \in D |-> y.bev[b].limit[d] > 0] OBVIOUS
<1>7. full["R"] \in BOOLEAN /\ full["W"] \in BOOLEAN BY <1>6, Directions
<1>8. PICK r : r = IF full["R"] THEN Unsuspend(z, b, "R", "BW") ELSE Suspend(z, b, "R", "BW")
  OBVIOUS
<1>9. Settled(z, r, b, "R", full["R"]) BY <1>5, <1>7, <1>8, SettleOne, Directions
<1>10. r \in Worlds BY <1>9 DEF Settled, Stirs, Aside
<1>11. s = IF full["W"] THEN Unsuspend(r, b, "W", "BW") ELSE Suspend(r, b, "W", "BW")
  BY <1>3, <1>6, <1>8, Directions DEF Settle, InTurn
<1>12. Settled(r, s, b, "W", full["W"]) BY <1>7, <1>10, <1>11, SettleOne, Directions
<1>13. s \in Worlds BY <1>12 DEF Settled, Stirs, Aside
<1>14. Stirs(y, r, b) BY <1>4, <1>9, StirsTwice DEF Settled
<1>15. Stirs(y, s, b) BY <1>12, <1>14, StirsTwice DEF Settled
<1>16. Differ(y.bev[b], s.bev[b], "BW") BY <1>4, <1>9, <1>12 DEF Differ, Settled
<1>17. \A d \in D : "BW" \in s.bev[b].susp[d] <=> ~full[d]
  BY <1>9, <1>12, Directions DEF Settled
<1>18. /\ Stirs(s, x, b) /\ x.bev[b].susp = s.bev[b].susp
       /\ (\E d \in D : y.bev[b].limit[d] <= 0) /\ s.bev[b].final = {} => "T" \in x.bev[b].pend
  BY <1>13, TimerStirs, StirsSelf
<1>19. Stirs(y, x, b) BY <1>15, <1>18, StirsTwice
<1>20. Differ(y.bev[b], x.bev[b], "BW") BY <1>16, <1>18 DEF Differ
<1>21. ASSUME w.bev[b].final = {} PROVE Capped(x.bev[b]) /\ Backed(x, l, b)
  <2>1. \A d \in D : y.bev[b].limit[d] \in Int BY <1>2 DEF Worlds, Bev
  <2>2. \A d \in D : "BW" \in x.bev[b].susp[d] <=> y.bev[b].limit[d] <= 0
    <3>1. \A d \in D : full[d] <=> y.bev[b].limit[d] > 0 BY <1>6
    <3>2. \A d \in D : ~(y.bev[b].limit[d] > 0) <=> y.bev[b].limit[d] <= 0 BY <2>1
    <3>3. x.bev[b].susp = s.bev[b].susp BY <1>18
    <3> QED BY <1>17, <3>1, <3>2, <3>3, Zenon
  <2>3. x.bev[b].cfg = c /\ x.bev[b].limit = y.bev[b].limit BY <1>1, <1>19 DEF Stirs, Still
  <2>4. s.bev[b].final = {} BY <1>1, <1>15, <1>21 DEF Stirs, Aside, Puts
  <2>5. Capped(x.bev[b]) BY <2>2, <2>3 DEF Capped
  <2>6. \A d \in D : "BW" \in x.bev[b].susp[d] => "T" \in x.bev[b].pend BY <1>18, <2>2, <2>4
  <2>7. Backed(x, l, b) BY <1>2, <2>3, <2>6 DEF Backed, Timed
  <2> QED BY <2>5, <2>7
<1> QED BY <1>1, <1>19, <1>20, <1>21, LimitGood

\* No limit: nothing is suspended for one, and no refill is going to come.
LEMMA UnlimitedGood ==
  ASSUME NEW w \in Worlds, NEW l, NEW S, Good(w, l, S), NEW b \in Bevs, w.bev[b].st = "live",
         NEW y, NEW v, Puts(w, y, b, v), Relimited(w.bev[b], v), v.cfg = NoCfg,
         NEW x, x = Del(UnsuspendAll(y, b, D, "BW"), b, "T")
  PROVE  Fares(w, x, b, l, S)
<1>1. PICK yes : yes = TRUE OBVIOUS
<1>2. y \in Worlds /\ y.bev[b] = v BY DEF Puts, Aside
<1>3. PICK r : r = Unsuspend(y, b, "R", "BW") OBVIOUS
<1>4. r = IF yes THEN Unsuspend(y, b, "R", "BW") ELSE Suspend(y, b, "R", "BW") BY <1>1, <1>3
<1>5. Settled(y, r, b, "R", yes) BY <1>1, <1>2, <1>4, SettleOne, Directions
<1>6. r \in Worlds BY <1>5 DEF Settled, Stirs, Aside
<1>7. PICK s : s = Unsuspend(r, b, "W", "BW") OBVIOUS
<1>8. s = IF yes THEN Unsuspend(r, b, "W", "BW") ELSE Suspend(r, b, "W", "BW") BY <1>1, <1>7
<1>9. Settled(r, s, b, "W", yes) BY <1>1, <1>6, <1>8, SettleOne, Directions
<1>10. s \in Worlds BY <1>9 DEF Settled, Stirs, Aside
<1>11. x = Del(s, b, "T") BY <1>3, <1>7, Directions DEF UnsuspendAll, InTurn
<1>12. Stirs(s, x, b) /\ x.bev[b].susp = s.bev[b].susp BY <1>10, <1>11, TimerStirs
<1>13. Stirs(y, s, b) BY <1>5, <1>9, StirsTwice DEF Settled
<1>14. Stirs(y, x, b) BY <1>12, <1>13, StirsTwice
<1>15. Differ(v, x.bev[b], "BW") BY <1>2, <1>5, <1>9, <1>12 DEF Differ, Settled
<1>16. \A d \in D : "BW" \notin x.bev[b].susp[d]
  BY <1>1, <1>5, <1>9, <1>12, Directions DEF Settled
<1>17. x.bev[b].cfg = NoCfg BY <1>2, <1>14 DEF Stirs, Still
<1>18. Capped(x.bev[b]) /\ Backed(x, l, b) BY <1>16, <1>17 DEF Capped, Backed
<1> QED BY <1>14, <1>15, <1>18, LimitGood

LEMMA EndRateLimitGood ==
  ASSUME NEW w \in Worlds, NEW l, NEW S, Good(w, l, S), NEW b \in Bevs, w.bev[b].st = "live",
         NEW y, y = [w EXCEPT !.bev[b].cfg = NoCfg, !.bev[b].limit = [d \in D |-> 0],
                              !.bev[b].owed = 0],
         NEW x, x = Del(UnsuspendAll(y, b, D, "BW"), b, "T")
  PROVE  Fares(w, x, b, l, S)
<1>0. w.bev[b] \in Bev BY DEF Worlds
<1>1. PICK m : m = [d \in D |-> 0] OBVIOUS
<1>2. m \in [D -> Int] BY <1>1
<1>3. PICK v : v = [w.bev[b] EXCEPT !.cfg = NoCfg, !.limit = m, !.owed = 0] OBVIOUS
<1>4. /\ v \in Bev /\ Relimited(w.bev[b], v) /\ v.cfg = NoCfg
      /\ v.st = w.bev[b].st /\ v.final = w.bev[b].final
  BY <1>0, <1>2, <1>3 DEF Bev, Relimited
<1>5. y = [w EXCEPT !.bev[b] = v]
  <2>1. w.bev \in [Bevs -> Bev] BY DEF Worlds
  <2> QED BY <1>1, <1>3, <2>1 DEF Worlds
<1>6. Puts(w, y, b, v) BY <1>4, <1>5, PutAside
<1> QED BY <1>4, <1>6, UnlimitedGood

---------------------------------------------------------------------------
(* The socket and the end of a connect                                     *)

\* What suspends, what is owed and the input are as they were; the events, the
\* socket and the output may not be.
Beside(w, x, b) ==
  /\ Aside(w, x, b) /\ SameTimer(w, x, b) /\ Else(w.bev[b], x.bev[b])
  /\ x.bev[b].len["R"] = w.bev[b].len["R"] /\ x.bev[b].high = w.bev[b].high

LEMMA BesideTwice ==
  ASSUME NEW w, NEW x, NEW y, NEW b, Beside(w, x, b), Beside(x, y, b)
  PROVE  Beside(w, y, b)
<1>1. Aside(w, y, b) BY AsideTwice DEF Beside
<1>2. SameTimer(w, y, b) BY DEF SameTimer, Beside
<1> QED BY <1>1, <1>2 DEF Beside, Else

LEMMA BesideGood ==
  ASSUME NEW w, NEW l, NEW S, Good(w, l, S), NEW b \in Bevs, w.bev[b].st = "live",
         NEW x, Beside(w, x, b), x.bev[b].len["W"] \in 0 .. MaxLen,
         w.bev[b].final = {} /\ Waits(w.bev[b]) /\ Plain(w.bev[b])
           => Waits(x.bev[b]) /\ Plain(x.bev[b])
  PROVE  Fares(w, x, b, l, S)
<1>1. \A d \in D : x.bev[b].len[d] \in 0 .. MaxLen BY Directions DEF Good, Sized, Beside
<1>2. ASSUME w.bev[b].final = {} PROVE Firm(x, l, b, S)
  <2>1. Firm(w, l, b, S) BY <1>2 DEF Good
  <2>2. Upheld(x, l, b, S) BY <2>1, ElseUpheld DEF Firm, Stands, Beside
  <2>3. Waits(x.bev[b]) /\ Plain(x.bev[b]) BY <1>2, <2>1 DEF Firm, Stands
  <2>4. MarkHeld(x.bev[b]) BY <2>1 DEF Firm, Beside, Else, MarkHeld
  <2> QED BY <2>2, <2>3, <2>4 DEF Firm, Stands
<1> QED BY <1>1, <1>2, AsideGood DEF Beside

\* The bufferevent is replaced, and its queue and its timer are as they were.
LEMMA PutBeside ==
  ASSUME NEW w \in Worlds, NEW b \in Bevs, NEW x, NEW v, Puts(w, x, b, v),
         Else(w.bev[b], v), v.len["R"] = w.bev[b].len["R"], v.high = w.bev[b].high,
         v.pend = w.bev[b].pend
  PROVE  Beside(w, x, b)
BY DEF Puts, Beside, SameTimer, Aside

\* An event is deleted that nobody wants.
LEMMA DelGood ==
  ASSUME NEW w \in Worlds, NEW l, NEW S, Good(w, l, S), NEW b \in Bevs, w.bev[b].st = "live",
         w.bev[b].len["W"] = 0 \/ w.bev[b].susp["W"] # {} \/ "W" \notin w.bev[b].enabled,
         NEW x, x = Del(w, b, "W")
  PROVE  Fares(w, x, b, l, S)
<1>1. Deleted(w, x, b, "W") BY DelIs
<1>2. /\ Aside(w, x, b) /\ SameTimer(w, x, b) /\ Still(w.bev[b], x.bev[b])
      /\ x.bev[b].susp = w.bev[b].susp
      /\ w.bev[b].final = {} => x.bev[b].pend = w.bev[b].pend \ {"W"}
  BY <1>1 DEF Deleted
<1>3. Kept(w.bev[b], x.bev[b]) BY <1>2 DEF Still, Kept, Else
<1>4. ASSUME w.bev[b].final = {}, Waits(w.bev[b]) PROVE Waits(x.bev[b])
  BY <1>2, <1>4 DEF Waits, Still
<1> QED BY <1>2, <1>3, <1>4, KeptGood

\* Output has been written.
Shrunk(w, x, b, n) == n < w.bev[b].len["W"] /\ x = [w EXCEPT !.bev[b].len["W"] = n]

LEMMA SentGood ==
  ASSUME NEW w \in Worlds, NEW l, NEW S, Good(w, l, S), NEW b \in Bevs, w.bev[b].st = "live",
         NEW n \in 0 .. MaxLen, NEW x, Shrunk(w, x, b, n)
  PROVE  Fares(w, x, b, l, S)
<1>0. w.bev[b] \in Bev /\ w.bev[b].len \in [D -> Int] BY DEF Worlds, Bev
<1>1. PICK m : m = [w.bev[b].len EXCEPT !["W"] = n] OBVIOUS
<1>2. w.bev[b].len["W"] \in 0 .. MaxLen BY Directions DEF Good, Sized
<1>3. MaxLen \in Int BY Sizes
<1>4. n \in 0 .. MaxLen /\ w.bev[b].len["W"] > 0 BY <1>2, <1>3 DEF Shrunk
<1>5. m["W"] = n /\ m["R"] = w.bev[b].len["R"]
  BY <1>0, <1>1, Directions
<1>6. m \in [D -> Int]
  <2>1. n \in Int BY <1>3, <1>4
  <2> QED BY <1>0, <1>1, <2>1
<1>7. PICK v : v = [w.bev[b] EXCEPT !.len = m] OBVIOUS
<1>8. /\ v \in Bev /\ v.len = m /\ Else(w.bev[b], v) /\ v.enabled = w.bev[b].enabled
      /\ v.pend = w.bev[b].pend /\ v.high = w.bev[b].high /\ v.sock = w.bev[b].sock
      /\ v.connecting = w.bev[b].connecting /\ v.refused = w.bev[b].refused
      /\ v.st = w.bev[b].st /\ v.final = w.bev[b].final
  BY <1>0, <1>6, <1>7 DEF Bev, Else
<1>9. x = [w EXCEPT !.bev[b] = v] BY <1>1, <1>7 DEF Shrunk
<1>10. Puts(w, x, b, v) BY <1>8, <1>9, PutAside
<1>13. v.len["R"] = w.bev[b].len["R"] /\ v.high = w.bev[b].high BY <1>5, <1>8
<1>14. Else(w.bev[b], v) /\ v.pend = w.bev[b].pend BY <1>8
<1>15. Beside(w, x, b) BY <1>10, <1>13, <1>14, PutBeside
<1>11. Beside(w, x, b) /\ x.bev[b] = v BY <1>10, <1>15 DEF Puts
<1>12. ASSUME Waits(w.bev[b]), Plain(w.bev[b]) PROVE Waits(v) /\ Plain(v)
  BY <1>4, <1>8, <1>12 DEF Waits, Plain, Else
<1> QED BY <1>4, <1>5, <1>8, <1>11, <1>12, BesideGood

\* bufferevent_write
LEMMA WriteGood ==
  ASSUME NEW w \in Worlds, NEW l, NEW S, Good(w, l, S), NEW b \in Bevs, w.bev[b].st = "live",
         w.bev[b].len["W"] < MaxLen,
         NEW y, y = [w EXCEPT !.bev[b].len["W"] = @ + 1], NEW x, x = OutbufCb(y, b)
  PROVE  Fares(w, x, b, l, S)
<1>0. w.bev[b] \in Bev /\ w.bev[b].len \in [D -> Int] BY DEF Worlds, Bev
<1>1. PICK m : m = [w.bev[b].len EXCEPT !["W"] = @ + 1] OBVIOUS
<1>2. w.bev[b].len["W"] \in 0 .. MaxLen BY Directions DEF Good, Sized
<1>3. MaxLen \in Int BY Sizes
<1>4. w.bev[b].len["W"] + 1 \in 0 .. MaxLen BY <1>2, <1>3
<1>5. m["W"] = w.bev[b].len["W"] + 1 /\ m["R"] = w.bev[b].len["R"]
  BY <1>0, <1>1, Directions
<1>6. m \in [D -> Int]
  <2>1. w.bev[b].len["W"] + 1 \in Int BY <1>3, <1>4
  <2> QED BY <1>0, <1>1, <2>1
<1>7. PICK v : v = [w.bev[b] EXCEPT !.len = m] OBVIOUS
<1>8. /\ v \in Bev /\ v.len = m /\ Else(w.bev[b], v) /\ v.enabled = w.bev[b].enabled
      /\ v.pend = w.bev[b].pend /\ v.high = w.bev[b].high /\ v.sock = w.bev[b].sock
      /\ v.connecting = w.bev[b].connecting /\ v.refused = w.bev[b].refused
      /\ v.st = w.bev[b].st /\ v.final = w.bev[b].final
  BY <1>0, <1>6, <1>7 DEF Bev, Else
<1>9. y = [w EXCEPT !.bev[b] = v] BY <1>1, <1>7
<1>10. Puts(w, y, b, v) BY <1>8, <1>9, PutAside
<1>14. v.len["R"] = w.bev[b].len["R"] /\ v.high = w.bev[b].high BY <1>5, <1>8
<1>15. Else(w.bev[b], v) /\ v.pend = w.bev[b].pend BY <1>8
<1>16. Beside(w, y, b) BY <1>10, <1>14, <1>15, PutBeside
<1>11. Beside(w, y, b) /\ y \in Worlds /\ y.bev[b] = v BY <1>10, <1>16 DEF Puts, Aside
<1>12. CASE "W" \in v.enabled /\ "W" \notin v.pend /\ v.susp["W"] = {}
  <2>1. x = Add(y, b, "W") BY <1>11, <1>12 DEF OutbufCb
  <2>2. Added(y, x, b, "W") BY <1>11, <2>1, AddIs
  <2>3. Beside(y, x, b) BY <2>2 DEF Added, Beside, Still, Else
  <2>4. Beside(w, x, b) BY <1>11, <2>3, BesideTwice
  <2>5. x.bev[b].len["W"] \in 0 .. MaxLen BY <1>4, <1>5, <1>8, <1>11, <2>2 DEF Added, Still
  <2>6. ASSUME w.bev[b].final = {}, Waits(w.bev[b]), Plain(w.bev[b])
        PROVE  Waits(x.bev[b]) /\ Plain(x.bev[b])
    <3>1. /\ x.bev[b].pend = w.bev[b].pend \cup {"W"} /\ x.bev[b].susp = w.bev[b].susp
          /\ Still(v, x.bev[b])
      BY <1>8, <1>11, <2>2, <2>6 DEF Added, Else
    <3>2. Waits(x.bev[b])
      BY <1>8, <1>12, <2>6, <3>1 DEF Waits, Still, Else
    <3> QED BY <1>8, <2>6, <3>1, <3>2 DEF Plain, Still
  <2> QED BY <2>4, <2>5, <2>6, BesideGood
<1>13. CASE ~("W" \in v.enabled /\ "W" \notin v.pend /\ v.susp["W"] = {})
  <2>1. x = y BY <1>11, <1>13 DEF OutbufCb
  <2>2. ASSUME Waits(w.bev[b]), Plain(w.bev[b]) PROVE Waits(v) /\ Plain(v)
    BY <1>8, <1>13, <2>2 DEF Waits, Plain, Else
  <2> QED BY <1>4, <1>5, <1>8, <1>11, <2>1, <2>2, BesideGood
<1> QED BY <1>12, <1>13

\* A refusal has been read.
LEMMA RefusedGood ==
  ASSUME NEW w \in Worlds, NEW l, NEW S, Good(w, l, S), NEW b \in Bevs, w.bev[b].st = "live",
         w.bev[b].sock = "refused",
         NEW x, x = [w EXCEPT !.bev[b].sock = "dead", !.bev[b].refused = TRUE]
  PROVE  Fares(w, x, b, l, S)
<1>0. w.bev[b] \in Bev BY DEF Worlds
<1>1. PICK v : v = [w.bev[b] EXCEPT !.sock = "dead", !.refused = TRUE] OBVIOUS
<1>2. /\ v \in Bev /\ v.len = w.bev[b].len /\ Else(w.bev[b], v)
      /\ v.enabled = w.bev[b].enabled
      /\ v.pend = w.bev[b].pend /\ v.high = w.bev[b].high /\ v.sock = "dead"
      /\ v.connecting = w.bev[b].connecting
      /\ v.st = w.bev[b].st /\ v.final = w.bev[b].final
  BY <1>0, <1>1 DEF Bev, Else
<1>3. x = [w EXCEPT !.bev[b] = v]
  <2>1. w.bev \in [Bevs -> Bev] BY DEF Worlds
  <2> QED BY <1>1, <2>1 DEF Worlds
<1>4. Puts(w, x, b, v) BY <1>2, <1>3, PutAside
<1>8. v.len["R"] = w.bev[b].len["R"] /\ v.high = w.bev[b].high BY <1>2
<1>9. Else(w.bev[b], v) /\ v.pend = w.bev[b].pend BY <1>2
<1>10. Beside(w, x, b) BY <1>4, <1>8, <1>9, PutBeside
<1>5. Beside(w, x, b) /\ x.bev[b] = v BY <1>4, <1>10 DEF Puts
<1>6. v.len["W"] \in 0 .. MaxLen BY <1>2, Directions DEF Good, Sized
<1>7. ASSUME Waits(w.bev[b]), Plain(w.bev[b]) PROVE Waits(v) /\ Plain(v)
  BY <1>2, <1>7 DEF Waits, Plain, Else
<1> QED BY <1>5, <1>6, <1>7, BesideGood

\* Two events of a bufferevent are deleted.
LEMMA DelBothIs ==
  ASSUME NEW w \in Worlds, NEW b \in Bevs, NEW e \in D, NEW f \in D, e # f,
         NEW x, x = Del(Del(w, b, e), b, f)
  PROVE  /\ Aside(w, x, b) /\ SameTimer(w, x, b) /\ Still(w.bev[b], x.bev[b])
         /\ x.bev[b].susp = w.bev[b].susp
         /\ w.bev[b].final = {} => "R" \notin x.bev[b].pend /\ "W" \notin x.bev[b].pend
<1>1. PICK y : y = Del(w, b, e) OBVIOUS
<1>2. e \in {"R", "W", "T"} /\ f \in {"R", "W", "T"} /\ e # "T" /\ f # "T" BY Directions
<1>3. Deleted(w, y, b, e) BY <1>1, <1>2, DelIs
<1>4. y \in Worlds /\ y.bev[b].final = w.bev[b].final BY <1>3 DEF Deleted, Aside
<1>5. x = Del(y, b, f) BY <1>1
<1>6. Deleted(y, x, b, f) BY <1>2, <1>4, <1>5, DelIs
<1>7. Aside(w, x, b) BY <1>3, <1>6, AsideTwice DEF Deleted
<1>8. SameTimer(w, x, b) BY <1>2, <1>3, <1>6 DEF Deleted, SameTimer
<1>9. Still(w.bev[b], x.bev[b]) /\ x.bev[b].susp = w.bev[b].susp
  BY <1>3, <1>6 DEF Deleted, Still
<1>10. ASSUME w.bev[b].final = {} PROVE x.bev[b].pend = (w.bev[b].pend \ {e}) \ {f}
  BY <1>3, <1>4, <1>6, <1>10 DEF Deleted
<1>11. {e, f} = {"R", "W"} BY Directions
<1> QED BY <1>7, <1>8, <1>9, <1>10, <1>11

\* The connect is over.
LEMMA OverIs ==
  ASSUME NEW w \in Worlds, NEW b \in Bevs, NEW y, y = Over(w, b)
  PROVE  /\ Beside(w, y, b) /\ y \in Worlds
         /\ y.bev[b].enabled = w.bev[b].enabled /\ y.bev[b].pend = w.bev[b].pend
         /\ y.bev[b].len = w.bev[b].len /\ y.bev[b].sock = w.bev[b].sock
         /\ y.bev[b].connecting = FALSE /\ y.bev[b].refused = FALSE
<1>0. w.bev[b] \in Bev BY DEF Worlds
<1>1. PICK v : v = [w.bev[b] EXCEPT !.connecting = FALSE, !.refused = FALSE] OBVIOUS
<1>2. /\ v \in Bev /\ v.len = w.bev[b].len /\ Else(w.bev[b], v)
      /\ v.enabled = w.bev[b].enabled
      /\ v.pend = w.bev[b].pend /\ v.high = w.bev[b].high /\ v.sock = w.bev[b].sock
      /\ v.connecting = FALSE /\ v.refused = FALSE
      /\ v.st = w.bev[b].st /\ v.final = w.bev[b].final
  BY <1>0, <1>1 DEF Bev, Else
<1>3. y = [w EXCEPT !.bev[b] = v]
  <2>1. w.bev \in [Bevs -> Bev] BY DEF Worlds
  <2> QED BY <1>1, <2>1 DEF Worlds, Over
<1>4. Puts(w, y, b, v) BY <1>2, <1>3, PutAside
<1>5. v.len["R"] = w.bev[b].len["R"] /\ v.high = w.bev[b].high BY <1>2
<1>6. Else(w.bev[b], v) /\ v.pend = w.bev[b].pend BY <1>2
<1>7. Beside(w, y, b) BY <1>4, <1>5, <1>6, PutBeside
<1> QED BY <1>2, <1>4, <1>7 DEF Puts, Aside

\* The part of bufferevent_writecb that ends a connect
LEMMA EndConnectGood ==
  ASSUME NEW w \in Worlds, NEW l, NEW S, Good(w, l, S), NEW b \in Bevs, w.bev[b].st = "live",
         NEW x, x = EndConnect(w, b)
  PROVE  Fares(w, x, b, l, S)
<1>0. w.bev[b] \in Bev /\ w.bev[b].refused \in BOOLEAN BY DEF Worlds, Bev
<1>1. PICK over : over = Over(w, b) OBVIOUS
<1>2. /\ Beside(w, over, b) /\ over \in Worlds
      /\ over.bev[b].enabled = w.bev[b].enabled /\ over.bev[b].pend = w.bev[b].pend
      /\ over.bev[b].len = w.bev[b].len /\ over.bev[b].sock = w.bev[b].sock
      /\ over.bev[b].connecting = FALSE /\ over.bev[b].refused = FALSE
  BY <1>1, OverIs
<1>3. over.bev[b].final = w.bev[b].final /\ over.bev[b].susp = w.bev[b].susp
  BY <1>2 DEF Beside, Aside, Else
<1>4. w.bev[b].len["W"] \in 0 .. MaxLen BY Directions DEF Good, Sized
<1>5. "error" \in Whats /\ "connected" \in Whats BY DEF Whats, Events
<1>6. Finished(w.bev[b]) \in {0, -1, 1} BY DEF Finished
<1>7. CASE Finished(w.bev[b]) = 0
  <2>1. x = w BY <1>7 DEF EndConnect
  <2> QED BY <2>1, NothingGood
<1>8. CASE Finished(w.bev[b]) = -1
  <2>1. PICK z : z = Del(Del(over, b, "W"), b, "R") OBVIOUS
  <2>2. x = RunCb(z, b, "error") BY <1>1, <1>8, <2>1 DEF EndConnect
  <2>3. /\ Aside(over, z, b) /\ SameTimer(over, z, b) /\ Still(over.bev[b], z.bev[b])
        /\ z.bev[b].susp = over.bev[b].susp
        /\ over.bev[b].final = {} => "R" \notin z.bev[b].pend /\ "W" \notin z.bev[b].pend
    BY <1>2, <2>1, DelBothIs, Directions
  <2>4. Beside(over, z, b) BY <2>3 DEF Beside, Still, Else
  <2>5. Beside(w, z, b) BY <1>2, <2>4, BesideTwice
  <2>6. z.bev[b].len["W"] \in 0 .. MaxLen BY <1>2, <1>4, <2>3 DEF Still
  <2>7. ASSUME w.bev[b].final = {}, Waits(w.bev[b]), Plain(w.bev[b])
        PROVE  Waits(z.bev[b]) /\ Plain(z.bev[b])
    <3>1. w.bev[b].sock = "refused" \/ w.bev[b].refused = TRUE BY <1>0, <1>8 DEF Finished
    <3>2. z.bev[b].sock \in {"refused", "dead"} BY <1>2, <2>3, <2>7, <3>1 DEF Plain, Still
    <3>3. Waits(z.bev[b]) BY <1>3, <2>3, <2>7, <3>2 DEF Waits
    <3>4. z.bev[b].refused = FALSE BY <1>2, <2>3 DEF Still
    <3> QED BY <2>5, <2>7, <3>3, <3>4 DEF Plain, Beside
  <2>8. Fares(w, z, b, l, S) BY <2>5, <2>6, <2>7, BesideGood
  <2>9. z \in Worlds /\ Good(z, l, S) /\ z.bev[b].st = "live" BY <2>8, FaresOn
  <2>10. Fares(z, x, b, l, S) BY <1>5, <2>2, <2>9, RunCbGood
  <2> QED BY <2>8, <2>10, FaresTwice
<1>9. CASE Finished(w.bev[b]) = 1 /\ "W" \in w.bev[b].enabled /\ w.bev[b].susp["W"] = {}
  <2>1. x = RunCb(over, b, "connected") BY <1>1, <1>9 DEF EndConnect
  <2>2. over.bev[b].len["W"] \in 0 .. MaxLen BY <1>2, <1>4
  <2>3. ASSUME Waits(w.bev[b]), Plain(w.bev[b]) PROVE Waits(over.bev[b]) /\ Plain(over.bev[b])
    BY <1>2, <1>3, <1>9, <2>3 DEF Waits, Plain, Beside
  <2>4. Fares(w, over, b, l, S) BY <1>2, <2>2, <2>3, BesideGood
  <2>5. over \in Worlds /\ Good(over, l, S) /\ over.bev[b].st = "live" BY <2>4, FaresOn
  <2>6. Fares(over, x, b, l, S) BY <1>5, <2>1, <2>5, RunCbGood
  <2> QED BY <2>4, <2>6, FaresTwice
<1>10. CASE Finished(w.bev[b]) = 1 /\ ~("W" \in w.bev[b].enabled /\ w.bev[b].susp["W"] = {})
  <2>1. PICK t : t = RunCb(over, b, "connected") OBVIOUS
  <2>2. x = Del(t, b, "W") BY <1>1, <1>10, <2>1 DEF EndConnect
  <2>3. Told(over, t, b) BY <1>2, <1>5, <2>1, RunCbIs
  <2>4. t \in Worlds /\ t.bev[b].final = w.bev[b].final BY <1>3, <2>3 DEF Told, Aside
  <2>5. Deleted(t, x, b, "W") BY <2>2, <2>4, DelIs
  <2>6. Aside(over, x, b) BY <2>3, <2>5, AsideTwice DEF Told, Deleted
  <2>7. Aside(w, x, b) BY <1>2, <2>6, AsideTwice DEF Beside
  <2>8. Silent(over.bev[b], t.bev[b]) /\ Still(t.bev[b], x.bev[b])
        /\ x.bev[b].susp = t.bev[b].susp
    BY <2>3, <2>5 DEF Told, Deleted
  <2>9. /\ x.bev[b].enabled = w.bev[b].enabled /\ x.bev[b].len = w.bev[b].len
        /\ x.bev[b].high = w.bev[b].high /\ x.bev[b].sock = w.bev[b].sock
        /\ x.bev[b].refused = FALSE /\ x.bev[b].susp = w.bev[b].susp
    BY <1>2, <1>3, <2>8 DEF Silent, Still, Beside
  <2>10. \A d \in D : x.bev[b].len[d] \in 0 .. MaxLen BY <2>9 DEF Good, Sized
  <2>11. ASSUME w.bev[b].final = {} PROVE Firm(x, l, b, S)
    <3>1. Firm(w, l, b, S) BY <2>11 DEF Good
    <3>2. Upheld(over, l, b, S) BY <1>2, <3>1, ElseUpheld DEF Firm, Stands, Beside
    <3>3. Upheld(t, l, b, S) BY <1>3, <2>3, <2>11, <3>2, ToldUpheld
    <3>4. Aside(t, x, b) /\ SameTimer(t, x, b) /\ Else(t.bev[b], x.bev[b])
      BY <2>5 DEF Deleted, Still, Else
    <3>5. Upheld(x, l, b, S) BY <3>3, <3>4, ElseUpheld
    <3>6. x.bev[b].pend = w.bev[b].pend \ {"W"}
      BY <1>2, <2>4, <2>5, <2>8, <2>11 DEF Deleted, Silent
    <3>7. Waits(x.bev[b]) BY <1>10, <2>9, <3>1, <3>6 DEF Firm, Stands, Waits
    <3>8. Plain(x.bev[b]) /\ MarkHeld(x.bev[b])
      BY <2>9, <3>1 DEF Firm, Stands, Plain, MarkHeld
    <3> QED BY <3>5, <3>7, <3>8 DEF Firm, Stands
  <2> QED BY <2>7, <2>10, <2>11, AsideGood
<1> QED BY <1>6, <1>7, <1>8, <1>9, <1>10

\* be_socket_setfd: the events are added that are wanted.
LEMMA SetFdToGood ==
  ASSUME NEW w \in Worlds, NEW l, NEW S, Good(w, l, S), NEW b \in Bevs, w.bev[b].st = "live",
         "be_socket_setfd" \in Repaired,
         NEW s \in {"up", "trying", "dead"}, NEW x, x = SetFdTo(w, b, s)
  PROVE  Fares(w, x, b, l, S)
<1>1. PICK over : over = Over(w, b) OBVIOUS
<1>2. /\ Beside(w, over, b) /\ over \in Worlds
      /\ over.bev[b].enabled = w.bev[b].enabled /\ over.bev[b].pend = w.bev[b].pend
      /\ over.bev[b].len = w.bev[b].len /\ over.bev[b].sock = w.bev[b].sock
      /\ over.bev[b].connecting = FALSE /\ over.bev[b].refused = FALSE
  BY <1>1, OverIs
<1>3. PICK off : off = Del(Del(over, b, "R"), b, "W") OBVIOUS
<1>4. /\ Aside(over, off, b) /\ SameTimer(over, off, b) /\ Still(over.bev[b], off.bev[b])
      /\ off.bev[b].susp = over.bev[b].susp
      /\ over.bev[b].final = {} => "R" \notin off.bev[b].pend /\ "W" \notin off.bev[b].pend
  BY <1>2, <1>3, DelBothIs, Directions
<1>5. Beside(over, off, b) BY <1>4 DEF Beside, Still, Else
<1>6. off \in Worlds /\ off.bev[b] \in Bev BY <1>4 DEF Aside, Worlds
<1>7. PICK v : v = [off.bev[b] EXCEPT !.sock = s] OBVIOUS
<1>8. /\ v \in Bev /\ v.len = off.bev[b].len /\ Else(off.bev[b], v)
      /\ v.enabled = off.bev[b].enabled
      /\ v.pend = off.bev[b].pend /\ v.high = off.bev[b].high /\ v.sock = s
      /\ v.connecting = off.bev[b].connecting /\ v.refused = off.bev[b].refused
      /\ v.st = off.bev[b].st /\ v.final = off.bev[b].final
  BY <1>6, <1>7 DEF Bev, Else
<1>9. PICK y : y = [off EXCEPT !.bev[b] = v] OBVIOUS
<1>10. Puts(off, y, b, v) BY <1>6, <1>8, <1>9, PutAside
<1>11. v.len["R"] = off.bev[b].len["R"] /\ v.high = off.bev[b].high BY <1>8
<1>12. Else(off.bev[b], v) /\ v.pend = off.bev[b].pend BY <1>8
<1>13. Beside(off, y, b) BY <1>6, <1>10, <1>11, <1>12, PutBeside
<1>14. y \in Worlds /\ y.bev[b] = v BY <1>10 DEF Puts, Aside
<1>15. w.bev[b].enabled \in SUBSET D BY DEF Worlds, Bev
<1>16. PICK ds : ds = w.bev[b].enabled OBVIOUS
<1>17. PICK on : on = EnableBev(y, b, ds) OBVIOUS
<1>18. Turned(y, on, b, v.enabled \cup ds, v.pend \cup {d \in ds : v.susp[d] = {}})
  <2>1. ds \in SUBSET D BY <1>15, <1>16
  <2>2. Turned(y, on, b, y.bev[b].enabled \cup ds,
               y.bev[b].pend \cup {d \in ds : y.bev[b].susp[d] = {}})
    BY <1>14, <1>17, <2>1, EnableIs
  <2> QED BY <1>14, <2>2
<1>19. Beside(y, on, b) BY <1>18 DEF Turned, Kept, Beside
<1>20. on \in Worlds /\ on.bev[b] \in Bev BY <1>18 DEF Turned, Aside, Worlds
<1>21. PICK k : k = IF on.bev[b].lookup = "no" THEN on.bev[b].lookup ELSE "cancelled" OBVIOUS
<1>22. PICK z : z = [on.bev[b] EXCEPT !.lookup = k] OBVIOUS
<1>23. /\ z \in Bev /\ z.len = on.bev[b].len /\ Else(on.bev[b], z)
       /\ z.enabled = on.bev[b].enabled
       /\ z.pend = on.bev[b].pend /\ z.high = on.bev[b].high /\ z.sock = on.bev[b].sock
       /\ z.connecting = on.bev[b].connecting /\ z.refused = on.bev[b].refused
       /\ z.st = on.bev[b].st /\ z.final = on.bev[b].final
  BY <1>20, <1>21, <1>22 DEF Bev, Else
<1>24. x = [on EXCEPT !.bev[b] = z]
  <2>1. off = Del(Del(IF "be_socket_setfd" \in Repaired THEN Over(w, b) ELSE w, b, "R"), b, "W")
    BY <1>1, <1>3
  <2>2. y = [off EXCEPT !.bev[b].sock = s] BY <1>7, <1>9
  <2>3. [on EXCEPT !.bev[b] = z] = [on EXCEPT !.bev[b].lookup = IF @ = "no" THEN @ ELSE "cancelled"]
    BY <1>21, <1>22
  <2>4. on = EnableBev(y, b, w.bev[b].enabled) BY <1>16, <1>17
  <2> QED BY <2>1, <2>2, <2>3, <2>4, Zenon DEF SetFdTo
<1>25. Puts(on, x, b, z) BY <1>20, <1>23, <1>24, PutAside
<1>26. z.len["R"] = on.bev[b].len["R"] /\ z.high = on.bev[b].high BY <1>23
<1>27. Else(on.bev[b], z) /\ z.pend = on.bev[b].pend BY <1>23
<1>28. Beside(on, x, b) BY <1>20, <1>25, <1>26, <1>27, PutBeside
<1>29. Beside(w, off, b) BY <1>2, <1>5, BesideTwice
<1>30. Beside(w, y, b) BY <1>13, <1>29, BesideTwice
<1>31. Beside(w, on, b) BY <1>19, <1>30, BesideTwice
<1>32. Beside(w, x, b) BY <1>28, <1>31, BesideTwice
<1>33. x.bev[b] = z BY <1>25 DEF Puts
<1>34. /\ z.enabled = w.bev[b].enabled /\ z.sock = s /\ z.len = w.bev[b].len
       /\ z.refused = FALSE /\ z.susp = w.bev[b].susp
  <2>1. /\ v.enabled = w.bev[b].enabled /\ v.len = w.bev[b].len
        /\ v.refused = FALSE /\ v.susp = w.bev[b].susp
    BY <1>2, <1>4, <1>8 DEF Still, Else, Beside
  <2>2. z.enabled = v.enabled \cup ds /\ Kept(v, z)
    BY <1>14, <1>18, <1>23 DEF Turned, Kept, Else
  <2> QED BY <1>8, <1>16, <2>1, <2>2 DEF Kept, Else
<1>35. w.bev[b].len["W"] \in 0 .. MaxLen BY Directions DEF Good, Sized
<1>36. ASSUME w.bev[b].final = {}, Plain(w.bev[b]) PROVE Waits(z) /\ Plain(z)
  <2>1. over.bev[b].final = {} /\ v.final = {} BY <1>2, <1>4, <1>8, <1>36 DEF Beside, Aside
  <2>2. z.pend = v.pend \cup {d \in ds : w.bev[b].susp[d] = {}}
    <3>1. v.susp = w.bev[b].susp BY <1>2, <1>4, <1>8 DEF Beside, Else
    <3>2. on.bev[b].pend = v.pend \cup {d \in ds : v.susp[d] = {}} BY <1>14, <1>18, <2>1 DEF Turned
    <3> QED BY <1>23, <3>1, <3>2
  <2>3. "R" \notin v.pend /\ "W" \notin v.pend BY <1>4, <1>8, <2>1
  <2>4. /\ "R" \in z.pend <=> "R" \in z.enabled /\ z.susp["R"] = {}
        /\ "W" \in z.pend <=> "W" \in z.enabled /\ z.susp["W"] = {}
    BY <1>16, <1>34, <2>2, <2>3
  <2>5. Waits(z) BY <2>4 DEF Waits
  <2>6. z.high = w.bev[b].high BY <1>32, <1>33 DEF Beside
  <2> QED BY <1>34, <1>36, <2>5, <2>6 DEF Plain
<1> QED BY <1>32, <1>33, <1>34, <1>35, <1>36, BesideGood

\* A connect begins, of a socket whose events are as they should be.
LEMMA BeginGood ==
  ASSUME NEW w \in Worlds, NEW l, NEW S, Good(w, l, S), NEW b \in Bevs, w.bev[b].st = "live",
         NEW x, x = [w EXCEPT !.bev[b].connecting = TRUE, !.bev[b].greet = TRUE]
  PROVE  Fares(w, x, b, l, S) /\ x.bev[b].connecting = TRUE
<1>0. w.bev[b] \in Bev BY DEF Worlds
<1>1. PICK v : v = [w.bev[b] EXCEPT !.connecting = TRUE, !.greet = TRUE] OBVIOUS
<1>2. v \in Bev BY <1>0, <1>1 DEF Bev
<1>11. /\ v.len = w.bev[b].len /\ Else(w.bev[b], v)
       /\ v.enabled = w.bev[b].enabled
       /\ v.pend = w.bev[b].pend /\ v.high = w.bev[b].high /\ v.sock = w.bev[b].sock
       /\ v.connecting = TRUE /\ v.refused = w.bev[b].refused
       /\ v.st = w.bev[b].st /\ v.final = w.bev[b].final
  BY <1>0, <1>1 DEF Bev, Else
<1>3. x = [w EXCEPT !.bev[b] = v]
  <2>1. w.bev \in [Bevs -> Bev] BY DEF Worlds
  <2> QED BY <1>1, <2>1 DEF Worlds
<1>4. Puts(w, x, b, v) BY <1>2, <1>11, <1>3, PutAside
<1>5. v.len["R"] = w.bev[b].len["R"] /\ v.high = w.bev[b].high BY <1>11
<1>6. Else(w.bev[b], v) /\ v.pend = w.bev[b].pend BY <1>11
<1>7. Beside(w, x, b) BY <1>4, <1>5, <1>6, PutBeside
<1>8. x.bev[b] = v BY <1>4 DEF Puts
<1>9. v.len["W"] \in 0 .. MaxLen BY <1>11, Directions DEF Good, Sized
<1>10. ASSUME Waits(w.bev[b]), Plain(w.bev[b]) PROVE Waits(v) /\ Plain(v)
  <2>1. v.connecting BY <1>11
  <2>2. v.susp = w.bev[b].susp BY <1>11 DEF Else
  <2>3. "W" \in v.pend => v.connecting \/ ("W" \in v.enabled /\ v.susp["W"] = {})
    BY <1>10, <1>11, <2>1, <2>2 DEF Waits
  <2>4. Waits(v) BY <1>10, <1>11, <2>2, <2>3, Zenon DEF Waits
  <2> QED BY <1>10, <1>11, <2>4 DEF Plain
<1> QED BY <1>7, <1>8, <1>9, <1>10, <1>11, BesideGood

\* The write event is added, and the connect has begun, in this order or the other.
LEMMA AwaitGood ==
  ASSUME NEW w \in Worlds, NEW l, NEW S, Good(w, l, S), NEW b \in Bevs, w.bev[b].st = "live",
         NEW z, z = SockEnable(w, b, {"W"}), NEW x, x = z \/ Puts(z, x, b, x.bev[b]),
         Else(z.bev[b], x.bev[b]), x.bev[b].len = z.bev[b].len, x.bev[b].high = z.bev[b].high,
         x.bev[b].sock = z.bev[b].sock, x.bev[b].enabled = z.bev[b].enabled,
         x.bev[b].refused = z.bev[b].refused, x.bev[b].pend = z.bev[b].pend,
         x.bev[b].connecting = TRUE
  PROVE  Fares(w, x, b, l, S)
<1>1. PICK ws : ws = {"W"} OBVIOUS
<1>2. ws \in SUBSET D /\ z = SockEnable(w, b, ws) BY <1>1, Directions
<1>3. Started(w, z, b, ws) BY <1>2, SockEnableIs
<1>4. /\ Beside(w, z, b) /\ Still(w.bev[b], z.bev[b]) /\ z.bev[b].susp = w.bev[b].susp
      /\ w.bev[b].final = {} => z.bev[b].pend = w.bev[b].pend \cup {"W"}
  BY <1>1, <1>3 DEF Started, Beside, Still, Else
<1>5. Beside(w, x, b)
  <2>1. CASE x = z BY <1>4, <2>1
  <2>2. CASE Puts(z, x, b, x.bev[b])
    <3>1. z \in Worlds BY <1>4 DEF Beside, Aside
    <3>2. x.bev[b].len["R"] = z.bev[b].len["R"] OBVIOUS
    <3>3. Beside(z, x, b) BY <2>2, <3>1, <3>2, PutBeside
    <3> QED BY <1>4, <3>3, BesideTwice
  <2> QED BY <2>1, <2>2
<1>6. x.bev[b].len["W"] \in 0 .. MaxLen BY <1>4, Directions DEF Good, Sized, Still
<1>7. ASSUME w.bev[b].final = {}, Waits(w.bev[b]), Plain(w.bev[b])
      PROVE  Waits(x.bev[b]) /\ Plain(x.bev[b])
  <2>1. x.bev[b].pend = w.bev[b].pend \cup {"W"} /\ x.bev[b].susp = w.bev[b].susp
    BY <1>4, <1>7 DEF Else
  <2>2. /\ x.bev[b].enabled = w.bev[b].enabled /\ x.bev[b].sock = w.bev[b].sock
        /\ x.bev[b].len = w.bev[b].len /\ x.bev[b].high = w.bev[b].high
        /\ x.bev[b].refused = w.bev[b].refused
    BY <1>4 DEF Still
  <2>3. "W" \in x.bev[b].pend /\ ("R" \in x.bev[b].pend <=> "R" \in w.bev[b].pend) BY <2>1
  <2>4. Waits(x.bev[b]) BY <1>7, <2>1, <2>2, <2>3 DEF Waits
  <2> QED BY <1>7, <2>2, <2>4 DEF Plain
<1> QED BY <1>5, <1>6, <1>7, BesideGood

\* bufferevent_socket_connect
LEMMA ConnectToGood ==
  ASSUME NEW w \in Worlds, NEW l, NEW S, Good(w, l, S), NEW b \in Bevs, w.bev[b].st = "live",
         "be_socket_setfd" \in Repaired,
         NEW result \in Results, NEW x, x = ConnectTo(w, b, result)
  PROVE  Fares(w, x, b, l, S)
<1>0. "error" \in Whats /\ D \in SUBSET D BY DEF Whats, Events
<1>1. CASE result = "fails"
  <2>1. x = RunCb(w, b, "error") BY <1>1 DEF ConnectTo
  <2> QED BY <1>0, <2>1, RunCbGood
<1>2. CASE result = "waits"
  <2>0. PICK s : s = "trying" OBVIOUS
  <2>1. PICK y : y = SetFdTo(w, b, s) OBVIOUS
  <2>2. Fares(w, y, b, l, S) BY <2>0, <2>1, SetFdToGood
  <2>3. y \in Worlds /\ Good(y, l, S) /\ y.bev[b].st = "live" BY <2>2, FaresOn
  <2>4. PICK z : z = SockEnable(y, b, {"W"}) OBVIOUS
  <2>5. z \in Worlds /\ z.bev[b] \in Bev
    <3>1. PICK ws : ws = {"W"} OBVIOUS
    <3>2. ws \in SUBSET D /\ z = SockEnable(y, b, ws) BY <2>4, <3>1, Directions
    <3>3. Started(y, z, b, ws) BY <2>3, <3>2, SockEnableIs
    <3> QED BY <3>3 DEF Started, Aside, Worlds
  <2>6. PICK v : v = [z.bev[b] EXCEPT !.connecting = TRUE, !.greet = TRUE] OBVIOUS
  <2>7. v \in Bev BY <2>5, <2>6 DEF Bev
  <2>8. /\ v.len = z.bev[b].len /\ Else(z.bev[b], v)
        /\ v.enabled = z.bev[b].enabled
        /\ v.pend = z.bev[b].pend /\ v.high = z.bev[b].high /\ v.sock = z.bev[b].sock
        /\ v.connecting = TRUE /\ v.refused = z.bev[b].refused
        /\ v.st = z.bev[b].st /\ v.final = z.bev[b].final
    BY <2>5, <2>6 DEF Bev, Else
  <2>9. x = [z EXCEPT !.bev[b] = v]
    <3>1. x = [z EXCEPT !.bev[b].connecting = TRUE, !.bev[b].greet = TRUE]
      BY <1>2, <2>0, <2>1, <2>4 DEF ConnectTo
    <3>2. z.bev \in [Bevs -> Bev] BY <2>5 DEF Worlds
    <3> QED BY <2>5, <2>6, <3>1, <3>2 DEF Worlds
  <2>10. Puts(z, x, b, v) BY <2>5, <2>7, <2>8, <2>9, PutAside
  <2>11. x.bev[b] = v BY <2>10 DEF Puts
  <2>12. Puts(z, x, b, x.bev[b]) BY <2>10, <2>11
  <2>13. Fares(y, x, b, l, S) BY <2>3, <2>4, <2>8, <2>11, <2>12, AwaitGood
  <2> QED BY <2>2, <2>13, FaresTwice
<1>3. CASE result = "at once"
  <2>0. PICK s : s = "up" OBVIOUS
  <2>1. PICK y : y = SetFdTo(w, b, s) OBVIOUS
  <2>2. Fares(w, y, b, l, S) BY <2>0, <2>1, SetFdToGood
  <2>3. y \in Worlds /\ Good(y, l, S) /\ y.bev[b].st = "live" BY <2>2, FaresOn
  <2>4. PICK z : z = [y EXCEPT !.bev[b].connecting = TRUE, !.bev[b].greet = TRUE] OBVIOUS
  <2>5. Fares(y, z, b, l, S) /\ z.bev[b].connecting = TRUE BY <2>3, <2>4, BeginGood
  <2>6. z \in Worlds /\ Good(z, l, S) /\ z.bev[b].st = "live" BY <2>3, <2>5, FaresOn
  <2>7. x = SockEnable(z, b, {"W"}) \/ x = Trigger(z, b, "W")
    BY <1>3, <2>0, <2>1, <2>4 DEF ConnectTo
  <2>8. Fares(z, x, b, l, S)
    <3>1. CASE x = SockEnable(z, b, {"W"})
      <4>1. PICK ws : ws = {"W"} OBVIOUS
      <4>2. ws \in SUBSET D /\ x = SockEnable(z, b, ws) BY <3>1, <4>1, Directions
      <4>3. Started(z, x, b, ws) BY <2>6, <4>2, SockEnableIs
      <4>4. x.bev[b].connecting = TRUE BY <2>5, <4>3 DEF Started, Still
      <4>5. Else(x.bev[b], x.bev[b]) BY DEF Else
      <4> QED BY <2>6, <3>1, <4>4, <4>5, AwaitGood
    <3>2. CASE x = Trigger(z, b, "W")
      <4>1. PICK d : d = "W" OBVIOUS
      <4>2. x = Trigger(z, b, d) BY <3>2, <4>1
      <4> QED BY <2>6, <4>2, TriggerGood
    <3> QED BY <2>7, <3>1, <3>2
  <2>9. Fares(w, z, b, l, S) BY <2>2, <2>5, FaresTwice
  <2> QED BY <2>8, <2>9, FaresTwice
<1>4. CASE result = "refused"
  <2>0. PICK s : s = "dead" OBVIOUS
  <2>1. PICK y : y = SetFdTo(w, b, s) OBVIOUS
  <2>2. Fares(w, y, b, l, S) BY <2>0, <2>1, SetFdToGood
  <2>3. y \in Worlds /\ Good(y, l, S) /\ y.bev[b].st = "live" BY <2>2, FaresOn
  <2>4. PICK z : z = RunCb(y, b, "error") OBVIOUS
  <2>5. Fares(y, z, b, l, S) BY <1>0, <2>3, <2>4, RunCbGood
  <2>6. z \in Worlds /\ Good(z, l, S) /\ z.bev[b].st = "live" BY <2>3, <2>5, FaresOn
  <2>7. x = DisableBev(z, b, D) BY <1>4, <2>0, <2>1, <2>4 DEF ConnectTo
  <2>8. Fares(z, x, b, l, S) BY <1>0, <2>6, <2>7, DisableGood
  <2>9. Fares(w, z, b, l, S) BY <2>2, <2>5, FaresTwice
  <2> QED BY <2>8, <2>9, FaresTwice
<1> QED BY <1>1, <1>2, <1>3, <1>4 DEF Results

---------------------------------------------------------------------------
(* The group suspends its members and lets them go on                      *)

\* What is said of the group is said of more directions, or of fewer.
LEMMA MoreGood ==
  ASSUME NEW w, NEW l, NEW S, Good(w, l, S), NEW T, S \cap D \subseteq T
  PROVE  Good(w, l, T)
<1>1. \A c \in Bevs : Firm(w, l, c, S) => Firm(w, l, c, T) BY DEF Firm, Stands, Upheld, Tied
<1> QED BY <1>1 DEF Good

LetGo(w, c, d) == w.bev[c].st = "live" /\ w.bev[c].final = {} => "GROUP" \notin w.bev[c].susp[d]

LEMMA LessGood ==
  ASSUME NEW w, NEW l, NEW S, Good(w, l, S), NEW d, \A c \in Bevs : LetGo(w, c, d)
  PROVE  Good(w, l, S \ {d})
<1>1. ASSUME NEW c \in Bevs, w.bev[c].st = "live", w.bev[c].final = {}
      PROVE  Firm(w, l, c, S \ {d})
  <2>1. Firm(w, l, c, S) BY <1>1 DEF Good
  <2>2. Tied(w, c, S \ {d}) BY <1>1, <2>1 DEF Firm, Stands, Upheld, Tied, LetGo
  <2> QED BY <2>1, <2>2 DEF Firm, Stands, Upheld
<1> QED BY <1>1 DEF Good

\* The group is no matter to its members but for who they are.
LEMMA RegroupGood ==
  ASSUME NEW w, NEW l, NEW S, Good(w, l, S), NEW x, x.bev = w.bev, x.queue = w.queue,
         x.grp.members = w.grp.members
  PROVE  Good(x, l, S)
<1>1. \A c \in Bevs : Firm(w, l, c, S) => Firm(x, l, c, S)
  BY DEF Firm, Stands, Upheld, Backed, Timed, Tied, Owed, Deferred
<1> QED BY <1>1 DEF Good

\* The members, one after the other
Goes(w, x, l, S) == x \in Worlds /\ Good(x, l, S) /\ x.grp = w.grp

LEMMA EachGood ==
  ASSUME NEW w, NEW l, NEW S, Goes(w, w, l, S), NEW N \in Nat, NEW who, NEW g,
         g[0] = w,
         \A i \in 1 .. N : Goes(w, g[i - 1], l, S) => Fares(g[i - 1], g[i], who[i], l, S)
  PROVE  \A i \in 0 .. N : Goes(w, g[i], l, S)
<1> DEFINE Bad == {i \in 0 .. N : ~Goes(w, g[i], l, S)}
<1> SUFFICES ASSUME Bad # {} PROVE FALSE OBVIOUS
<1>0. PICK n : n \in Bad OBVIOUS
<1>1. Bad \in SUBSET Nat OBVIOUS
<1>2. PICK m \in Bad : \A k \in Bad : m <= k BY <1>0, <1>1, LeastOne
<1>3. m \in 0 .. N /\ ~Goes(w, g[m], l, S) OBVIOUS
<1>4. m # 0 BY <1>3
<1>5. m \in 1 .. N /\ m - 1 \in 0 .. N /\ m - 1 \notin Bad BY <1>2, <1>3, <1>4
<1>6. Goes(w, g[m - 1], l, S) BY <1>5
<1>7. Fares(g[m - 1], g[m], who[m], l, S) BY <1>5, <1>6
<1>8. Goes(w, g[m], l, S) BY <1>6, <1>7 DEF Goes, Fares, Aside
<1> QED BY <1>3, <1>8

\* Who has been let go on stays so.
LEMMA EachFree ==
  ASSUME NEW w, NEW l, NEW S, NEW d, NEW N \in Nat, NEW who, NEW g, NEW j \in 1 .. N,
         \A i \in 1 .. N : /\ Fares(g[i - 1], g[i], who[i], l, S)
                           /\ "GROUP" \notin g[i].bev[who[i]].susp[d],
         who[j] \in Bevs
  PROVE  "GROUP" \notin g[N].bev[who[j]].susp[d]
<1> DEFINE Bad == {i \in j .. N : ~("GROUP" \notin g[i].bev[who[j]].susp[d])}
<1> SUFFICES ASSUME N \in Bad PROVE FALSE OBVIOUS
<1>1. Bad \in SUBSET Nat OBVIOUS
<1>2. PICK m \in Bad : \A k \in Bad : m <= k BY <1>1, LeastOne
<1>3. m \in j .. N /\ "GROUP" \in g[m].bev[who[j]].susp[d] OBVIOUS
<1>4. m # j BY <1>3
<1>5. m \in 1 .. N /\ m - 1 \in j .. N /\ m - 1 \notin Bad BY <1>2, <1>3, <1>4
<1>6. "GROUP" \notin g[m - 1].bev[who[j]].susp[d] BY <1>5
<1>7. Aside(g[m - 1], g[m], who[m]) /\ "GROUP" \notin g[m].bev[who[m]].susp[d]
  BY <1>5 DEF Fares
<1>8. CASE who[m] = who[j] BY <1>3, <1>7, <1>8
<1>9. CASE who[m] # who[j]
  <2>1. g[m].bev[who[j]] = g[m - 1].bev[who[j]] BY <1>7, <1>9 DEF Aside
  <2> QED BY <1>3, <1>6, <2>1
<1> QED BY <1>8, <1>9

\* The directions in which members are, or may still be, suspended by the group
Slow(w) == w.grp.suspended \cup w.grp.again
\* Whoever the group does not suspend has bytes left.
FedBut(w, ds) ==
  /\ w.grp.again \cap w.grp.suspended = {}
  /\ \A d \in D \ ds : d \notin w.grp.suspended => w.grp.limit[d] > 0
Fine(w, l) == w \in Worlds /\ FedBut(w, {}) /\ Good(w, l, Slow(w))

LEMMA GroupSuspendFine ==
  ASSUME NEW w \in Worlds, NEW l, Good(w, l, Slow(w)), NEW d \in D, FedBut(w, {d}), NEW busy,
         NEW x, x = GroupSuspend(w, d, busy)
  PROVE  Fine(x, l)
<1>1. PICK g : g = [w.grp EXCEPT !.suspended = @ \cup {d}, !.again = @ \ {d}] OBVIOUS
<1>2. /\ g \in Grp /\ g.members = w.grp.members /\ g.suspended = w.grp.suspended \cup {d}
      /\ g.again = w.grp.again \ {d} /\ g.limit = w.grp.limit
  BY <1>1 DEF Worlds, Grp
<1>3. PICK y : y = [w EXCEPT !.grp = g] OBVIOUS
<1>4. y \in Worlds /\ y.bev = w.bev /\ y.queue = w.queue /\ y.grp = g BY <1>2, <1>3 DEF Worlds
<1>5. y = [w EXCEPT !.grp.suspended = @ \cup {d}, !.grp.again = @ \ {d}]
  BY <1>1, <1>3 DEF Worlds
<1>6. PICK who : who = SetToSeq(y.grp.members \ busy) OBVIOUS
<1>7. Len(who) \in Nat /\ \A i \in 1 .. Len(who) : who[i] \in y.grp.members
  BY <1>4, <1>6, Lockable
<1>8. PICK N \in Nat : N = Len(who) BY <1>7
<1> DEFINE after == CHOOSE h : Suspended(h, N, y, who, d)
<1>9. x = after[N]
  BY <1>5, <1>6, <1>8 DEF GroupSuspend, EachMember, Suspended
<1>10. Suspended(after, N, y, who, d) BY SuspendLoop
<1> HIDE DEF after
<1>11. /\ after[0] = y
       /\ \A i \in 1 .. N : after[i] = Suspend(after[i - 1], who[i], d, "GROUP")
  BY <1>10 DEF Suspended
<1>12. PICK S : S = Slow(y) OBVIOUS
<1>13. d \in S \cap D /\ Slow(w) \subseteq S BY <1>2, <1>4, <1>12 DEF Slow
<1>14. Good(w, l, S) BY <1>13, MoreGood
<1>15. Good(y, l, S) BY <1>2, <1>4, <1>14, RegroupGood
<1>16. Goes(y, y, l, S) BY <1>4, <1>15 DEF Goes
<1>17. \A i \in 1 .. N : Goes(y, after[i - 1], l, S)
                          => Fares(after[i - 1], after[i], who[i], l, S)
  <2> SUFFICES ASSUME NEW i \in 1 .. N, Goes(y, after[i - 1], l, S)
               PROVE  Fares(after[i - 1], after[i], who[i], l, S)
    OBVIOUS
  <2>1. /\ after[i - 1] \in Worlds /\ Good(after[i - 1], l, S)
        /\ after[i - 1].grp.members = y.grp.members
    BY DEF Goes
  <2>2. who[i] \in after[i - 1].grp.members /\ who[i] \in Bevs
    BY <1>4, <1>7, <1>8, <2>1 DEF Worlds, Grp
  <2> QED BY <1>11, <1>13, <2>1, <2>2, GroupedGood
<1>18. \A i \in 0 .. N : Goes(y, after[i], l, S) BY <1>11, <1>16, <1>17, EachGood
<1>19. x \in Worlds /\ Good(x, l, S) /\ x.grp = g BY <1>4, <1>9, <1>18 DEF Goes
<1>20. Slow(x) = S BY <1>4, <1>12, <1>19 DEF Slow
<1>21. FedBut(x, {}) BY <1>2, <1>19 DEF FedBut
<1> QED BY <1>19, <1>20, <1>21 DEF Fine

LEMMA GroupUnsuspendFine ==
  ASSUME NEW w \in Worlds, NEW l, Good(w, l, Slow(w)), NEW d \in D, NEW ds, FedBut(w, ds),
         w.grp.limit[d] > 0, NEW busy, NEW x, x = GroupUnsuspend(w, d, busy)
  PROVE  x \in Worlds /\ Good(x, l, Slow(x)) /\ FedBut(x, ds \ {d}) /\ x.grp.limit = w.grp.limit
<1>1. PICK g : g = [w.grp EXCEPT !.suspended = @ \ {d},
                                 !.again = IF busy = {} THEN @ \ {d} ELSE @ \cup {d}] OBVIOUS
<1>2. /\ g \in Grp /\ g.members = w.grp.members /\ g.suspended = w.grp.suspended \ {d}
      /\ g.again = IF busy = {} THEN w.grp.again \ {d} ELSE w.grp.again \cup {d}
      /\ g.limit = w.grp.limit
  BY <1>1 DEF Worlds, Grp
<1>3. PICK y : y = [w EXCEPT !.grp = g] OBVIOUS
<1>4. y \in Worlds /\ y.bev = w.bev /\ y.queue = w.queue /\ y.grp = g BY <1>2, <1>3 DEF Worlds
<1>5. y = [w EXCEPT !.grp.suspended = @ \ {d},
                    !.grp.again = IF busy = {} THEN @ \ {d} ELSE @ \cup {d}]
  BY <1>1, <1>3 DEF Worlds
<1>6. PICK who : who = SetToSeq(y.grp.members \ busy) OBVIOUS
<1>7. Len(who) \in Nat /\ \A i \in 1 .. Len(who) : who[i] \in y.grp.members
  BY <1>4, <1>6, Lockable
<1>8. PICK N \in Nat : N = Len(who) BY <1>7
<1> DEFINE after == CHOOSE h : Unsuspended(h, N, y, who, d)
<1>9. x = after[N]
  BY <1>5, <1>6, <1>8 DEF GroupUnsuspend, EachMember, Unsuspended
<1>10. Unsuspended(after, N, y, who, d) BY UnsuspendLoop
<1> HIDE DEF after
<1>11. /\ after[0] = y
       /\ \A i \in 1 .. N : after[i] = Unsuspend(after[i - 1], who[i], d, "GROUP")
  BY <1>10 DEF Unsuspended
<1>12. PICK S : S = Slow(w) \cup {d} OBVIOUS
<1>14. Good(w, l, S)
  <2>1. Slow(w) \cap D \subseteq S BY <1>12
  <2> QED BY <2>1, MoreGood
<1>15. Good(y, l, S) BY <1>2, <1>4, <1>14, RegroupGood
<1>16. Goes(y, y, l, S) BY <1>4, <1>15 DEF Goes
<1>17. ASSUME NEW i \in 1 .. N, Goes(y, after[i - 1], l, S)
       PROVE  /\ Fares(after[i - 1], after[i], who[i], l, S)
              /\ "GROUP" \notin after[i].bev[who[i]].susp[d]
  <2>1. /\ after[i - 1] \in Worlds /\ Good(after[i - 1], l, S)
        /\ after[i - 1].grp.members = y.grp.members
    BY <1>17 DEF Goes
  <2>2. who[i] \in after[i - 1].grp.members /\ who[i] \in Bevs
    BY <1>4, <1>7, <1>8, <2>1 DEF Worlds, Grp
  <2>3. after[i - 1].bev[who[i]].st = "live" BY <2>1, <2>2 DEF Good
  <2> QED BY <1>11, <2>1, <2>2, <2>3, UngroupedGood
<1>18. \A i \in 0 .. N : Goes(y, after[i], l, S)
  <2>1. \A i \in 1 .. N : Goes(y, after[i - 1], l, S)
                            => Fares(after[i - 1], after[i], who[i], l, S)
    BY <1>17
  <2> QED BY <1>11, <1>16, <2>1, EachGood
<1>19. x \in Worlds /\ Good(x, l, S) /\ x.grp = g BY <1>4, <1>9, <1>18 DEF Goes
<1>20. Good(x, l, Slow(x))
  <2>1. CASE busy # {}
    <3>1. S \cap D \subseteq Slow(x) BY <1>2, <1>12, <1>19, <2>1 DEF Slow
    <3> QED BY <1>19, <3>1, MoreGood
  <2>2. CASE busy = {}
    <3>1. \A i \in 1 .. N : i - 1 \in 0 .. N OBVIOUS
    <3>2. \A i \in 1 .. N : /\ Fares(after[i - 1], after[i], who[i], l, S)
                            /\ "GROUP" \notin after[i].bev[who[i]].susp[d]
      BY <1>17, <1>18, <3>1
    <3>3. ASSUME NEW c \in Bevs PROVE LetGo(x, c, d)
      <4>1. CASE c \in x.grp.members
        <5>1. PICK M : M = y.grp.members \ busy OBVIOUS
        <5>2. c \in M BY <1>4, <1>19, <2>2, <4>1, <5>1
        <5>3. M \in SUBSET Bevs BY <1>4, <5>1 DEF Worlds, Grp
        <5>4. IsFiniteSet(M) BY <5>3, Sizes, FS_Subset
        <5>5. Tasks(who) = M /\ who \in Seq(M) BY <1>6, <5>1, <5>4, Listed
        <5>6. PICK j \in DOMAIN who : who[j] = c BY <5>2, <5>5 DEF Tasks
        <5>7. DOMAIN who = 1 .. N BY <1>8, <5>5
        <5>8. "GROUP" \notin after[N].bev[who[j]].susp[d]
          BY <3>2, <5>6, <5>7, EachFree
        <5> QED BY <1>9, <5>6, <5>8 DEF LetGo
      <4>2. CASE c \notin x.grp.members
        <5>1. x.bev[c].st = "live" /\ x.bev[c].final = {} => Tied(x, c, S)
          BY <1>19 DEF Good, Firm, Stands, Upheld
        <5> QED BY <4>2, <5>1 DEF Tied, LetGo
      <4> QED BY <4>1, <4>2
    <3>4. Good(x, l, S \ {d}) BY <1>19, <3>3, LessGood
    <3>5. S \ {d} = Slow(x) BY <1>2, <1>12, <1>19, <2>2 DEF Slow
    <3> QED BY <3>4, <3>5
  <2> QED BY <2>1, <2>2
<1>21. FedBut(x, ds \ {d})
  <2>1. x.grp.again \cap x.grp.suspended = {} BY <1>2, <1>19 DEF FedBut
  <2>2. \A e \in D \ (ds \ {d}) : e \notin x.grp.suspended => x.grp.limit[e] > 0
    BY <1>2, <1>19 DEF FedBut
  <2> QED BY <2>1, <2>2 DEF FedBut
<1> QED BY <1>2, <1>19, <1>20, <1>21

LEMMA FaresFine ==
  ASSUME NEW w, NEW x, NEW b, NEW l, Fine(w, l), w.bev[b].st = "live",
         Fares(w, x, b, l, Slow(w))
  PROVE  Fine(x, l) /\ x.bev[b].st = "live" /\ x.bev[b].final = w.bev[b].final
<1>1. x.grp = w.grp /\ x \in Worlds BY DEF Fares, Aside
<1>2. Slow(x) = Slow(w) /\ FedBut(x, {}) BY <1>1 DEF Slow, FedBut, Fine
<1> QED BY <1>1, <1>2 DEF Fine, Fares, Aside

\* What the bufferevent may do in the group is asked for.
LEMMA AskRlimGood ==
  ASSUME NEW w, NEW l, Fine(w, l), NEW b \in Bevs, w.bev[b].st = "live",
         NEW d \in D, NEW x, x = AskRlim(w, b, d)
  PROVE  Fares(w, x, b, l, Slow(w))
<1>0. w \in Worlds /\ Good(w, l, Slow(w)) BY DEF Fine
<1>1. PICK y : y = IF w.bev[b].cfg = NoCfg THEN w ELSE UpdateBuckets(w, b) OBVIOUS
<1>2. Fares(w, y, b, l, Slow(w)) BY <1>0, <1>1, BucketsGood, NothingGood
<1>3. y \in Worlds /\ Good(y, l, Slow(w)) /\ y.grp = w.grp BY <1>2, FaresOn
<1>4. x = IF b \in w.grp.members /\ d \in w.grp.suspended THEN Suspend(y, b, d, "GROUP") ELSE y
  BY <1>1 DEF AskRlim
<1>5. CASE b \in w.grp.members /\ d \in w.grp.suspended
  <2>1. x = Suspend(y, b, d, "GROUP") /\ b \in y.grp.members BY <1>3, <1>4, <1>5
  <2>2. d \in Slow(w) \cap D BY <1>5 DEF Slow
  <2>3. Fares(y, x, b, l, Slow(w)) BY <1>3, <2>1, <2>2, GroupedGood
  <2> QED BY <1>2, <2>3, FaresTwice
<1>6. CASE ~(b \in w.grp.members /\ d \in w.grp.suspended) BY <1>2, <1>4, <1>6
<1> QED BY <1>5, <1>6

\* bufferevent_decrement_read_buckets_, bufferevent_decrement_write_buckets_
LEMMA SpendFine ==
  ASSUME NEW w, NEW l, Fine(w, l), NEW b \in Bevs, w.bev[b].st = "live",
         NEW d \in D, NEW n \in Int, NEW busy, NEW x, x = Spend(w, b, d, n, busy)
  PROVE  Fine(x, l) /\ x.bev[b].st = "live" /\ x.bev[b].len = w.bev[b].len
<1>0. w \in Worlds /\ Good(w, l, Slow(w)) /\ FedBut(w, {}) BY DEF Fine
<1>1. PICK used : used = [w EXCEPT !.bev[b].limit[d] = @ - n] OBVIOUS
<1>2. PICK own :
        own = CASE w.bev[b].cfg = NoCfg -> w
                [] w.bev[b].cfg # NoCfg /\ w.bev[b].limit[d] - n <= 0 ->
                     Add(Suspend(used, b, d, "BW"), b, "T")
                [] w.bev[b].cfg # NoCfg /\ w.bev[b].limit[d] - n > 0 /\ "BW" \in w.bev[b].susp[d] ->
                     Unsuspend(IF "BW" \in w.bev[b].susp[Other(d)] THEN used ELSE Del(used, b, "T"),
                               b, d, "BW")
                [] OTHER -> used
  OBVIOUS
<1>3. Fares(w, own, b, l, Slow(w)) BY <1>0, <1>1, <1>2, SpendOwnGood
<1>4. Fine(own, l) BY <1>3, FaresFine
<1>5. own \in Worlds /\ Good(own, l, Slow(w)) /\ own.grp = w.grp BY <1>0, <1>3, FaresOn
<1>6. own.grp.limit \in [D -> Int] /\ own.grp \in Grp BY <1>5 DEF Worlds, Grp
<1>7. PICK m : m = [own.grp.limit EXCEPT ![d] = @ - n] OBVIOUS
<1>8. m \in [D -> Int] /\ \A e \in D \ {d} : m[e] = own.grp.limit[e] BY <1>6, <1>7
<1>9. PICK g : g = [own.grp EXCEPT !.limit = m] OBVIOUS
<1>10. /\ g \in Grp /\ g.members = own.grp.members /\ g.suspended = own.grp.suspended
       /\ g.again = own.grp.again /\ g.limit = m
  BY <1>6, <1>8, <1>9 DEF Grp
<1>11. PICK all : all = [own EXCEPT !.grp = g] OBVIOUS
<1>12. all \in Worlds /\ all.bev = own.bev /\ all.queue = own.queue /\ all.grp = g
  BY <1>5, <1>10, <1>11 DEF Worlds
<1>13. Slow(all) = Slow(w) /\ FedBut(all, {d})
  BY <1>0, <1>5, <1>8, <1>10, <1>12 DEF Slow, FedBut
<1>14. Good(all, l, Slow(all)) BY <1>5, <1>10, <1>12, <1>13, RegroupGood
<1>15. all = [own EXCEPT !.grp.limit[d] = @ - n] BY <1>5, <1>7, <1>9, <1>11 DEF Worlds
<1>16. x = CASE b \notin w.grp.members -> own
             [] b \in w.grp.members /\ all.grp.limit[d] <= 0 -> GroupSuspend(all, d, busy)
             [] b \in w.grp.members /\ all.grp.limit[d] > 0 /\ d \in w.grp.suspended ->
                  GroupUnsuspend(all, d, busy)
             [] OTHER -> all
  BY <1>1, <1>2, <1>15 DEF Spend
<1>17. all.grp.limit[d] \in Int BY <1>12 DEF Worlds, Grp
<1>18. /\ all.grp.limit[d] <= 0 => ~(all.grp.limit[d] > 0)
       /\ all.grp.limit[d] > 0 => ~(all.grp.limit[d] <= 0)
       /\ ~(all.grp.limit[d] <= 0) => all.grp.limit[d] > 0
  BY <1>17
<1>19. Fine(x, l)
  <2>1. CASE b \notin w.grp.members BY <1>4, <1>16, <2>1
  <2>2. CASE b \in w.grp.members /\ all.grp.limit[d] <= 0
    <3>1. x = GroupSuspend(all, d, busy) BY <1>16, <1>18, <2>2
    <3> QED BY <1>12, <1>13, <1>14, <3>1, GroupSuspendFine
  <2>3. CASE b \in w.grp.members /\ all.grp.limit[d] > 0 /\ d \in w.grp.suspended
    <3>1. x = GroupUnsuspend(all, d, busy) BY <1>16, <1>18, <2>3
    <3>2. PICK ds : ds = {d} OBVIOUS
    <3>3. FedBut(all, ds) BY <1>13, <3>2
    <3>4. x \in Worlds /\ Good(x, l, Slow(x)) /\ FedBut(x, ds \ {d})
      BY <1>12, <1>14, <2>3, <3>1, <3>3, GroupUnsuspendFine
    <3>5. ds \ {d} = {} BY <3>2
    <3> QED BY <3>4, <3>5 DEF Fine
  <2>4. CASE b \in w.grp.members /\ ~(all.grp.limit[d] <= 0) /\ d \notin w.grp.suspended
    <3>1. x = all BY <1>16, <1>18, <2>4
    <3>2. all.grp.limit[d] > 0 BY <1>18, <2>4
    <3>3. FedBut(all, {}) BY <1>13, <3>2 DEF FedBut
    <3> QED BY <1>12, <1>14, <3>1, <3>3 DEF Fine
  <2> QED BY <1>18, <2>1, <2>2, <2>3, <2>4
<1>20. Quiet(w, x, b) BY <1>0, SpendQuiet
<1> QED BY <1>19, <1>20 DEF Quiet, Does, Same, Keeps

---------------------------------------------------------------------------
(* The handlers of the two events                                          *)

Fit(w, l, b) == Fine(w, l) /\ w.bev[b].st = "live"

LEMMA FaresFit ==
  ASSUME NEW w, NEW x, NEW b, NEW l, Fit(w, l, b), Fares(w, x, b, l, Slow(w))
  PROVE  Fit(x, l, b)
BY FaresFine DEF Fit

LEMMA FitIs ==
  ASSUME NEW w, NEW l, NEW b, Fit(w, l, b)
  PROVE  /\ Fine(w, l) /\ w \in Worlds /\ Good(w, l, Slow(w)) /\ w.bev[b].st = "live"
         /\ FedBut(w, {})
BY DEF Fit, Fine

LEMMA IncrefFit ==
  ASSUME NEW w, NEW l, NEW b \in Bevs, Fit(w, l, b), NEW h, h = Incref(w, b)
  PROVE  /\ Fit(h, l, b) /\ Still(w.bev[b], h.bev[b])
         /\ h.bev[b].susp = w.bev[b].susp /\ h.bev[b].final = w.bev[b].final
<1>0. w \in Worlds /\ Good(w, l, Slow(w)) /\ w.bev[b].st = "live" BY FitIs
<1>1. w.bev[b] \in Bev BY <1>0 DEF Worlds
<1>2. w.bev[b].refcnt \in Int BY <1>1 DEF Bev
<1>3. PICK n \in Int : n = w.bev[b].refcnt + 1 BY <1>2
<1>4. PICK v : v = [w.bev[b] EXCEPT !.refcnt = n] OBVIOUS
<1>5. /\ v \in Bev /\ v.st = w.bev[b].st /\ v.final = w.bev[b].final
      /\ v.susp = w.bev[b].susp /\ v.pend = w.bev[b].pend /\ Still(w.bev[b], v)
  BY <1>1, <1>4 DEF Bev, Still
<1>6. h = [w EXCEPT !.bev[b] = v] BY <1>3, <1>4 DEF Incref
<1>7. Puts(w, h, b, v) BY <1>0, <1>5, <1>6, PutAside
<1>8. Aside(w, h, b) /\ h.bev[b] = v /\ h.queue = w.queue BY <1>7 DEF Puts
<1>9. SameTimer(w, h, b) BY <1>5, <1>8 DEF SameTimer
<1>10. Fares(w, h, b, l, Slow(w)) BY <1>0, <1>5, <1>8, <1>9, TouchGood
<1> QED BY <1>5, <1>8, <1>10, FaresFit

LEMMA ReadFromFit ==
  ASSUME NEW a, NEW l, NEW b \in Bevs, Fit(a, l, b), ReadFrom(a, b)
  PROVE  \E y : Fit(y, l, b) /\ Done(y, b)
<1>0. a \in Worlds /\ a.bev[b] \in Bev /\ Good(a, l, Slow(a)) /\ a.bev[b].st = "live"
  BY FitIs DEF Worlds
<1>1. CASE Done(a, b) BY <1>1
<1>2. CASE Done(Fail(a, b, "R", "eof"), b)
  <2>1. PICK y : y = Fail(a, b, "R", "eof") OBVIOUS
  <2>2. "eof" \in Whats BY DEF Whats, Events
  <2>3. Fares(a, y, b, l, Slow(a)) BY <1>0, <2>1, <2>2, FailGood, Directions
  <2> QED BY <1>2, <2>1, <2>3, FaresFit
<1>3. CASE /\ a.bev[b].sock = "refused"
           /\ Done([a EXCEPT !.bev[b].sock = "dead", !.bev[b].refused = TRUE], b)
  <2>1. PICK y : y = [a EXCEPT !.bev[b].sock = "dead", !.bev[b].refused = TRUE] OBVIOUS
  <2>2. Fares(a, y, b, l, Slow(a)) BY <1>0, <1>3, <2>1, RefusedGood
  <2> QED BY <1>3, <2>1, <2>2, FaresFit
<1> DEFINE most == IF a.bev[b].high = 0 THEN MaxLen - a.bev[b].len["R"]
                   ELSE Least(a.bev[b].high, MaxLen) - a.bev[b].len["R"]
           Taking(n, busy) == Trigger(Spend(SetInput(a, b, a.bev[b].len["R"] + n), b, "R", n, busy),
                                    b, "R")
<1>4. ASSUME NEW n \in 1 .. Least(most, RlimMax(a, b, "R")), NEW busy, NEW y,
             y = Taking(n, busy)
      PROVE  Fit(y, l, b)
  <2>1. a.bev[b].len["R"] \in 0 .. MaxLen /\ MaxLen \in Nat
    BY <1>0, Sizes, Directions DEF Good, Sized
  <2>2. a.bev[b].high \in Int BY <1>0 DEF Bev
  <2>3. most \in Int /\ a.bev[b].len["R"] + most <= MaxLen BY <2>1, <2>2 DEF Least
  <2> HIDE DEF most
  <2>4. RlimMax(a, b, "R") \in Int BY <1>0, RlimMaxType, Directions
  <2>5. n \in Nat \ {0} /\ n <= most BY <2>3, <2>4 DEF Least
  <2>6. PICK m \in 0 .. MaxLen : m = a.bev[b].len["R"] + n BY <2>1, <2>3, <2>5
  <2>7. PICK s : s = SetInput(a, b, m) OBVIOUS
  <2>8. Fares(a, s, b, l, Slow(a)) BY <1>0, <2>6, <2>7, SetInputGood
  <2>9. Fit(s, l, b) BY <2>8, FaresFit
  <2>10. PICK t : t = Spend(s, b, "R", n, busy) OBVIOUS
  <2>11. Fine(t, l) /\ t.bev[b].st = "live"
    BY <2>5, <2>9, <2>10, SpendFine, Directions DEF Fit
  <2>12. y = Trigger(t, b, "R") BY <1>4, <2>6, <2>7, <2>10
  <2>13. t \in Worlds /\ Good(t, l, Slow(t)) /\ Fit(t, l, b) BY <2>11 DEF Fit, Fine
  <2>14. Fares(t, y, b, l, Slow(t)) BY <2>11, <2>12, <2>13, TriggerGood
  <2> QED BY <2>13, <2>14, FaresFit
<1>5. ASSUME NEW n \in 1 .. Least(most, RlimMax(a, b, "R")), NEW busy, Done(Taking(n, busy), b)
      PROVE  \E y : Fit(y, l, b) /\ Done(y, b)
  <2>1. PICK y : y = Taking(n, busy) OBVIOUS
  <2>2. Fit(y, l, b) BY <1>4, <2>1
  <2>3. Done(y, b) BY <1>5, <2>1
  <2> QED BY <2>2, <2>3
<1> HIDE DEF Taking, most
<1>6. \/ Done(a, b) \/ Done(Fail(a, b, "R", "eof"), b)
      \/ /\ a.bev[b].sock = "refused"
         /\ Done([a EXCEPT !.bev[b].sock = "dead", !.bev[b].refused = TRUE], b)
      \/ \E n \in 1 .. Least(most, RlimMax(a, b, "R")) : \E busy : Done(Taking(n, busy), b)
  BY DEF ReadFrom, Taking, most
<1> QED BY <1>1, <1>2, <1>3, <1>5, <1>6

LEMMA ReadCbFit ==
  ASSUME NEW b \in Bevs, Fit(Now, loop, b), ReadCb(b)
  PROVE  \E y : Fit(y, loop, b) /\ Done(y, b)
<1>1. PICK h : h = Incref(Now, b) OBVIOUS
<1>2. Fit(h, loop, b) /\ Still(Now.bev[b], h.bev[b]) BY <1>1, IncrefFit
<1>3. /\ h \in Worlds /\ Good(h, loop, Slow(h)) /\ h.bev[b].st = "live" /\ Fine(h, loop)
  BY <1>2, FitIs
<1>4. \/ Done(Fail(h, b, "R", "timeout"), b)
      \/ /\ bev[b].high # 0 /\ bev[b].len["R"] >= bev[b].high
         /\ Done(Suspend(h, b, "R", "WM"), b)
      \/ ReadFrom(AskRlim(h, b, "R"), b)
  BY <1>1 DEF ReadCb
<1>5. CASE Done(Fail(h, b, "R", "timeout"), b)
  <2>1. PICK y : y = Fail(h, b, "R", "timeout") OBVIOUS
  <2>2. "timeout" \in Whats BY DEF Whats, Events
  <2>3. Fares(h, y, b, loop, Slow(h)) BY <1>3, <2>1, <2>2, FailGood, Directions
  <2>4. Fit(y, loop, b) BY <1>2, <2>3, FaresFit
  <2> QED BY <1>5, <2>1, <2>4
<1>6. CASE /\ bev[b].high # 0 /\ bev[b].len["R"] >= bev[b].high
           /\ Done(Suspend(h, b, "R", "WM"), b)
  <2>1. PICK y : y = Suspend(h, b, "R", "WM") OBVIOUS
  <2>2. h.bev[b].high = bev[b].high /\ h.bev[b].len = bev[b].len BY <1>2 DEF Still, Now
  <2>3. h.bev[b].high # 0 /\ h.bev[b].len["R"] >= h.bev[b].high BY <1>6, <2>2
  <2>4. Fares(h, y, b, loop, Slow(h)) BY <1>3, <2>1, <2>3, ReachedGood
  <2>5. Fit(y, loop, b) BY <1>2, <2>4, FaresFit
  <2> QED BY <1>6, <2>1, <2>5
<1>7. CASE ReadFrom(AskRlim(h, b, "R"), b)
  <2>1. PICK a : a = AskRlim(h, b, "R") OBVIOUS
  <2>2. Fares(h, a, b, loop, Slow(h)) BY <1>3, <2>1, AskRlimGood, Directions
  <2>3. Fit(a, loop, b) BY <1>2, <2>2, FaresFit
  <2>4. ReadFrom(a, b) BY <1>7, <2>1
  <2> QED BY <2>3, <2>4, ReadFromFit
<1> QED BY <1>4, <1>5, <1>6, <1>7

LEMMA EmptyFit ==
  ASSUME NEW a, NEW l, NEW b \in Bevs, Fit(a, l, b), a.bev[b].len["W"] = 0,
         NEW x, x = Del(a, b, "W")
  PROVE  Fit(x, l, b)
<1>0. a \in Worlds /\ Good(a, l, Slow(a)) /\ a.bev[b].st = "live" BY FitIs
<1>1. Fares(a, x, b, l, Slow(a)) BY <1>0, DelGood
<1> QED BY <1>1, FaresFit

LEMMA TriggerFit ==
  ASSUME NEW a, NEW l, NEW b \in Bevs, Fit(a, l, b), NEW d, NEW x, x = Trigger(a, b, d)
  PROVE  Fit(x, l, b)
<1>0. a \in Worlds /\ Good(a, l, Slow(a)) /\ a.bev[b].st = "live" BY FitIs
<1>1. Fares(a, x, b, l, Slow(a)) BY <1>0, TriggerGood
<1> QED BY <1>1, FaresFit

LEMMA FailFit ==
  ASSUME NEW a, NEW l, NEW b \in Bevs, Fit(a, l, b), NEW d \in D, NEW what \in Whats,
         NEW x, x = Fail(a, b, d, what)
  PROVE  Fit(x, l, b)
<1>0. a \in Worlds /\ Good(a, l, Slow(a)) /\ a.bev[b].st = "live" BY FitIs
<1>1. Fares(a, x, b, l, Slow(a)) BY <1>0, FailGood
<1> QED BY <1>1, FaresFit

LEMMA WriteToFit ==
  ASSUME NEW a, NEW l, NEW b \in Bevs, Fit(a, l, b), NEW connected, WriteTo(a, b, connected)
  PROVE  \E y : Fit(y, l, b) /\ Done(y, b)
<1>0. a \in Worlds /\ a.bev[b] \in Bev /\ Good(a, l, Slow(a)) /\ a.bev[b].st = "live"
  BY FitIs DEF Worlds
<1>1. CASE Done(a, b) BY <1>1
<1>2. CASE Done(Fail(a, b, "W", "error"), b)
  <2>1. PICK y : y = Fail(a, b, "W", "error") OBVIOUS
  <2>2. "error" \in Whats BY DEF Whats, Events
  <2>3. Fit(y, l, b) BY <2>1, <2>2, FailFit, Directions
  <2> QED BY <1>2, <2>1, <2>3
<1>3. CASE /\ a.bev[b].len["W"] = 0
           /\ Done(IF connected THEN Del(a, b, "W") ELSE Trigger(Del(a, b, "W"), b, "W"), b)
  <2>1. PICK z : z = Del(a, b, "W") OBVIOUS
  <2>2. Fit(z, l, b) BY <1>3, <2>1, EmptyFit
  <2>3. PICK y : y = IF connected THEN z ELSE Trigger(z, b, "W") OBVIOUS
  <2>4. Fit(y, l, b) BY <2>2, <2>3, TriggerFit
  <2> QED BY <1>3, <2>1, <2>3, <2>4
<1> DEFINE Sent(n, busy) == Spend([a EXCEPT !.bev[b].len["W"] = @ - n], b, "W", n, busy)
           Sending(n, busy) == Trigger(IF n = a.bev[b].len["W"] THEN Del(Sent(n, busy), b, "W")
                                       ELSE Sent(n, busy), b, "W")
<1>4. ASSUME NEW n \in 1 .. Least(a.bev[b].len["W"], RlimMax(a, b, "W")), NEW busy,
             NEW y, y = Sending(n, busy)
      PROVE  Fit(y, l, b)
  <2>1. a.bev[b].len["W"] \in Nat BY <1>0, Sizes, Directions DEF Good, Sized
  <2>2. RlimMax(a, b, "W") \in Int BY <1>0, RlimMaxType, Directions
  <2>3. n \in 1 .. a.bev[b].len["W"] /\ n \in Int BY <2>1, <2>2 DEF Least
  <2>14. a.bev[b].len["W"] \in 0 .. MaxLen /\ MaxLen \in Nat
    BY <1>0, Sizes, Directions DEF Good, Sized
  <2>15. PICK m \in 0 .. MaxLen : m = a.bev[b].len["W"] - n BY <2>3, <2>14
  <2>16. m < a.bev[b].len["W"] BY <2>3, <2>14, <2>15
  <2>4. PICK s : s = [a EXCEPT !.bev[b].len["W"] = m] OBVIOUS
  <2>17. Shrunk(a, s, b, m) BY <2>4, <2>16 DEF Shrunk
  <2>5. Fares(a, s, b, l, Slow(a)) BY <1>0, <2>17, SentGood
  <2>18. OnlyLen(a, s, b, "W", m) BY <1>0, <2>4, SetLen, Directions
  <2>6. Fit(s, l, b) /\ s.bev[b].len["W"] = a.bev[b].len["W"] - n
    BY <2>5, <2>15, <2>18, FaresFit DEF OnlyLen
  <2>7. PICK t : t = Spend(s, b, "W", n, busy) OBVIOUS
  <2>8. Fine(t, l) /\ t.bev[b].st = "live" /\ t.bev[b].len = s.bev[b].len
    BY <2>3, <2>6, <2>7, SpendFine, Directions DEF Fit
  <2>9. t = Sent(n, busy)
    <3>1. s = [a EXCEPT !.bev[b].len["W"] = @ - n] BY <2>4, <2>15
    <3> QED BY <2>7, <3>1
  <2> HIDE DEF Sent
  <2>10. PICK u : u = IF n = a.bev[b].len["W"] THEN Del(t, b, "W") ELSE t OBVIOUS
  <2>11. Fit(t, l, b) BY <2>8 DEF Fit
  <2>12. Fit(u, l, b)
    <3>1. CASE n = a.bev[b].len["W"]
      <4>1. s.bev[b].len["W"] = 0 BY <2>1, <2>6, <3>1
      <4>2. t.bev[b].len["W"] = 0 BY <2>8, <4>1
      <4> QED BY <2>10, <2>11, <3>1, <4>2, EmptyFit
    <3> QED BY <2>10, <2>11, <3>1
  <2>13. y = Trigger(u, b, "W") BY <1>4, <2>9, <2>10
  <2> QED BY <2>12, <2>13, TriggerFit
<1>5. ASSUME NEW n \in 1 .. Least(a.bev[b].len["W"], RlimMax(a, b, "W")), NEW busy,
             Done(Sending(n, busy), b)
      PROVE  \E y : Fit(y, l, b) /\ Done(y, b)
  <2>1. PICK y : y = Sending(n, busy) OBVIOUS
  <2>2. Fit(y, l, b) BY <1>4, <2>1
  <2>3. Done(y, b) BY <1>5, <2>1
  <2> QED BY <2>2, <2>3
<1>6. \/ Done(a, b) \/ Done(Fail(a, b, "W", "error"), b)
      \/ /\ a.bev[b].len["W"] = 0
         /\ Done(IF connected THEN Del(a, b, "W") ELSE Trigger(Del(a, b, "W"), b, "W"), b)
      \/ \E n \in 1 .. Least(a.bev[b].len["W"], RlimMax(a, b, "W")) :
           \E busy : Done(Sending(n, busy), b)
  BY DEF WriteTo
<1> HIDE DEF Sent, Sending
<1> QED BY <1>1, <1>2, <1>3, <1>5, <1>6

LEMMA AskFit ==
  ASSUME NEW w, NEW l, NEW b \in Bevs, Fit(w, l, b), NEW d \in D, NEW x, x = AskRlim(w, b, d)
  PROVE  Fit(x, l, b)
<1>1. Fine(w, l) /\ w.bev[b].st = "live" BY FitIs
<1>2. Fares(w, x, b, l, Slow(w)) BY <1>1, AskRlimGood
<1> QED BY <1>2, FaresFit

LEMMA WriteCbFit ==
  ASSUME NEW b \in Bevs, Fit(Now, loop, b), WriteCb(b)
  PROVE  \E y : Fit(y, loop, b) /\ Done(y, b)
<1>1. PICK h : h = Incref(Now, b) OBVIOUS
<1>2. Fit(h, loop, b) BY <1>1, IncrefFit
<1>3. h \in Worlds /\ Good(h, loop, Slow(h)) /\ h.bev[b].st = "live" BY <1>2, FitIs
<1>4. PICK e : e = EndConnect(h, b) OBVIOUS
<1>5. Fares(h, e, b, loop, Slow(h)) BY <1>3, <1>4, EndConnectGood
<1>6. Fit(e, loop, b) BY <1>2, <1>5, FaresFit
<1>7. \/ Done(Fail(h, b, "W", "timeout"), b)
      \/ Done(e, b)
      \/ WriteTo(AskRlim(e, b, "W"), b, TRUE)
      \/ WriteTo(AskRlim(h, b, "W"), b, FALSE)
  BY <1>1, <1>4, Zenon DEF WriteCb
<1>8. CASE Done(Fail(h, b, "W", "timeout"), b)
  <2>1. PICK y : y = Fail(h, b, "W", "timeout") OBVIOUS
  <2>2. "timeout" \in Whats BY DEF Whats, Events
  <2>3. Fit(y, loop, b) BY <1>2, <2>1, <2>2, FailFit, Directions
  <2> QED BY <1>8, <2>1, <2>3
<1>9. CASE Done(e, b) BY <1>6, <1>9
<1>10. CASE WriteTo(AskRlim(e, b, "W"), b, TRUE)
  <2>1. PICK a : a = AskRlim(e, b, "W") OBVIOUS
  <2>2. Fit(a, loop, b) BY <1>6, <2>1, AskFit, Directions
  <2>3. WriteTo(a, b, TRUE) BY <1>10, <2>1
  <2> QED BY <2>2, <2>3, WriteToFit
<1>11. CASE WriteTo(AskRlim(h, b, "W"), b, FALSE)
  <2>1. PICK a : a = AskRlim(h, b, "W") OBVIOUS
  <2>2. Fit(a, loop, b) BY <1>2, <2>1, AskFit, Directions
  <2>3. WriteTo(a, b, FALSE) BY <1>11, <2>1
  <2> QED BY <2>2, <2>3, WriteToFit
<1> QED BY <1>7, <1>8, <1>9, <1>10, <1>11

---------------------------------------------------------------------------
(* The end of a handler                                                    *)

LEMMA LessFit ==
  ASSUME NEW w, NEW l, NEW b \in Bevs, Fit(w, l, b), NEW z, z = Less(w, b)
  PROVE  Fit(z, l, b)
<1>0. w \in Worlds /\ Good(w, l, Slow(w)) /\ w.bev[b].st = "live" BY FitIs
<1>1. w.bev[b] \in Bev BY <1>0 DEF Worlds
<1>2. w.bev[b].refcnt \in Int BY <1>1 DEF Bev
<1>3. PICK n \in Int : n = w.bev[b].refcnt - 1 BY <1>2
<1>4. PICK v : v = [w.bev[b] EXCEPT !.refcnt = n] OBVIOUS
<1>5. /\ v \in Bev /\ v.st = w.bev[b].st /\ v.final = w.bev[b].final
      /\ v.susp = w.bev[b].susp /\ v.pend = w.bev[b].pend /\ Still(w.bev[b], v)
  BY <1>1, <1>4 DEF Bev, Still
<1>6. z = [w EXCEPT !.bev[b] = v] BY <1>3, <1>4 DEF Less
<1>7. Puts(w, z, b, v) BY <1>0, <1>5, <1>6, PutAside
<1>8. Aside(w, z, b) /\ z.bev[b] = v /\ z.queue = w.queue BY <1>7 DEF Puts
<1>9. SameTimer(w, z, b) BY <1>5, <1>8 DEF SameTimer
<1>10. Fares(w, z, b, l, Slow(w)) BY <1>0, <1>5, <1>8, <1>9, TouchGood
<1> QED BY <1>10, FaresFit

\* Of who is finalized nothing is asked.
LEMMA LastFine ==
  ASSUME NEW w, NEW l, NEW b \in Bevs, Fit(w, l, b),
         NEW x \in Worlds, x.grp = w.grp, \A c \in Bevs \ {b} : x.bev[c] = w.bev[c],
         x.bev[b].st = "live", x.bev[b].final # {}, x.bev[b].len = w.bev[b].len,
         \A e \in Tasks(w.queue) : e \in Tasks(x.queue) \/ e.b = b
  PROVE  Fine(x, l)
<1>0. Good(w, l, Slow(w)) /\ FedBut(w, {}) BY FitIs
<1>1. PICK S : S = Slow(w) OBVIOUS
<1>2. Slow(x) = S /\ FedBut(x, {}) BY <1>0, <1>1 DEF Slow, FedBut
<1>3. Good(w, l, S) BY <1>0, <1>1
<1>4. ASSUME NEW c \in Bevs \ {b}, Firm(w, l, c, S) PROVE Firm(x, l, c, S)
  <2>1. x.bev[c] = w.bev[c] OBVIOUS
  <2>2. Deferred(w, c) => Deferred(x, c) BY DEF Deferred
  <2>3. Timed(w, l, c) => Timed(x, l, c) BY <2>1 DEF Timed
  <2>4. Backed(x, l, c) BY <1>4, <2>1, <2>3 DEF Firm, Stands, Upheld, Backed
  <2>5. Owed(x, l, c) BY <1>4, <2>1, <2>2 DEF Firm, Stands, Upheld, Owed
  <2>6. Tied(x, c, S) BY <1>4, <2>1 DEF Firm, Stands, Upheld, Tied
  <2> QED BY <1>4, <2>1, <2>4, <2>5, <2>6 DEF Firm, Stands, Upheld
<1>5. \A c \in Bevs \ {b} :
         /\ Sized(x.bev[c]) /\ (c \in x.grp.members => x.bev[c].st = "live")
         /\ x.bev[c].st = "live" /\ x.bev[c].final = {} => Firm(x, l, c, S)
  BY <1>3, <1>4 DEF Good
<1>6. Sized(x.bev[b]) BY <1>3 DEF Good, Sized
<1>7. Good(x, l, S) BY <1>5, <1>6 DEF Good
<1> QED BY <1>2, <1>7 DEF Fine

LEMMA FinalizeFine ==
  ASSUME NEW z, NEW l, NEW b \in Bevs, Fit(z, l, b), Running(b) \in Kinds \cup {"none"},
         "bufferevent_decref_and_unlock_" \in Repaired, NEW x, x = Finalize(z, b)
  PROVE  Fine(x, l)
<1>0. z \in Worlds /\ z.bev[b].st = "live" BY FitIs
<1>1. PICK r : r = Del(z, b, "R") OBVIOUS
<1>2. Deleted(z, r, b, "R") BY <1>0, <1>1, DelIs
<1>3. PICK s : s = Del(r, b, "W") OBVIOUS
<1>4. Aside(z, r, b) /\ r.bev[b].len = z.bev[b].len BY <1>2 DEF Deleted, Still
<1>5. r \in Worlds BY <1>4 DEF Aside
<1>6. Deleted(r, s, b, "W") BY <1>3, <1>5, DelIs
<1>7. Aside(r, s, b) /\ s.bev[b].len = r.bev[b].len BY <1>6 DEF Deleted, Still
<1>8. s \in Worlds BY <1>7 DEF Aside
<1>9. PICK t : t = Del(s, b, "T") OBVIOUS
<1>10. Deleted(s, t, b, "T") BY <1>8, <1>9, DelIs
<1>11. Aside(s, t, b) /\ t.bev[b].len = s.bev[b].len BY <1>10 DEF Deleted, Still
<1>12. Aside(z, s, b) BY <1>4, <1>7, AsideTwice
<1>13. Aside(z, t, b) /\ t.bev[b].len = z.bev[b].len
  BY <1>4, <1>7, <1>11, <1>12, AsideTwice
<1>14. /\ t \in Worlds /\ t.grp = z.grp /\ \A c \in Bevs \ {b} : t.bev[c] = z.bev[c]
       /\ t.bev[b].st = "live" /\ t.bev[b].final = z.bev[b].final
       /\ \A e \in Tasks(z.queue) : e \in Tasks(t.queue) \/ e.b = b
  BY <1>0, <1>13 DEF Aside
<1>15. PICK k : k = IF Running(b) = "none" THEN "R" ELSE Running(b) OBVIOUS
<1>17. x = IF k \in z.bev[b].final THEN t
           ELSE [t EXCEPT !.queue = Append(@, Entry(b, "free", k)),
                          !.bev[b].final = IF "bufferevent_decref_and_unlock_" \in Repaired
                                           THEN {"R", "W", "T", "D"} ELSE @ \cup {k}]
  BY <1>1, <1>3, <1>9, <1>15, Zenon DEF Finalize
<1>20. k \in Kinds BY <1>15 DEF Kinds
<1>18. CASE k \in z.bev[b].final
  <2>1. x = t BY <1>17, <1>18
  <2>2. x.bev[b].final # {} BY <1>14, <1>18, <2>1
  <2> QED BY <1>13, <1>14, <2>1, <2>2, LastFine
<1>19. CASE k \notin z.bev[b].final
  <2>1. PICK v : v = [t.bev[b] EXCEPT !.final = Kinds] OBVIOUS
  <2>2. t.bev[b] \in Bev BY <1>14 DEF Worlds
  <2>3. v \in Bev /\ v.st = t.bev[b].st /\ v.len = t.bev[b].len /\ v.final = Kinds
    BY <2>1, <2>2 DEF Bev
  <2>4. PICK f : f = [b |-> b, k |-> "free", what |-> k] OBVIOUS
  <2>5. f \in Entries BY <1>20, <2>4 DEF Entries
  <2>6. PICK q : q = Append(t.queue, f) OBVIOUS
  <2>7. t.queue \in Seq(Entries) BY <1>14 DEF Worlds
  <2>8. q \in Seq(Entries) /\ Tasks(q) = Tasks(t.queue) \cup {f} BY <2>5, <2>6, <2>7, With
  <2>9. PICK y : y = [t EXCEPT !.queue = q] OBVIOUS
  <2>14. y \in Worlds /\ y.grp = t.grp /\ y.queue = q /\ y.bev = t.bev
    BY <1>14, <2>8, <2>9 DEF Worlds
  <2>15. x = [y EXCEPT !.bev[b] = v]
    <3>1. x = [t EXCEPT !.queue = Append(@, Entry(b, "free", k)), !.bev[b].final = Kinds]
      BY <1>17, <1>19 DEF Kinds
    <3>2. x = [t EXCEPT !.queue = q, !.bev[b].final = Kinds]
      BY <2>4, <2>6, <3>1 DEF Entry
    <3> QED BY <2>1, <2>9, <3>2
  <2>10. /\ x \in Worlds /\ x.grp = t.grp /\ x.queue = q /\ x.bev[b] = v
         /\ \A c \in Bevs \ {b} : x.bev[c] = t.bev[c]
    BY <2>3, <2>14, <2>15 DEF Worlds
  <2>11. \A e \in Tasks(z.queue) : e \in Tasks(x.queue) \/ e.b = b
    BY <1>14, <2>8, <2>10
  <2>12. x.bev[b].final # {} /\ x.bev[b].st = "live" /\ x.bev[b].len = z.bev[b].len
    BY <1>13, <1>14, <2>3, <2>10 DEF Kinds
  <2>13. x.grp = z.grp /\ \A c \in Bevs \ {b} : x.bev[c] = z.bev[c] BY <1>14, <2>10
  <2> QED BY <2>10, <2>11, <2>12, <2>13, LastFine
<1> QED BY <1>18, <1>19

\* bufferevent_decref_and_unlock_
LEMMA DecrefFine ==
  ASSUME NEW y, NEW l, NEW b \in Bevs, Fit(y, l, b), Running(b) \in Kinds \cup {"none"},
         "bufferevent_decref_and_unlock_" \in Repaired, NEW x, x = Decref(y, b)
  PROVE  Fine(x, l)
<1>1. PICK z : z = Less(y, b) OBVIOUS
<1>2. Fit(z, l, b) BY <1>1, LessFit
<1>3. x = IF z.bev[b].refcnt = 0 THEN Finalize(z, b) ELSE z BY <1>1 DEF Decref, Less
<1>4. CASE x = z BY <1>2, <1>4, FitIs
<1>5. CASE x = Finalize(z, b) BY <1>2, <1>5, FinalizeFine
<1> QED BY <1>3, <1>4, <1>5

---------------------------------------------------------------------------
(* The loop goes on                                                        *)

\* What the loop has had in hand is done, or still in hand.
Handed(w, l, m) ==
  \A c \in Bevs : w.bev[c].st = "live" /\ w.bev[c].final = {} =>
    /\ AtTimer(l, c) => Waited(w, c) \/ AtTimer(m, c)
    /\ \A t \in w.bev[c].tell :
         w.bev[c].cbs = TRUE /\ Awaits(l, c, t) => Deferred(w, c) \/ Awaits(m, c, t)

LEMMA HandedFine ==
  ASSUME NEW w, NEW l, NEW m, Fine(w, l), Handed(w, l, m)
  PROVE  Fine(w, m)
<1>1. PICK S : S = Slow(w) OBVIOUS
<1>2. Good(w, l, S) BY <1>1 DEF Fine
<1>3. ASSUME NEW c \in Bevs, w.bev[c].st = "live", w.bev[c].final = {}, Firm(w, l, c, S)
      PROVE  Firm(w, m, c, S)
  <2>1. /\ AtTimer(l, c) => Waited(w, c) \/ AtTimer(m, c)
        /\ \A t \in w.bev[c].tell :
             w.bev[c].cbs = TRUE /\ Awaits(l, c, t) => Deferred(w, c) \/ Awaits(m, c, t)
    BY <1>3 DEF Handed
  <2>2. Backed(w, l, c) /\ Owed(w, l, c) BY <1>3 DEF Firm, Stands, Upheld
  <2>3. Owed(w, m, c) BY <2>1, <2>2 DEF Owed
  <2>4. Backed(w, m, c)
    <3> SUFFICES ASSUME NEW d \in D, "BW" \in w.bev[c].susp[d]
                 PROVE  w.bev[c].cfg # NoCfg /\ Timed(w, m, c)
      BY DEF Backed
    <3>1. w.bev[c].cfg # NoCfg /\ Timed(w, l, c) BY <2>2 DEF Backed
    <3>2. Waited(w, c) => "T" \in w.bev[c].pend BY <1>3 DEF Waited
    <3> QED BY <2>1, <3>1, <3>2 DEF Timed
  <2> QED BY <1>3, <2>3, <2>4 DEF Firm, Stands, Upheld
<1>4. Good(w, m, S) BY <1>2, <1>3 DEF Good
<1> QED BY <1>1, <1>4 DEF Fine

LEMMA HandlerFine ==
  ASSUME Sound(Now, loop), "bufferevent_decref_and_unlock_" \in Repaired,
         NEW b \in Bevs, loop.k \in {"R", "W"}, NEW y, Fit(y, loop, b), Done(y, b)
  PROVE  Fine(Now', loop')
<1>1. PICK x : x = Decref(y, b) OBVIOUS
<1>2. Becomes(x) /\ loop' = Idle(x.queue) BY <1>1 DEF Done
<1>3. LoopFits(Now, loop) BY DEF Sound, Base
<1>4. Running(b) \in Kinds \cup {"none"} BY <1>3, RunningKind
<1>5. Fine(x, loop) BY <1>1, <1>4, DecrefFine
<1>6. \A c, t : ~AtTimer(loop, c) /\ ~Awaits(loop, c, t) BY DEF AtTimer, Awaits
<1>7. Handed(x, loop, loop') BY <1>6 DEF Handed
<1>8. Fine(x, loop') BY <1>5, <1>7, HandedFine
<1>9. x \in Worlds BY <1>5 DEF Fine
<1>10. Now' = x BY <1>2, <1>9, NowIs
<1> QED BY <1>8, <1>10

\* The callback that the loop is at belongs to a bufferevent that is live.
LEMMA LoopFit ==
  ASSUME Sound(Now, loop), Fine(Now, loop), NEW b \in Bevs, loop.b = b
  PROVE  Fit(Now, loop, b)
<1>1. LoopFits(Now, loop) BY DEF Sound, Base
<1> QED BY <1>1 DEF LoopFits, Fit

LEMMA ReadCbFine ==
  ASSUME Sound(Now, loop), Fine(Now, loop), "bufferevent_decref_and_unlock_" \in Repaired,
         NEW b \in Bevs, ReadCb(b)
  PROVE  Fine(Now', loop')
<1>1. Now \in Worlds BY DEF Fine
<1>2. loop.b = b /\ loop.k = "R" BY <1>1, ReadCbHandles
<1>3. Fit(Now, loop, b) BY <1>2, LoopFit
<1>4. PICK y : Fit(y, loop, b) /\ Done(y, b) BY <1>3, ReadCbFit
<1> QED BY <1>2, <1>4, HandlerFine

LEMMA WriteCbFine ==
  ASSUME Sound(Now, loop), Fine(Now, loop), "bufferevent_decref_and_unlock_" \in Repaired,
         NEW b \in Bevs, WriteCb(b)
  PROVE  Fine(Now', loop')
<1>1. Now \in Worlds BY DEF Fine
<1>2. loop.b = b /\ loop.k = "W" BY <1>1, WriteCbHandles
<1>3. Fit(Now, loop, b) BY <1>2, LoopFit
<1>4. PICK y : Fit(y, loop, b) /\ Done(y, b) BY <1>3, WriteCbFit
<1> QED BY <1>2, <1>4, HandlerFine

\* bev_refill_callback_
LEMMA RefillFine ==
  ASSUME Sound(Now, loop), Fine(Now, loop), NEW b \in Bevs, Refill(b)
  PROVE  Fine(Now', loop')
<1>1. loop.at = "taken" /\ loop.b = b /\ loop.k = "T" BY DEF Refill, Start
<1>2. PICK w : w = Now OBVIOUS
<1>3. PICK x : x = IF w.bev[b].cfg = NoCfg THEN w ELSE RefillOf(UpdateBuckets(w, b), b) OBVIOUS
<1>4. Becomes(x) /\ loop' = Idle(x.queue)
  <2>1. w.bev[b].cfg = bev[b].cfg BY <1>2 DEF Now
  <2> QED BY <1>2, <1>3, <2>1 DEF Refill
<1>5. Fit(w, loop, b) BY <1>1, <1>2, LoopFit
<1>6. w \in Worlds /\ Good(w, loop, Slow(w)) /\ w.bev[b].st = "live" BY <1>5, FitIs
<1>7. Fares(w, x, b, loop, Slow(w)) /\ Waited(x, b) BY <1>3, <1>6, RefillGood
<1>8. Fine(x, loop) BY <1>5, <1>7, FaresFit DEF Fit
<1>9. \A c : AtTimer(loop, c) => Waited(x, c) BY <1>1, <1>7 DEF AtTimer
<1>10. \A c, t : ~Awaits(loop, c, t) BY <1>1 DEF Awaits
<1>11. Handed(x, loop, loop') BY <1>9, <1>10 DEF Handed
<1>12. Fine(x, loop') BY <1>8, <1>11, HandedFine
<1>13. x \in Worlds BY <1>8 DEF Fine
<1>14. Now' = x BY <1>4, <1>13, NowIs
<1> QED BY <1>12, <1>14

LEMMA CallsAre ==
  /\ DOMAIN Calls = 1 .. 4 /\ Len(Calls) = 4
  /\ Calls[1] = "connected" /\ Calls[2] = "read" /\ Calls[3] = "write" /\ Calls[4] = "events"
BY DEF Calls

LEMMA CallOf ==
  ASSUME NEW t \in Events \cup {"read", "write"}
  PROVE  \E j \in 1 .. 4 : t \in Tells(Calls[j])
<1>1. CASE t = "read" BY <1>1, CallsAre DEF Tells
<1>2. CASE t = "write" BY <1>2, CallsAre DEF Tells
<1>3. CASE t \in Events BY <1>3, CallsAre DEF Tells
<1> QED BY <1>1, <1>2, <1>3

\* The callbacks that the deferred callback has before it are the i-th and on.
From(l, c, i) ==
  \A t \in Events \cup {"read", "write"} :
    Awaits(l, c, t) => \E j \in i .. 4 : t \in Tells(Calls[j])

\* There is less to tell.
LEMMA LessToldFit ==
  ASSUME NEW w, NEW l, NEW b \in Bevs, Fit(w, l, b), NEW T, NEW x, NEW v, Puts(w, x, b, v),
         Silent(w.bev[b], v), v.tell = w.bev[b].tell \ T
  PROVE  Fit(x, l, b)
<1>0. w \in Worlds /\ Good(w, l, Slow(w)) /\ w.bev[b].st = "live" BY FitIs
<1>1. PICK u \in Bev : u = w.bev[b] BY <1>0 DEF Worlds
<1>2. PICK s : s = u.tell \ T OBVIOUS
<1>5. /\ v.tell = s /\ v.cbs = u.cbs
      /\ v.susp = u.susp /\ v.pend = u.pend /\ v.enabled = u.enabled /\ v.len = u.len
      /\ v.high = u.high /\ v.sock = u.sock /\ v.connecting = u.connecting
      /\ v.refused = u.refused /\ v.cfg = u.cfg /\ v.limit = u.limit
  BY <1>1, <1>2 DEF Silent
<1>8. Aside(w, x, b) /\ x.bev[b] = v /\ x.queue = w.queue BY DEF Puts
<1>9. PICK S : S = Slow(w) OBVIOUS
<1>10. Good(w, l, S) BY <1>0, <1>9
<1>11. ASSUME w.bev[b].final = {} PROVE Firm(x, l, b, S)
  <2>1. Firm(w, l, b, S) BY <1>0, <1>10, <1>11 DEF Good
  <2>2. x.grp = w.grp BY <1>8 DEF Aside
  <2>3. Waits(v) /\ MarkHeld(v) /\ Plain(v) /\ Capped(v)
    BY <1>1, <1>5, <2>1 DEF Firm, Stands, Upheld, Waits, MarkHeld, Plain, Capped
  <2>4. Backed(x, l, b)
    BY <1>1, <1>5, <1>8, <2>1 DEF Firm, Stands, Upheld, Backed, Timed
  <2>5. Tied(x, b, S) BY <1>1, <1>5, <1>8, <2>1, <2>2 DEF Firm, Stands, Upheld, Tied
  <2>6. Owed(x, l, b)
    BY <1>1, <1>2, <1>5, <1>8, <2>1 DEF Firm, Stands, Upheld, Owed, Deferred
  <2> QED BY <1>8, <2>3, <2>4, <2>5, <2>6 DEF Firm, Stands, Upheld
<1>12. \A d \in D : x.bev[b].len[d] \in 0 .. MaxLen BY <1>1, <1>5, <1>8, <1>10 DEF Good, Sized
<1>13. Fares(w, x, b, l, S) BY <1>0, <1>8, <1>10, <1>11, <1>12, AsideGood
<1> QED BY <1>9, <1>13, FaresFit

LEMMA TellFine ==
  ASSUME Sound(Now, loop), Fine(Now, loop), "bufferevent_decref_and_unlock_" \in Repaired,
         NEW b \in Bevs, loop.at \in {"taken", "telling"}, loop.b = b, loop.k = "D",
         NEW i, TellFrom(Now, b, i),
         (From(loop, b, i) /\ i \in 1 .. 5) \/ \A t : ~Awaits(loop, b, t)
  PROVE  Fine(Now', loop')
<1>1. PICK w : w = Now OBVIOUS
<1>2. Fit(w, loop, b) BY <1>1, LoopFit
<1>3. w \in Worlds /\ w.bev[b] \in Bev BY <1>2, FitIs DEF Worlds
<1>4. PICK nx : nx = {j \in i .. Len(Calls) : w.bev[b].cbs
                                              /\ Tells(Calls[j]) \cap w.bev[b].tell # {}}
  OBVIOUS
<1>5. \A c : ~AtTimer(loop, c) BY DEF AtTimer
<1>6. \A c, t : Awaits(loop, c, t) => c = b BY DEF Awaits
<1>7. w.bev[b].tell \subseteq Events \cup {"read", "write"} BY <1>3 DEF Bev
<1>8. ASSUME NEW t \in w.bev[b].tell, w.bev[b].cbs = TRUE, Awaits(loop, b, t)
      PROVE  \E j \in nx : t \in Tells(Calls[j])
  <2>1. PICK j \in i .. 4 : t \in Tells(Calls[j])
    <3>1. From(loop, b, i) BY <1>8
    <3>2. t \in Events \cup {"read", "write"} BY <1>7
    <3> QED BY <1>8, <3>1, <3>2 DEF From
  <2>2. j \in i .. Len(Calls) BY CallsAre
  <2>3. Tells(Calls[j]) \cap w.bev[b].tell # {} BY <2>1
  <2>4. j \in nx BY <1>4, <1>8, <2>2, <2>3
  <2> QED BY <2>1, <2>4
<1>9. \/ nx = {} /\ Done(w, b)
      \/ /\ nx # {}
         /\ \E S : Becomes([w EXCEPT !.bev[b].tell = @ \ Tells(Calls[Min(nx)]),
                                     !.bev[b].greet = IF S = {} THEN @ ELSE FALSE])
         /\ loop' = [at |-> "telling", b |-> b, k |-> "D", what |-> Calls[Min(nx)]]
  BY <1>1, <1>4, Zenon DEF TellFrom
<1>10. CASE nx = {} /\ Done(w, b)
  <2>1. PICK x : x = Decref(w, b) OBVIOUS
  <2>2. Becomes(x) /\ loop' = Idle(x.queue) BY <1>10, <2>1 DEF Done
  <2>3. PICK m : m = loop' OBVIOUS
  <2>4. Handed(w, loop, m) BY <1>5, <1>6, <1>8, <1>10 DEF Handed
  <2>5. Fine(w, m) BY <1>1, <2>4, HandedFine
  <2>6. Fit(w, m, b) BY <1>2, <2>5 DEF Fit
  <2>7. LoopFits(Now, loop) BY DEF Sound, Base
  <2>8. Running(b) \in Kinds \cup {"none"} BY <2>7, RunningKind
  <2>9. Fine(x, m) BY <2>1, <2>6, <2>8, DecrefFine
  <2>10. x \in Worlds BY <2>9 DEF Fine
  <2> QED BY <2>2, <2>3, <2>9, <2>10, NowIs
<1>11. CASE /\ nx # {}
            /\ \E S : Becomes([w EXCEPT !.bev[b].tell = @ \ Tells(Calls[Min(nx)]),
                                        !.bev[b].greet = IF S = {} THEN @ ELSE FALSE])
            /\ loop' = [at |-> "telling", b |-> b, k |-> "D", what |-> Calls[Min(nx)]]
  <2>1. PICK k : k = Min(nx) OBVIOUS
  <2>2. ASSUME i \in 1 .. 5
        PROVE  k \in nx /\ k \in i .. 4 /\ \A j \in nx : j \in i .. 4 /\ k <= j
    <3>1. nx \in SUBSET Nat /\ nx \subseteq i .. 4 BY <1>4, <2>2, CallsAre
    <3>2. PICK n \in nx : \A j \in nx : n <= j BY <1>11, <3>1, LeastOne
    <3>3. k \in nx /\ \A j \in nx : k <= j BY <2>1, <3>2 DEF Min
    <3> QED BY <3>1, <3>3
  <2>4. PICK S : Becomes([w EXCEPT !.bev[b].tell = @ \ Tells(Calls[k]),
                                   !.bev[b].greet = IF S = {} THEN @ ELSE FALSE])
    BY <1>11, <2>1
  <2>5. PICK g : g = IF S = {} THEN w.bev[b].greet ELSE FALSE OBVIOUS
  <2>6. g \in BOOLEAN BY <1>3, <2>5 DEF Bev
  <2>7. PICK T : T = Tells(Calls[k]) OBVIOUS
  <2>17. PICK u \in Bev : u = w.bev[b] BY <1>3
  <2>18. PICK s : s = u.tell \ T OBVIOUS
  <2>19. s \in SUBSET (Events \cup {"read", "write"}) BY <2>17, <2>18 DEF Bev
  <2>20. PICK v : v = [u EXCEPT !.tell = s, !.greet = g] OBVIOUS
  <2>21. /\ v \in Bev /\ v.st = u.st /\ v.final = u.final /\ v.tell = s /\ Silent(u, v)
    BY <2>6, <2>19, <2>20 DEF Bev, Silent
  <2>8. PICK x : x = [w EXCEPT !.bev[b] = v] OBVIOUS
  <2>9. Becomes(x)
    <3>1. x = [w EXCEPT !.bev[b].tell = @ \ Tells(Calls[k]),
                        !.bev[b].greet = IF S = {} THEN @ ELSE FALSE]
      <4>1. v = [w.bev[b] EXCEPT !.tell = @ \ Tells(Calls[k]), !.greet = g]
        BY <2>7, <2>17, <2>18, <2>20
      <4> QED BY <1>3, <2>5, <2>8, <4>1 DEF Worlds
    <3> QED BY <2>4, <3>1
  <2>22. Puts(w, x, b, v) BY <1>3, <2>8, <2>17, <2>21, PutAside
  <2>10. Fit(x, loop, b) /\ x.bev[b].tell = w.bev[b].tell \ T /\ x.bev[b].cbs = w.bev[b].cbs
    <3>1. Fit(x, loop, b) BY <1>2, <2>17, <2>18, <2>21, <2>22, LessToldFit
    <3>2. x.bev[b] = v BY <2>22 DEF Puts
    <3>3. v.cbs = u.cbs BY <2>21 DEF Silent
    <3> QED BY <2>17, <2>18, <2>21, <3>1, <3>2, <3>3
  <2>11. loop' = [at |-> "telling", b |-> b, k |-> "D", what |-> Calls[k]] BY <1>11, <2>1
  <2>12. loop'.at = "telling" /\ loop'.b = b /\ loop'.k = "D" /\ loop'.what = Calls[k]
    BY <2>11
  <2>13. ASSUME NEW t \in x.bev[b].tell, x.bev[b].cbs = TRUE, Awaits(loop, b, t)
         PROVE  Awaits(loop', b, t)
    <3>1. t \in w.bev[b].tell /\ w.bev[b].cbs = TRUE /\ t \notin Tells(Calls[k])
      BY <2>7, <2>10, <2>13
    <3>2. PICK j \in nx : t \in Tells(Calls[j]) BY <1>8, <2>13, <3>1
    <3>5. i \in 1 .. 5 BY <2>13
    <3>6. k \in i .. 4 /\ j \in i .. 4 /\ k <= j /\ k # j BY <2>2, <3>1, <3>2, <3>5
    <3>3. k < j BY <3>5, <3>6
    <3>4. k \in DOMAIN Calls /\ j \in DOMAIN Calls BY <3>5, <3>6, CallsAre
    <3> QED BY <2>12, <3>2, <3>3, <3>4 DEF Awaits
  <2>14. Handed(x, loop, loop') BY <1>5, <1>6, <2>13 DEF Handed
  <2>15. Fine(x, loop') BY <2>10, <2>14, HandedFine, FitIs
  <2>16. x \in Worlds BY <2>15 DEF Fine
  <2> QED BY <2>9, <2>15, <2>16, NowIs
<1> QED BY <1>9, <1>10, <1>11

LEMMA RunDeferredFine ==
  ASSUME Sound(Now, loop), Fine(Now, loop), "bufferevent_decref_and_unlock_" \in Repaired,
         NEW b \in Bevs, RunDeferred(b)
  PROVE  Fine(Now', loop')
<1>1. /\ loop.at = "taken" /\ loop.b = b /\ loop.k = "D" /\ TellFrom(Now, b, 1)
  BY DEF RunDeferred, Start
<1>2. From(loop, b, 1) BY CallOf DEF From
<1> QED BY <1>1, <1>2, TellFine

LEMMA CallbackReturnsFine ==
  ASSUME Sound(Now, loop), Fine(Now, loop), "bufferevent_decref_and_unlock_" \in Repaired,
         NEW b \in Bevs, CallbackReturns(b)
  PROVE  Fine(Now', loop')
<1>1. PICK n : n = CHOOSE j \in DOMAIN Calls : Calls[j] = loop.what OBVIOUS
<1>2. loop.at = "telling" /\ loop.b = b /\ TellFrom(Now, b, 1 + n)
  BY <1>1 DEF CallbackReturns
<1>3. loop.k = "D" BY <1>2 DEF Sound, Base, LoopFits
<1>4. CASE \E j \in DOMAIN Calls : Calls[j] = loop.what
  <2>1. n \in 1 .. 4 /\ Calls[n] = loop.what BY <1>1, <1>4, CallsAre
  <2>2. PICK i \in 1 .. 5 : i = 1 + n BY <2>1
  <2>3. From(loop, b, i)
    <3> SUFFICES ASSUME NEW t \in Events \cup {"read", "write"}, Awaits(loop, b, t)
                 PROVE  \E j \in i .. 4 : t \in Tells(Calls[j])
      BY DEF From
    <3>1. PICK m, j \in 1 .. 4 : m < j /\ Calls[m] = loop.what /\ t \in Tells(Calls[j])
      BY <1>2, CallsAre DEF Awaits
    <3>2. \A p, q \in 1 .. 4 : Calls[p] = Calls[q] => p = q BY CallsAre
    <3>3. m = n BY <2>1, <3>1, <3>2
    <3>4. j \in i .. 4 BY <2>1, <2>2, <3>1, <3>3
    <3> QED BY <3>1, <3>4
  <2> QED BY <1>2, <1>3, <2>2, <2>3, TellFine
<1>5. CASE ~\E j \in DOMAIN Calls : Calls[j] = loop.what
  <2>1. \A t : ~Awaits(loop, b, t) BY <1>2, <1>5 DEF Awaits
  <2> QED BY <1>2, <1>3, <2>1, TellFine
<1> QED BY <1>4, <1>5

\* The loop takes a callback: what was queued for it is in hand.
LEMMA TakeFine ==
  ASSUME Sound(Now, loop), Fine(Now, loop), Take
  PROVE  Fine(Now', loop')
<1>1. PICK w : w = Now OBVIOUS
<1>2. PICK x : x = [w EXCEPT !.queue = Tail(w.queue)] OBVIOUS
<1>3. w \in Worlds /\ w.queue \in Seq(Entries) /\ QueueFits(w, loop)
  BY <1>1 DEF Sound, Base, Worlds
<1>4. w.queue # << >> /\ loop.at \in {"poll", "run"} BY <1>1 DEF Take, Now
<1>5. PICK e : e = Head(w.queue) OBVIOUS
<1>6. PICK q : q = Tail(w.queue) OBVIOUS
<1>7. q \in Seq(Entries) /\ Tasks(w.queue) \subseteq Tasks(q) \cup {e}
  <2>1. Apart(w.queue) BY <1>3 DEF QueueFits
  <2> QED BY <1>3, <1>4, <1>5, <1>6, <2>1, Rest
<1>8. x \in Worlds /\ x.bev = w.bev /\ x.grp = w.grp /\ x.queue = q
  BY <1>2, <1>3, <1>6, <1>7 DEF Worlds
<1>9. Becomes(x) /\ loop' = [at |-> "taken", b |-> e.b, k |-> e.k, what |-> e.what]
  BY <1>1, <1>5, <1>6, <1>8 DEF Take, Now, Becomes
<1>10. loop'.at = "taken" /\ loop'.b = e.b /\ loop'.k = e.k BY <1>9
<1>11. PICK S : S = Slow(w) OBVIOUS
<1>12. Slow(x) = S /\ FedBut(x, {}) BY <1>1, <1>8, <1>11 DEF Slow, FedBut, Fine
<1>13. Good(w, loop, S) BY <1>1, <1>11 DEF Fine
<1>14. ASSUME NEW c \in Bevs, Firm(w, loop, c, S) PROVE Firm(x, loop', c, S)
  <2>1. Timed(w, loop, c) => Timed(x, loop', c)
    <3>1. ~AtTimer(loop, c) BY <1>4 DEF AtTimer
    <3>2. e.b = c /\ e.k = "T" => AtTimer(loop', c) BY <1>10 DEF AtTimer
    <3>3. ASSUME NEW f \in Tasks(w.queue), f.b = c, f.k = "T" PROVE Timed(x, loop', c)
      <4>1. f \in Tasks(x.queue) \/ f = e BY <1>7, <1>8
      <4> QED BY <3>2, <3>3, <4>1 DEF Timed
    <3> QED BY <1>8, <3>1, <3>3 DEF Timed
  <2>2. ASSUME NEW t, Deferred(w, c) \/ Awaits(loop, c, t)
        PROVE  Deferred(x, c) \/ Awaits(loop', c, t)
    <3>1. ~Awaits(loop, c, t) BY <1>4 DEF Awaits
    <3>2. PICK f \in Tasks(w.queue) : f.b = c /\ f.k = "D" BY <2>2, <3>1 DEF Deferred
    <3>3. f \in Tasks(x.queue) \/ f = e BY <1>7, <1>8
    <3> QED BY <1>10, <3>2, <3>3 DEF Deferred, Awaits
  <2>3. Backed(x, loop', c) BY <1>8, <1>14, <2>1 DEF Firm, Stands, Upheld, Backed
  <2>4. Owed(x, loop', c) BY <1>8, <1>14, <2>2 DEF Firm, Stands, Upheld, Owed
  <2>5. Tied(x, c, S) BY <1>8, <1>14 DEF Firm, Stands, Upheld, Tied
  <2> QED BY <1>8, <1>14, <2>3, <2>4, <2>5 DEF Firm, Stands, Upheld
<1>15. Good(x, loop', S) BY <1>8, <1>13, <1>14 DEF Good
<1>16. Fine(x, loop') BY <1>8, <1>12, <1>15 DEF Fine
<1> QED BY <1>8, <1>9, <1>16, NowIs

\* bufferevent_finalize_cb_
LEMMA FinalizeCbFine ==
  ASSUME Sound(Now, loop), Sound(Now', loop'), Fine(Now, loop), NEW b \in Bevs, FinalizeCb(b)
  PROVE  Fine(Now', loop')
<1>1. PICK w, x : w = Now /\ x = Now' OBVIOUS
<1>2. w \in Worlds /\ w.queue \in Seq(Entries) /\ QueueFits(w, loop) /\ w.grp \in Grp
  BY <1>1 DEF Sound, Base, Worlds
<1>3. /\ w.queue # << >> /\ Head(w.queue).k = "free" /\ loop.at \in {"poll", "run"}
  BY <1>1 DEF FinalizeCb, Now
<1>4. PICK e : e = Head(w.queue) OBVIOUS
<1>5. x.queue = Tail(w.queue) BY <1>1 DEF FinalizeCb, Now
<1>6. Tasks(w.queue) \subseteq Tasks(x.queue) \cup {e}
  <2>1. Apart(w.queue) BY <1>2 DEF QueueFits
  <2> QED BY <1>2, <1>3, <1>4, <1>5, <2>1, Rest
<1>7. x \in Worlds BY <1>1 DEF Sound, Base
<1>8. /\ x.bev[b] = Gone(w.bev[b]) /\ \A c \in Bevs \ {b} : x.bev[c] = w.bev[c]
  <2>1. x.bev = [w.bev EXCEPT ![b] = Gone(@)] BY <1>1 DEF FinalizeCb, Now
  <2>2. w.bev \in [Bevs -> Bev] BY <1>2 DEF Worlds
  <2> QED BY <2>1, <2>2
<1>9. x.grp = [w.grp EXCEPT !.members = @ \ {b}] BY <1>1 DEF FinalizeCb, Now
<1>10. /\ x.grp.members = w.grp.members \ {b} /\ x.grp.suspended = w.grp.suspended
       /\ x.grp.again = w.grp.again /\ x.grp.limit = w.grp.limit
  BY <1>2, <1>9 DEF Grp
<1>11. PICK S : S = Slow(w) OBVIOUS
<1>12. Slow(x) = S /\ FedBut(x, {}) BY <1>1, <1>10, <1>11 DEF Slow, FedBut, Fine
<1>13. Good(w, loop, S) BY <1>1, <1>11 DEF Fine
<1>14. ASSUME NEW c \in Bevs \ {b}, Firm(w, loop, c, S) PROVE Firm(x, loop', c, S)
  <2>0. x.bev[c] = w.bev[c] BY <1>8
  <2>1. Timed(w, loop, c) => Timed(x, loop', c)
    <3>1. ~AtTimer(loop, c) BY <1>3 DEF AtTimer
    <3> QED BY <1>3, <1>4, <1>6, <2>0, <3>1 DEF Timed
  <2>2. ASSUME NEW t, Deferred(w, c) \/ Awaits(loop, c, t) PROVE Deferred(x, c)
    <3>1. ~Awaits(loop, c, t) BY <1>3 DEF Awaits
    <3> QED BY <1>3, <1>4, <1>6, <2>2, <3>1 DEF Deferred
  <2>3. Backed(x, loop', c) BY <1>14, <2>0, <2>1 DEF Firm, Stands, Upheld, Backed
  <2>4. Owed(x, loop', c) BY <1>14, <2>0, <2>2 DEF Firm, Stands, Upheld, Owed
  <2>5. Tied(x, c, S) BY <1>10, <1>14, <2>0 DEF Firm, Stands, Upheld, Tied
  <2> QED BY <1>14, <2>0, <2>3, <2>4, <2>5 DEF Firm, Stands, Upheld
<1>15. \A c \in Bevs \ {b} :
          /\ Sized(x.bev[c]) /\ (c \in x.grp.members => x.bev[c].st = "live")
          /\ x.bev[c].st = "live" /\ x.bev[c].final = {} => Firm(x, loop', c, S)
  BY <1>8, <1>10, <1>13, <1>14 DEF Good
<1>16. Sized(x.bev[b]) /\ x.bev[b].st # "live" /\ b \notin x.grp.members
  <2>1. PICK o : o = Fresh("none") OBVIOUS
  <2>2. o \in Bev BY <2>1, FreshType
  <2>3. o.len = [d \in D |-> 0] BY <2>1 DEF Fresh
  <2>4. x.bev[b] = [o EXCEPT !.st = "freed", !.own = FALSE, !.pend = w.bev[b].pend,
                             !.refcnt = w.bev[b].refcnt]
    BY <1>8, <2>1 DEF Gone
  <2>5. x.bev[b].len = o.len /\ x.bev[b].st = "freed" BY <2>2, <2>4 DEF Bev
  <2>6. \A d \in D : x.bev[b].len[d] \in 0 .. MaxLen BY <2>3, <2>5, Sizes
  <2> QED BY <1>10, <2>5, <2>6 DEF Sized
<1>17. Good(x, loop', S) BY <1>15, <1>16 DEF Good
<1> QED BY <1>1, <1>7, <1>12, <1>17 DEF Fine

\* bev_group_refill_callback_
LEMMA GroupRefillFine ==
  ASSUME Sound(Now, loop), Fine(Now, loop), GroupRefill
  PROVE  Fine(Now', loop')
<1>1. PICK w : w = Now OBVIOUS
<1>2. w \in Worlds /\ w.grp \in Grp /\ FedBut(w, {}) /\ Good(w, loop, Slow(w))
  BY <1>1 DEF Fine, Worlds
<1>3. loop.at = "taken" /\ loop.k = "G" BY DEF GroupRefill, Start
<1>4. PICK l : l = [d \in D |-> Refilled(w.grp.limit[d], GroupBurst, w.grp.owed)] OBVIOUS
<1>5. /\ l \in [D -> Int] /\ \A d \in D : w.grp.limit[d] > 0 => l[d] > 0
  <2>1. \A d \in D : w.grp.limit[d] \in Int BY <1>2 DEF Grp
  <2>2. w.grp.owed \in Nat /\ GroupBurst \in Int BY <1>2, Sizes DEF Grp
  <2>3. \A d \in D : Refilled(w.grp.limit[d], GroupBurst, w.grp.owed) \in Int
    BY <2>1, <2>2, RefilledType
  <2>4. GroupBurst >= Rate BY EvBevAssumption DEF EvBevAssumption
  <2>5. ASSUME NEW d \in D, w.grp.limit[d] > 0 PROVE l[d] > 0
    <3>1. PICK m \in Int : m = w.grp.limit[d] BY <2>1
    <3>2. PICK n \in Nat : n = w.grp.owed BY <2>2
    <3>3. m > 0 BY <2>5, <3>1
    <3>4. Refilled(m, GroupBurst, n) > 0 BY <2>2, <2>4, <3>3, RefilledMore
    <3> QED BY <1>4, <3>1, <3>2, <3>4
  <2> QED BY <1>4, <2>3, <2>5
<1>6. PICK g : g = [w.grp EXCEPT !.limit = l, !.owed = 0] OBVIOUS
<1>7. /\ g \in Grp /\ g.members = w.grp.members /\ g.suspended = w.grp.suspended
      /\ g.again = w.grp.again /\ g.limit = l
  BY <1>2, <1>5, <1>6 DEF Grp
<1>8. PICK full : full = [w EXCEPT !.grp = g] OBVIOUS
<1>9. full \in Worlds /\ full.bev = w.bev /\ full.queue = w.queue /\ full.grp = g
  BY <1>2, <1>7, <1>8 DEF Worlds
<1>10. full = UpdateGroup(Now)
  BY <1>1, <1>2, <1>4, <1>6, <1>8 DEF Worlds, UpdateGroup
<1>11. Slow(full) = Slow(w) /\ FedBut(full, {})
  BY <1>2, <1>5, <1>7, <1>9 DEF Slow, FedBut
<1>12. Good(full, loop, Slow(full)) BY <1>2, <1>7, <1>9, <1>11, RegroupGood
<1>13. PICK ds : ds = {d \in D : d \in grp.again \/ (d \in grp.suspended /\ full.grp.limit[d] >= 1)}
  OBVIOUS
<1>14. \A d \in ds \cap D : full.grp.limit[d] > 0
  <2>1. grp = w.grp BY <1>1 DEF Now
  <2> SUFFICES ASSUME NEW d \in ds \cap D PROVE full.grp.limit[d] > 0 OBVIOUS
  <2>2. CASE d \in grp.again BY <1>7, <1>9, <1>11, <2>1, <2>2 DEF FedBut
  <2>3. CASE full.grp.limit[d] >= 1
    <3>1. full.grp.limit[d] \in Int BY <1>5, <1>7, <1>9
    <3> QED BY <2>3, <3>1
  <2> QED BY <1>13, <2>2, <2>3
<1>15. PICK busy : /\ Becomes(ResumeGroup(full, ds, busy))
                   /\ loop' = Idle(ResumeGroup(full, ds, busy).queue)
  BY <1>10, <1>13, Zenon DEF GroupRefill
<1>16. PICK r : r = IF "R" \in ds THEN GroupUnsuspend(full, "R", busy) ELSE full OBVIOUS
<1>17. PICK x : x = IF "W" \in ds THEN GroupUnsuspend(r, "W", busy) ELSE r OBVIOUS
<1>18. x = ResumeGroup(full, ds, busy) BY <1>16, <1>17 DEF ResumeGroup, InTurn
<1>19. PICK no : no = {} OBVIOUS
<1>20. FedBut(full, no) BY <1>11, <1>19
<1>21. r \in Worlds /\ Good(r, loop, Slow(r)) /\ FedBut(r, no) /\ r.grp.limit = full.grp.limit
  <2>1. CASE "R" \notin ds BY <1>9, <1>12, <1>16, <1>20, <2>1
  <2>2. CASE "R" \in ds
    <3>1. full.grp.limit["R"] > 0 BY <1>14, <2>2, Directions
    <3>2. r = GroupUnsuspend(full, "R", busy) BY <1>16, <2>2
    <3>3. /\ r \in Worlds /\ Good(r, loop, Slow(r)) /\ FedBut(r, no \ {"R"})
          /\ r.grp.limit = full.grp.limit
      BY <1>9, <1>12, <1>20, <3>1, <3>2, GroupUnsuspendFine, Directions
    <3>4. no \ {"R"} = no BY <1>19
    <3> QED BY <3>3, <3>4
  <2> QED BY <2>1, <2>2
<1>22. x \in Worlds /\ Good(x, loop, Slow(x)) /\ FedBut(x, no)
  <2>1. CASE "W" \notin ds BY <1>17, <1>21, <2>1
  <2>2. CASE "W" \in ds
    <3>1. r.grp.limit["W"] > 0 BY <1>14, <1>21, <2>2, Directions
    <3>2. x = GroupUnsuspend(r, "W", busy) BY <1>17, <2>2
    <3>3. x \in Worlds /\ Good(x, loop, Slow(x)) /\ FedBut(x, no \ {"W"})
      BY <1>21, <3>1, <3>2, GroupUnsuspendFine, Directions
    <3>4. no \ {"W"} = no BY <1>19
    <3> QED BY <3>3, <3>4
  <2> QED BY <2>1, <2>2
<1>23. Fine(x, loop) BY <1>19, <1>22 DEF Fine
<1>24. \A c, t : ~AtTimer(loop, c) /\ ~Awaits(loop, c, t) BY <1>3 DEF AtTimer, Awaits
<1>25. Handed(x, loop, loop') BY <1>24 DEF Handed
<1>26. Fine(x, loop') BY <1>23, <1>25, HandedFine
<1> QED BY <1>15, <1>18, <1>22, <1>26, NowIs

---------------------------------------------------------------------------
(* Dispatch, time and the network                                          *)

\* But for the refill timer
Alike(u, v) ==
  /\ Still(u, v) /\ v.susp = u.susp /\ v.st = u.st /\ v.final = u.final /\ v.refcnt = u.refcnt
  /\ "R" \in v.pend <=> "R" \in u.pend
  /\ "W" \in v.pend <=> "W" \in u.pend

LEMMA AlikeGood ==
  ASSUME NEW w, NEW l, NEW S, Good(w, l, S), NEW x, NEW m, x.grp.members = w.grp.members,
         \A c \in Bevs : Alike(w.bev[c], x.bev[c]),
         \A c \in Bevs : Timed(w, l, c) => Timed(x, m, c),
         \A c \in Bevs : Deferred(w, c) => Deferred(x, c),
         \A c, t : ~Awaits(l, c, t) \/ Awaits(m, c, t)
  PROVE  Good(x, m, S)
<1>1. ASSUME NEW c \in Bevs, Firm(w, l, c, S) PROVE Firm(x, m, c, S)
  <2>0. Alike(w.bev[c], x.bev[c]) OBVIOUS
  <2>1. Backed(x, m, c) BY <1>1, <2>0 DEF Firm, Stands, Upheld, Backed, Alike, Still
  <2>2. Owed(x, m, c) BY <1>1, <2>0 DEF Firm, Stands, Upheld, Owed, Alike, Still
  <2>3. Tied(x, c, S) BY <1>1, <2>0 DEF Firm, Stands, Upheld, Tied, Alike
  <2>4. Capped(x.bev[c]) /\ MarkHeld(x.bev[c]) /\ Plain(x.bev[c])
    BY <1>1, <2>0 DEF Firm, Stands, Upheld, Capped, MarkHeld, Plain, Alike, Still
  <2>5. Waits(x.bev[c]) BY <1>1, <2>0 DEF Firm, Stands, Waits, Alike, Still
  <2> QED BY <2>1, <2>2, <2>3, <2>4, <2>5 DEF Firm, Stands, Upheld
<1>2. \A c \in Bevs : Sized(w.bev[c]) => Sized(x.bev[c]) BY DEF Sized, Alike, Still
<1>3. \A c \in Bevs : x.bev[c].st = w.bev[c].st /\ x.bev[c].final = w.bev[c].final BY DEF Alike
<1> QED BY <1>1, <1>2, <1>3 DEF Good

LEMMA PollFine ==
  ASSUME Sound(Now, loop), Sound(Now', loop'), Fine(Now, loop), Poll
  PROVE  Fine(Now', loop')
<1>1. PICK w, x : w = Now /\ x = Now' OBVIOUS
<1>2. /\ w \in Worlds /\ w.queue \in Seq(Entries) /\ w.grp \in Grp /\ x \in Worlds
      /\ w.bev = bev /\ w.grp = grp /\ w.queue = queue
      /\ x.bev = bev' /\ x.grp = grp' /\ x.queue = queue'
  BY <1>1 DEF Sound, Base, Worlds, Now
<1>3. PICK s \in Arrivals :
        queue' = queue \o s \o SetToSeq({Entry(b, "T", "none") : b \in Due})
                       \o IF grp.due THEN <<Entry(None, "G", "none")>> ELSE << >>
  BY DEF Poll
<1>4. PICK t : t = SetToSeq({Entry(b, "T", "none") : b \in Due}) OBVIOUS
<1>5. PICK u : u = IF grp.due THEN <<Entry(None, "G", "none")>> ELSE << >> OBVIOUS
<1>6. s \in Seq(Entries) BY ArrivalsFit
<1>7. t \in Seq(Entries) /\ Tasks(t) = {Entry(b, "T", "none") : b \in Due}
  <2>1. Due \in SUBSET Bevs BY DEF Due
  <2> QED BY <1>4, <2>1, TimersFit
<1>8. u \in Seq(Entries)
  <2>1. PICK e : e = Entry(None, "G", "none") OBVIOUS
  <2>2. e \in Entries BY <2>1 DEF Entry, Entries
  <2> QED BY <1>5, <2>1, <2>2
<1>9. PICK p : p = w.queue \o s OBVIOUS
<1>10. p \in Seq(Entries) /\ Tasks(p) = Tasks(w.queue) \cup Tasks(s) BY <1>2, <1>6, <1>9, Both
<1>11. PICK q : q = p \o t OBVIOUS
<1>12. q \in Seq(Entries) /\ Tasks(q) = Tasks(p) \cup Tasks(t) BY <1>7, <1>10, <1>11, Both
<1>13. x.queue = q \o u BY <1>2, <1>3, <1>4, <1>5, <1>9, <1>11
<1>14. Tasks(x.queue) = Tasks(q) \cup Tasks(u) BY <1>8, <1>12, <1>13, Both
<1>15. /\ Tasks(w.queue) \subseteq Tasks(x.queue)
       /\ \A b \in Due : Entry(b, "T", "none") \in Tasks(x.queue)
  BY <1>7, <1>10, <1>12, <1>14
<1>16. ASSUME NEW c \in Bevs
       PROVE  /\ Alike(w.bev[c], x.bev[c])
              /\ c \notin Due => x.bev[c] = w.bev[c]
  <2>1. w.bev[c] \in Bev BY <1>2 DEF Worlds
  <2>2. x.bev[c] = IF c \in Due THEN [w.bev[c] EXCEPT !.pend = @ \ {"T"}, !.due = FALSE]
                   ELSE w.bev[c]
    BY <1>2 DEF Poll
  <2>3. CASE c \notin Due BY <2>2, <2>3 DEF Alike, Still
  <2>4. CASE c \in Due
    <3>1. x.bev[c] = [w.bev[c] EXCEPT !.pend = w.bev[c].pend \ {"T"}, !.due = FALSE]
      BY <2>2, <2>4
    <3>2. /\ Still(w.bev[c], x.bev[c]) /\ x.bev[c].susp = w.bev[c].susp
          /\ x.bev[c].st = w.bev[c].st
      BY <2>1, <3>1 DEF Bev, Still
    <3>3. x.bev[c].final = w.bev[c].final /\ x.bev[c].refcnt = w.bev[c].refcnt
          /\ x.bev[c].pend = w.bev[c].pend \ {"T"}
      BY <2>1, <3>1 DEF Bev
    <3> QED BY <2>4, <3>2, <3>3 DEF Alike
  <2> QED BY <2>3, <2>4
<1>17. loop.at \in {"poll", "run"} BY DEF Poll, Idling
<1>18. \A c : ~AtTimer(loop, c) BY <1>17 DEF AtTimer
<1>19. \A c, e : ~Awaits(loop, c, e) BY <1>17 DEF Awaits
<1>20. ASSUME NEW c \in Bevs, Timed(w, loop, c) PROVE Timed(x, loop', c)
  <2>1. CASE c \in Due
    <3>1. Entry(c, "T", "none").b = c /\ Entry(c, "T", "none").k = "T" BY DEF Entry
    <3> QED BY <1>15, <2>1, <3>1 DEF Timed
  <2>2. CASE c \notin Due
    <3>1. x.bev[c] = w.bev[c] BY <1>16, <2>2
    <3> QED BY <1>15, <1>18, <1>20, <3>1 DEF Timed
  <2> QED BY <2>1, <2>2
<1>21. \A c \in Bevs : Deferred(w, c) => Deferred(x, c) BY <1>15 DEF Deferred
<1>22. /\ x.grp.members = w.grp.members /\ x.grp.suspended = w.grp.suspended
       /\ x.grp.again = w.grp.again /\ x.grp.limit = w.grp.limit
  <2>1. x.grp = [w.grp EXCEPT !.due = FALSE] BY <1>2 DEF Poll
  <2> QED BY <1>2, <2>1 DEF Grp
<1>23. PICK S : S = Slow(w) OBVIOUS
<1>24. Slow(x) = S /\ FedBut(x, {}) BY <1>1, <1>22, <1>23 DEF Slow, FedBut, Fine
<1>25. Good(w, loop, S) BY <1>1, <1>23 DEF Fine
<1>26. Good(x, loop', S)
  <2>1. \A c \in Bevs : Alike(w.bev[c], x.bev[c]) BY <1>16
  <2>2. \A c \in Bevs : Timed(w, loop, c) => Timed(x, loop', c) BY <1>20
  <2>3. \A c, e : ~Awaits(loop, c, e) \/ Awaits(loop', c, e) BY <1>19
  <2> QED BY <1>21, <1>22, <1>25, <2>1, <2>2, <2>3, AlikeGood
<1> QED BY <1>1, <1>2, <1>24, <1>26 DEF Fine

LEMMA TickFine ==
  ASSUME Sound(Now, loop), Sound(Now', loop'), Fine(Now, loop), Tick
  PROVE  Fine(Now', loop')
<1>1. PICK w, x : w = Now /\ x = Now' OBVIOUS
<1>2. /\ w \in Worlds /\ w.grp \in Grp /\ x \in Worlds
      /\ w.bev = bev /\ w.grp = grp /\ w.queue = queue
      /\ x.bev = bev' /\ x.grp = grp' /\ x.queue = queue'
  BY <1>1 DEF Sound, Base, Worlds, Now
<1>3. x.queue = w.queue /\ loop' = loop BY <1>2 DEF Tick
<1>4. ASSUME NEW c \in Bevs PROVE Alike(w.bev[c], x.bev[c]) /\ x.bev[c].pend = w.bev[c].pend
  <2>1. w.bev[c] \in Bev BY <1>2 DEF Worlds
  <2>2. PICK o, d : /\ o = Least(w.bev[c].owed + 1, 2)
                    /\ d = IF "T" \in w.bev[c].pend THEN TRUE ELSE w.bev[c].due
    OBVIOUS
  <2>3. x.bev[c] = w.bev[c] \/ x.bev[c] = [w.bev[c] EXCEPT !.owed = o, !.due = d]
    <3>1. bev'[c] = bev[c] \/ bev'[c] = [bev[c] EXCEPT !.owed = Least(bev[c].owed + 1, 2),
                                          !.due = IF "T" \in bev[c].pend THEN TRUE ELSE bev[c].due]
      BY DEF Tick
    <3>2. o = Least(bev[c].owed + 1, 2) BY <1>2, <2>2
    <3>3. d = IF "T" \in bev[c].pend THEN TRUE ELSE bev[c].due BY <1>2, <2>2
    <3>4. bev'[c] = bev[c] \/ bev'[c] = [bev[c] EXCEPT !.owed = o, !.due = d]
      BY <3>1, <3>2, <3>3
    <3> QED BY <1>2, <3>4
  <2>4. /\ Still(w.bev[c], x.bev[c]) /\ x.bev[c].susp = w.bev[c].susp
        /\ x.bev[c].st = w.bev[c].st
    BY <2>1, <2>3 DEF Bev, Still
  <2>5. /\ x.bev[c].final = w.bev[c].final /\ x.bev[c].refcnt = w.bev[c].refcnt
        /\ x.bev[c].pend = w.bev[c].pend
    BY <2>1, <2>3 DEF Bev
  <2> QED BY <2>4, <2>5 DEF Alike
<1>5. /\ x.grp.members = w.grp.members /\ x.grp.suspended = w.grp.suspended
      /\ x.grp.again = w.grp.again /\ x.grp.limit = w.grp.limit
  <2>1. PICK o : o = Least(w.grp.owed + 1, 2) OBVIOUS
  <2>2. x.grp = w.grp \/ x.grp = [w.grp EXCEPT !.owed = o, !.due = TRUE]
    BY <1>2, <2>1 DEF Tick
  <2> QED BY <1>2, <2>2 DEF Grp
<1>6. PICK S : S = Slow(w) OBVIOUS
<1>7. Slow(x) = S /\ FedBut(x, {}) BY <1>1, <1>5, <1>6 DEF Slow, FedBut, Fine
<1>8. Good(w, loop, S) BY <1>1, <1>6 DEF Fine
<1>9. Good(x, loop', S)
  <2>1. \A c \in Bevs : Alike(w.bev[c], x.bev[c]) BY <1>4
  <2>2. \A c \in Bevs : Timed(w, loop, c) => Timed(x, loop', c) BY <1>3, <1>4 DEF Timed
  <2>3. \A c \in Bevs : Deferred(w, c) => Deferred(x, c) BY <1>3 DEF Deferred
  <2>4. \A c, t : ~Awaits(loop, c, t) \/ Awaits(loop', c, t) BY <1>3
  <2> QED BY <1>5, <1>8, <2>1, <2>2, <2>3, <2>4, AlikeGood
<1> QED BY <1>1, <1>2, <1>7, <1>9 DEF Fine

LEMMA NetworkFine ==
  ASSUME Sound(Now, loop), Fine(Now, loop), NEW b \in Bevs, Network(b)
  PROVE  Fine(Now', loop')
<1>1. PICK w : w = Now OBVIOUS
<1>2. /\ w \in Worlds /\ w.bev[b] \in Bev /\ Good(w, loop, Slow(w)) /\ FedBut(w, {})
      /\ w.bev = bev /\ w.grp = grp /\ w.queue = queue
  BY <1>1 DEF Fine, Worlds, Now
<1>3. PICK s \in {"up", "refused"} : bev' = [bev EXCEPT ![b].sock = s] BY DEF Network
<1>4. w.bev[b].sock = "trying" BY <1>2 DEF Network
<1>5. PICK v : v = [w.bev[b] EXCEPT !.sock = s] OBVIOUS
<1>6. v \in Bev /\ v.st = w.bev[b].st /\ v.final = w.bev[b].final /\ v.pend = w.bev[b].pend
      /\ v.susp = w.bev[b].susp /\ v.refcnt = w.bev[b].refcnt
  BY <1>2, <1>5 DEF Bev
<1>7. /\ v.cbs = w.bev[b].cbs /\ v.enabled = w.bev[b].enabled /\ v.len = w.bev[b].len
      /\ v.high = w.bev[b].high /\ v.connecting = w.bev[b].connecting
      /\ v.refused = w.bev[b].refused /\ v.cfg = w.bev[b].cfg /\ v.limit = w.bev[b].limit
      /\ v.tell = w.bev[b].tell
  BY <1>2, <1>5 DEF Bev
<1>8. PICK x : x = [w EXCEPT !.bev[b] = v] OBVIOUS
<1>9. /\ x \in Worlds /\ x.grp = w.grp /\ x.queue = w.queue /\ x.bev[b] = v
      /\ x.bev = [w.bev EXCEPT ![b] = v] /\ \A c \in Bevs \ {b} : x.bev[c] = w.bev[c]
  BY <1>2, <1>6, <1>8 DEF Worlds
<1>10. Becomes(x) /\ loop' = loop BY <1>2, <1>3, <1>5, <1>9 DEF Network, Becomes
<1>11. PICK S : S = Slow(w) OBVIOUS
<1>12. ASSUME NEW c \in Bevs, Firm(w, loop, c, S) PROVE Firm(x, loop, c, S)
  <2>1. CASE c # b
    <3>1. x.bev[c] = w.bev[c] BY <1>9, <2>1
    <3> QED BY <1>9, <1>12, <3>1 DEF Firm, Stands, Upheld, Backed, Timed, Tied, Owed, Deferred
  <2>2. CASE c = b
    <3>1. Upheld(x, loop, b, S)
      BY <1>6, <1>7, <1>9, <1>12, <2>2
      DEF Firm, Stands, Upheld, Capped, Backed, Timed, Tied, Owed, Deferred
    <3>2. Plain(v) BY <1>4, <1>7, <1>12, <2>2 DEF Firm, Stands, Plain
    <3>3. MarkHeld(v) BY <1>6, <1>7, <1>12, <2>2 DEF Firm, MarkHeld
    <3>4. Waits(v) BY <1>4, <1>6, <1>7, <1>12, <2>2 DEF Firm, Stands, Waits
    <3> QED BY <1>9, <2>2, <3>1, <3>2, <3>3, <3>4 DEF Firm, Stands
  <2> QED BY <2>1, <2>2
<1>13. \A c \in Bevs : Sized(w.bev[c]) => Sized(x.bev[c]) BY <1>6, <1>7, <1>9 DEF Sized
<1>14. \A c \in Bevs : x.bev[c].st = w.bev[c].st /\ x.bev[c].final = w.bev[c].final
  BY <1>6, <1>9
<1>15. Good(x, loop, S) BY <1>2, <1>9, <1>11, <1>12, <1>13, <1>14 DEF Good
<1>16. Slow(x) = S /\ FedBut(x, {}) BY <1>2, <1>9, <1>11 DEF Slow, FedBut
<1>17. Fine(x, loop) BY <1>9, <1>15, <1>16 DEF Fine
<1> QED BY <1>9, <1>10, <1>17, NowIs

---------------------------------------------------------------------------
(* The calls of the program                                                *)

\* What no property speaks of is put.
LEMMA PutGood ==
  ASSUME NEW w \in Worlds, NEW l, NEW S, Good(w, l, S), NEW b \in Bevs, w.bev[b].st = "live",
         NEW v \in Bev, Still(w.bev[b], v), v.st = w.bev[b].st, v.final = w.bev[b].final,
         v.susp = w.bev[b].susp, v.pend = w.bev[b].pend, NEW x, x = [w EXCEPT !.bev[b] = v]
  PROVE  Fares(w, x, b, l, S)
<1>1. Puts(w, x, b, v) BY PutAside
<1>2. Aside(w, x, b) /\ x.bev[b] = v /\ x.queue = w.queue BY <1>1 DEF Puts
<1>3. SameTimer(w, x, b) BY <1>2 DEF SameTimer
<1> QED BY <1>2, <1>3, TouchGood

\* What a call of the program finds
LEMMA OwnedFine ==
  ASSUME Sound(Now, loop), Fine(Now, loop), NEW b \in Bevs, bev[b].own
  PROVE  /\ Now \in Worlds /\ Now.bev = bev /\ Now.grp = grp /\ Now.queue = queue
         /\ Now.bev[b] \in Bev /\ grp \in Grp /\ Now.bev[b].st = "live" /\ Now.bev[b].final = {}
         /\ Good(Now, loop, Slow(Now)) /\ FedBut(Now, {})
BY Owned DEF Fine

LEMMA CallFine ==
  ASSUME Sound(Now, loop), Fine(Now, loop), NEW b \in Bevs, NEW part, NEW x, Call(part, b, x),
         Fares(Now, x, b, loop, Slow(Now))
  PROVE  Fine(Now', loop')
<1>1. bev[b].own /\ Becomes(x) /\ UNCHANGED loop BY DEF Call
<1>2. Now.bev[b].st = "live" BY <1>1, OwnedFine
<1>3. Fine(x, loop) BY <1>2, FaresFine
<1> QED BY <1>1, <1>3, NowIs DEF Fine

LEMMA EnableDisableFine ==
  ASSUME Sound(Now, loop), Fine(Now, loop), NEW b \in Bevs, NEW d \in D, Enable(b, d) \/ Disable(b, d)
  PROVE  Fine(Now', loop')
<1>1. PICK part, x : /\ Call(part, b, x)
                     /\ x = EnableBev(Now, b, {d}) \/ x = DisableBev(Now, b, {d})
  BY DEF Enable, Disable
<1>2. bev[b].own BY <1>1 DEF Call
<1>3. Now \in Worlds /\ Good(Now, loop, Slow(Now)) /\ Now.bev[b].st = "live" BY <1>2, OwnedFine
<1>4. {d} \in SUBSET D OBVIOUS
<1>5. Fares(Now, x, b, loop, Slow(Now)) BY <1>1, <1>3, <1>4, EnableGood, DisableGood
<1> QED BY <1>1, <1>5, CallFine

LEMMA WriteReadFine ==
  ASSUME Sound(Now, loop), Fine(Now, loop), NEW b \in Bevs, Write(b) \/ Read(b)
  PROVE  Fine(Now', loop')
<1>1. bev[b].own BY DEF Write, Read, Call
<1>2. Now \in Worlds /\ Good(Now, loop, Slow(Now)) /\ Now.bev[b].st = "live" /\ Now.bev = bev
  BY <1>1, OwnedFine
<1>3. CASE Write(b)
  <2>1. PICK y : y = [Now EXCEPT !.bev[b].len["W"] = @ + 1] OBVIOUS
  <2>2. PICK x : x = OutbufCb(y, b) OBVIOUS
  <2>3. Call("write", b, x) /\ Now.bev[b].len["W"] < MaxLen BY <1>2, <1>3, <2>1, <2>2 DEF Write
  <2>4. Fares(Now, x, b, loop, Slow(Now)) BY <1>2, <2>1, <2>2, <2>3, WriteGood
  <2> QED BY <2>3, <2>4, CallFine
<1>4. CASE Read(b)
  <2>1. PICK n \in 0 .. bev[b].len["R"] - 1 : Call("read", b, SetInput(Now, b, n))
    BY <1>4 DEF Read
  <2>2. Now.bev[b].len["R"] \in 0 .. MaxLen BY <1>2, Directions DEF Good, Sized
  <2>3. n \in 0 .. MaxLen BY <1>2, <2>2, Sizes
  <2>4. PICK x : x = SetInput(Now, b, n) OBVIOUS
  <2>5. Fares(Now, x, b, loop, Slow(Now)) BY <1>2, <2>3, <2>4, SetInputGood
  <2> QED BY <2>1, <2>4, <2>5, CallFine
<1> QED BY <1>3, <1>4

LEMMA SetReadMarksFine ==
  ASSUME Sound(Now, loop), Fine(Now, loop), NEW b \in Bevs, SetReadMarks(b)
  PROVE  Fine(Now', loop')
<1>1. PICK m \in Marks :
        LET w == [Now EXCEPT !.bev[b].low["R"] = m[1], !.bev[b].high = m[2]]
        IN Call("marks", b, IF m[2] = 0 THEN Unsuspend(w, b, "R", "WM") ELSE WmCb(w, b))
  BY DEF SetReadMarks
<1>2. m \in (0 .. MaxLen) \X (0 .. MaxLen) BY EvBevAssumption DEF EvBevAssumption
<1>3. PICK j \in Int, k \in 0 .. MaxLen : j = m[1] /\ k = m[2] BY <1>2, Sizes
<1>4. PICK y : y = [Now EXCEPT !.bev[b].low["R"] = j, !.bev[b].high = k] OBVIOUS
<1>5. PICK x : x = IF k = 0 THEN Unsuspend(y, b, "R", "WM") ELSE WmCb(y, b) OBVIOUS
<1>6. Call("marks", b, x) BY <1>1, <1>3, <1>4, <1>5
<1>7. bev[b].own BY <1>6 DEF Call
<1>8. PICK w, S : w = Now /\ S = Slow(w) OBVIOUS
<1>9. w \in Worlds /\ Good(w, loop, S) /\ w.bev[b].st = "live" BY <1>7, <1>8, OwnedFine
<1>10. Remarked(w, y, b, j, k) BY <1>4, <1>8 DEF Remarked
<1>11. j \in Int /\ k \in 0 .. MaxLen BY <1>3
<1>12. Fares(w, x, b, loop, S) BY <1>5, <1>9, <1>10, <1>11, MarksGood
<1> QED BY <1>6, <1>8, <1>12, CallFine

\* Calls that no property speaks of
LEMMA SetWriteMarkFine ==
  ASSUME Sound(Now, loop), Fine(Now, loop), NEW b \in Bevs, SetWriteMark(b)
  PROVE  Fine(Now', loop')
<1>1. PICK n \in {0, 1} : Call("marks", b, [Now EXCEPT !.bev[b].low["W"] = n])
  BY DEF SetWriteMark
<1>2. PICK j \in Int : j = n OBVIOUS
<1>3. bev[b].own BY <1>1 DEF Call
<1>4. /\ Now \in Worlds /\ Good(Now, loop, Slow(Now)) /\ Now.bev[b] \in Bev
      /\ Now.bev[b].st = "live"
  BY <1>3, OwnedFine
<1>5. PICK o : o = [Now.bev[b].low EXCEPT !["W"] = j] OBVIOUS
<1>6. o \in [D -> Int]
  <2>1. Now.bev[b].low \in [D -> Int] BY <1>4 DEF Bev
  <2> QED BY <1>5, <2>1
<1>7. PICK v : v = [Now.bev[b] EXCEPT !.low = o] OBVIOUS
<1>8. /\ v \in Bev /\ v.st = Now.bev[b].st /\ v.final = Now.bev[b].final
      /\ v.susp = Now.bev[b].susp /\ v.pend = Now.bev[b].pend
  BY <1>4, <1>6, <1>7 DEF Bev
<1>9. Still(Now.bev[b], v) BY <1>4, <1>7 DEF Bev, Still
<1>10. PICK x : x = [Now EXCEPT !.bev[b] = v] OBVIOUS
<1>11. x = [Now EXCEPT !.bev[b].low["W"] = n] BY <1>2, <1>5, <1>7, <1>10
<1>12. Fares(Now, x, b, loop, Slow(Now)) BY <1>4, <1>8, <1>9, <1>10, PutGood
<1> QED BY <1>1, <1>11, <1>12, CallFine

LEMMA SetTimeoutsFine ==
  ASSUME Sound(Now, loop), Fine(Now, loop), NEW b \in Bevs, SetTimeouts(b)
  PROVE  Fine(Now', loop')
<1>1. PICK t \in {{}, D} : Call("timeouts", b, [Now EXCEPT !.bev[b].tv = t])
  BY DEF SetTimeouts
<1>3. bev[b].own BY <1>1 DEF Call
<1>4. /\ Now \in Worlds /\ Good(Now, loop, Slow(Now)) /\ Now.bev[b] \in Bev
      /\ Now.bev[b].st = "live"
  BY <1>3, OwnedFine
<1>7. PICK v : v = [Now.bev[b] EXCEPT !.tv = t] OBVIOUS
<1>8. /\ v \in Bev /\ v.st = Now.bev[b].st /\ v.final = Now.bev[b].final
      /\ v.susp = Now.bev[b].susp /\ v.pend = Now.bev[b].pend
  BY <1>4, <1>7 DEF Bev
<1>9. Still(Now.bev[b], v) BY <1>4, <1>7 DEF Bev, Still
<1>10. PICK x : x = [Now EXCEPT !.bev[b] = v] OBVIOUS
<1>11. x = [Now EXCEPT !.bev[b].tv = t] BY <1>7, <1>10
<1>12. Fares(Now, x, b, loop, Slow(Now)) BY <1>4, <1>8, <1>9, <1>10, PutGood
<1> QED BY <1>1, <1>11, <1>12, CallFine

LEMMA SetFdFine ==
  ASSUME Sound(Now, loop), Fine(Now, loop), "be_socket_setfd" \in Repaired,
         NEW b \in Bevs, SetFd(b)
  PROVE  Fine(Now', loop')
<1>1. PICK y : y = SetFdTo(Now, b, "up") OBVIOUS
<1>2. PICK x : x = [y EXCEPT !.bev[b].greet = FALSE] OBVIOUS
<1>3. Call("setfd", b, x) BY <1>1, <1>2 DEF SetFd
<1>4. bev[b].own BY <1>3 DEF Call
<1>5. Now \in Worlds /\ Good(Now, loop, Slow(Now)) /\ Now.bev[b].st = "live" BY <1>4, OwnedFine
<1>6. Fares(Now, y, b, loop, Slow(Now)) BY <1>1, <1>5, SetFdToGood
<1>7. y \in Worlds /\ Good(y, loop, Slow(Now)) /\ y.bev[b].st = "live" BY <1>5, <1>6, FaresOn
<1>8. y.bev[b] \in Bev BY <1>7 DEF Worlds
<1>9. PICK v : v = [y.bev[b] EXCEPT !.greet = FALSE] OBVIOUS
<1>10. /\ v \in Bev /\ v.st = y.bev[b].st /\ v.final = y.bev[b].final
       /\ v.susp = y.bev[b].susp /\ v.pend = y.bev[b].pend
  BY <1>8, <1>9 DEF Bev
<1>11. Still(y.bev[b], v) BY <1>8, <1>9 DEF Bev, Still
<1>12. x = [y EXCEPT !.bev[b] = v] BY <1>2, <1>9
<1>13. Fares(y, x, b, loop, Slow(Now)) BY <1>7, <1>10, <1>11, <1>12, PutGood
<1>14. Fares(Now, x, b, loop, Slow(Now)) BY <1>6, <1>13, FaresTwice
<1> QED BY <1>3, <1>14, CallFine

LEMMA ConnectFine ==
  ASSUME Sound(Now, loop), Fine(Now, loop), "be_socket_setfd" \in Repaired,
         NEW b \in Bevs, Connect(b)
  PROVE  Fine(Now', loop')
<1>1. PICK result \in Results : Call("connect", b, ConnectTo(Now, b, result)) BY DEF Connect
<1>2. PICK x : x = ConnectTo(Now, b, result) OBVIOUS
<1>3. Call("connect", b, x) BY <1>1, <1>2
<1>4. bev[b].own BY <1>3 DEF Call
<1>5. Now \in Worlds /\ Good(Now, loop, Slow(Now)) /\ Now.bev[b].st = "live" BY <1>4, OwnedFine
<1>6. Fares(Now, x, b, loop, Slow(Now)) BY <1>2, <1>5, ConnectToGood
<1> QED BY <1>3, <1>6, CallFine

LEMMA ConnectHostnameFine ==
  ASSUME Sound(Now, loop), Fine(Now, loop), NEW b \in Bevs, ConnectHostname(b)
  PROVE  Fine(Now', loop')
<1>1. PICK w, S : w = Now /\ S = Slow(w) OBVIOUS
<1>2. PICK r : r = Suspend(w, b, "W", "LOOKUP") OBVIOUS
<1>3. PICK y : y = Suspend(r, b, "R", "LOOKUP") OBVIOUS
<1>4. PICK x : x = [Incref(y, b) EXCEPT !.bev[b].lookup = "pending"] OBVIOUS
<1>5. Call("lookup", b, x) BY <1>1, <1>2, <1>3, <1>4 DEF ConnectHostname
<1>6. bev[b].own BY <1>5 DEF Call
<1>7. w \in Worlds /\ Good(w, loop, S) /\ w.bev[b].st = "live" BY <1>1, <1>6, OwnedFine
<1>8. Fares(w, r, b, loop, S) BY <1>2, <1>7, LookupGood, Directions
<1>9. r \in Worlds /\ Good(r, loop, S) /\ r.bev[b].st = "live" BY <1>7, <1>8, FaresOn
<1>10. Fares(r, y, b, loop, S) BY <1>3, <1>9, LookupGood, Directions
<1>11. y \in Worlds /\ Good(y, loop, S) /\ y.bev[b].st = "live" BY <1>9, <1>10, FaresOn
<1>12. y.bev[b] \in Bev BY <1>11 DEF Worlds
<1>13. PICK n \in Int : n = y.bev[b].refcnt + 1 BY <1>12 DEF Bev
<1>14. PICK v : v = [y.bev[b] EXCEPT !.refcnt = n, !.lookup = "pending"] OBVIOUS
<1>15. /\ v \in Bev /\ v.st = y.bev[b].st /\ v.final = y.bev[b].final
       /\ v.susp = y.bev[b].susp /\ v.pend = y.bev[b].pend
  BY <1>12, <1>13, <1>14 DEF Bev
<1>16. Still(y.bev[b], v) BY <1>12, <1>14 DEF Bev, Still
<1>17. x = [y EXCEPT !.bev[b] = v]
  BY <1>4, <1>11, <1>13, <1>14 DEF Worlds, Incref
<1>18. Fares(y, x, b, loop, S) BY <1>11, <1>15, <1>16, <1>17, PutGood
<1>19. Fares(w, y, b, loop, S) BY <1>8, <1>10, FaresTwice
<1>20. Fares(w, x, b, loop, S) BY <1>18, <1>19, FaresTwice
<1> QED BY <1>1, <1>5, <1>20, CallFine

\* bufferevent_connect_getaddrinfo_cb
LEMMA LookupDoneFine ==
  ASSUME Sound(Now, loop), Fine(Now, loop), "be_socket_setfd" \in Repaired,
         "bufferevent_decref_and_unlock_" \in Repaired, NEW b \in Bevs, LookupDone(b)
  PROVE  Fine(Now', loop')
<1>1. PICK w, S : w = Now /\ S = Slow(w) OBVIOUS
<1>2. PICK r : r = Unsuspend(w, b, "W", "LOOKUP") OBVIOUS
<1>3. PICK y : y = Unsuspend(r, b, "R", "LOOKUP") OBVIOUS
<1>4. PICK z : z = [y EXCEPT !.bev[b].lookup = "no"] OBVIOUS
<1>5. w.bev[b].st = "live"
  <2>1. Counted(w, loop, b) /\ w.bev = bev BY <1>1 DEF Sound, Base, Now
  <2>2. bev[b].lookup # "no" BY DEF LookupDone
  <2> QED BY <2>1, <2>2 DEF Counted
<1>6. Fit(w, loop, b) BY <1>1, <1>5 DEF Fit
<1>7. w \in Worlds /\ Good(w, loop, S) BY <1>1, <1>6, FitIs
<1>8. Fares(w, r, b, loop, S) BY <1>2, <1>5, <1>7, LookupGood, Directions
<1>9. r \in Worlds /\ Good(r, loop, S) /\ r.bev[b].st = "live" BY <1>5, <1>8, FaresOn
<1>10. Fares(r, y, b, loop, S) BY <1>3, <1>9, LookupGood, Directions
<1>11. y \in Worlds /\ Good(y, loop, S) /\ y.bev[b].st = "live" BY <1>9, <1>10, FaresOn
<1>12. y.bev[b] \in Bev BY <1>11 DEF Worlds
<1>13. PICK v : v = [y.bev[b] EXCEPT !.lookup = "no"] OBVIOUS
<1>14. /\ v \in Bev /\ v.st = y.bev[b].st /\ v.final = y.bev[b].final
       /\ v.susp = y.bev[b].susp /\ v.pend = y.bev[b].pend
  BY <1>12, <1>13 DEF Bev
<1>15. Still(y.bev[b], v) BY <1>12, <1>13 DEF Bev, Still
<1>16. z = [y EXCEPT !.bev[b] = v] BY <1>4, <1>13
<1>17. Fares(y, z, b, loop, S) BY <1>11, <1>14, <1>15, <1>16, PutGood
<1>18. Fares(w, y, b, loop, S) BY <1>8, <1>10, FaresTwice
<1>19. Fares(w, z, b, loop, S) BY <1>17, <1>18, FaresTwice
<1>20. z \in Worlds /\ Good(z, loop, S) /\ z.bev[b].st = "live" BY <1>5, <1>19, FaresOn
<1>21. PICK t : /\ t = z \/ t = RunCb(z, b, "error")
                   \/ \E result \in Results : t = ConnectTo(z, b, result)
                /\ Becomes(Decref(t, b))
  <2>1. z = [Unsuspend(Unsuspend(Now, b, "W", "LOOKUP"), b, "R", "LOOKUP") EXCEPT
               !.bev[b].lookup = "no"]
    BY <1>1, <1>2, <1>3, <1>4
  <2>2. \/ Becomes(Decref(z, b)) \/ Becomes(Decref(RunCb(z, b, "error"), b))
        \/ \E result \in Results : Becomes(Decref(ConnectTo(z, b, result), b))
    BY <2>1, Zenon DEF LookupDone
  <2> QED BY <2>2
<1>22. Fares(z, t, b, loop, S)
  <2>1. CASE t = z BY <1>20, <2>1, NothingGood
  <2>2. CASE t = RunCb(z, b, "error")
    <3>1. PICK what : what = "error" OBVIOUS
    <3>2. what \in Whats BY <3>1 DEF Whats, Events
    <3>3. t = RunCb(z, b, what) BY <2>2, <3>1
    <3> QED BY <1>20, <3>2, <3>3, RunCbGood
  <2>3. CASE \E result \in Results : t = ConnectTo(z, b, result)
    <3>1. PICK result \in Results : t = ConnectTo(z, b, result) BY <2>3
    <3> QED BY <1>20, <3>1, ConnectToGood
  <2> QED BY <1>21, <2>1, <2>2, <2>3
<1>23. Fares(w, t, b, loop, S) BY <1>19, <1>22, FaresTwice
<1>24. Fit(t, loop, b) BY <1>1, <1>6, <1>23, FaresFit
<1>25. PICK x : x = Decref(t, b) OBVIOUS
<1>26. LoopFits(Now, loop) BY DEF Sound, Base
<1>27. Running(b) \in Kinds \cup {"none"} BY <1>26, RunningKind
<1>28. Fine(x, loop) BY <1>24, <1>25, <1>27, DecrefFine
<1>29. Becomes(x) /\ UNCHANGED loop BY <1>21, <1>25 DEF LookupDone
<1> QED BY <1>28, <1>29, NowIs DEF Fine

LEMMA SetRateLimitFine ==
  ASSUME Sound(Now, loop), Fine(Now, loop), NEW b \in Bevs, NEW c \in Cfgs, SetRateLimit(b, c)
  PROVE  Fine(Now', loop')
<1>1. PICK w, S : w = Now /\ S = Slow(w) OBVIOUS
<1>2. PICK y : y = WithCfg(w, b, c) OBVIOUS
<1>3. PICK s : s = Settle(y, b) OBVIOUS
<1>4. PICK x : x = IF \E d \in D : y.bev[b].limit[d] <= 0 THEN Add(s, b, "T") ELSE s OBVIOUS
<1>5. Call("limit", b, x) BY <1>1, <1>2, <1>3, <1>4 DEF SetRateLimit
<1>6. bev[b].own BY <1>5 DEF Call
<1>7. w \in Worlds /\ Good(w, loop, S) /\ w.bev[b].st = "live" BY <1>1, <1>6, OwnedFine
<1>8. Fares(w, x, b, loop, S) BY <1>2, <1>3, <1>4, <1>7, RateLimitGood
<1> QED BY <1>1, <1>5, <1>8, CallFine

LEMMA EndRateLimitFine ==
  ASSUME Sound(Now, loop), Fine(Now, loop), NEW b \in Bevs, EndRateLimit(b)
  PROVE  Fine(Now', loop')
<1>1. PICK w, S : w = Now /\ S = Slow(w) OBVIOUS
<1>2. PICK y : y = [w EXCEPT !.bev[b].cfg = NoCfg, !.bev[b].limit = [d \in D |-> 0],
                             !.bev[b].owed = 0]
  OBVIOUS
<1>3. PICK x : x = Del(UnsuspendAll(y, b, D, "BW"), b, "T") OBVIOUS
<1>4. Call("limit", b, x) BY <1>1, <1>2, <1>3 DEF EndRateLimit
<1>5. bev[b].own BY <1>4 DEF Call
<1>6. w \in Worlds /\ Good(w, loop, S) /\ w.bev[b].st = "live" BY <1>1, <1>5, OwnedFine
<1>7. Fares(w, x, b, loop, S) BY <1>2, <1>3, <1>6, EndRateLimitGood
<1> QED BY <1>1, <1>4, <1>7, CallFine

LEMMA DecrementLimitFine ==
  ASSUME Sound(Now, loop), Fine(Now, loop), NEW b \in Bevs, NEW d \in D, DecrementLimit(b, d)
  PROVE  Fine(Now', loop')
<1>1. PICK w, S : w = Now /\ S = Slow(w) OBVIOUS
<1>2. bev[b].own BY DEF DecrementLimit, Call
<1>3. /\ w \in Worlds /\ Good(w, loop, S) /\ w.bev[b].st = "live" /\ w.bev[b] \in Bev
      /\ w.bev = bev
  BY <1>1, <1>2, OwnedFine
<1>4. w.bev[b].limit[d] \in Int
  <2>1. w.bev[b].limit \in [D -> Int] BY <1>3 DEF Bev
  <2> QED BY <2>1
<1>5. PICK k \in Int : k = w.bev[b].limit[d] BY <1>4
<1>6. w.bev[b].cfg # NoCfg BY <1>3 DEF DecrementLimit
<1>7. PICK new, y, x :
        /\ new \in Int
        /\ y = [w EXCEPT !.bev[b].limit[d] = new] /\ Call("decrement", b, x)
        /\ \/ k > 0 /\ new <= 0 /\ x = Add(Suspend(y, b, d, "BW"), b, "T")
           \/ /\ k <= 0 /\ new > 0
              /\ x = Unsuspend(IF "BW" \in w.bev[b].susp[Other(d)] THEN y ELSE Del(y, b, "T"),
                               b, d, "BW")
           \/ (k > 0 <=> new > 0) /\ x = y
  <2>1. Burst[bev[b].cfg] \in Int
    <3>1. bev[b].cfg # NoCfg BY DEF DecrementLimit
    <3>2. bev[b].cfg \in Cfgs BY <1>3, <3>1 DEF Bev
    <3> QED BY <3>2, EvBevAssumption DEF EvBevAssumption
  <2>2. \A new \in -1 .. Burst[bev[b].cfg] : new \in Int BY <2>1
  <2>3. PICK new, y :
          /\ new \in -1 .. Burst[bev[b].cfg]
          /\ y = [w EXCEPT !.bev[b].limit[d] = new]
          /\ \/ /\ k > 0 /\ new <= 0
                /\ Call("decrement", b, Add(Suspend(y, b, d, "BW"), b, "T"))
             \/ /\ k <= 0 /\ new > 0
                /\ Call("decrement", b,
                        Unsuspend(IF "BW" \in w.bev[b].susp[Other(d)] THEN y
                                  ELSE Del(y, b, "T"), b, d, "BW"))
             \/ (k > 0 <=> new > 0) /\ Call("decrement", b, y)
    BY <1>1, <1>3, <1>5, Zenon DEF DecrementLimit
  <2> QED BY <2>2, <2>3, Zenon
<1>8. PICK n \in Int : n = k - new BY <1>7
<1>9. w.bev[b].limit[d] - n = new BY <1>5, <1>7, <1>8
<1>10. y = [w EXCEPT !.bev[b].limit[d] = @ - n] BY <1>7, <1>9
<1>11. Fares(w, x, b, loop, S)
  <2>1. CASE x = Add(Suspend(y, b, d, "BW"), b, "T") BY <1>3, <1>6, <1>10, <2>1, EmptyGood
  <2>2. CASE /\ new > 0
             /\ x = Unsuspend(IF "BW" \in w.bev[b].susp[Other(d)] THEN y ELSE Del(y, b, "T"),
                              b, d, "BW")
    <3>1. PICK z : z = IF "BW" \in w.bev[b].susp[Other(d)] THEN y ELSE Del(y, b, "T") OBVIOUS
    <3>2. x = Unsuspend(z, b, d, "BW") BY <2>2, <3>1
    <3>3. w.bev[b].limit[d] - n > 0 BY <1>9, <2>2
    <3> QED BY <1>3, <1>6, <1>10, <3>1, <3>2, <3>3, PartGood
  <2>3. CASE new > 0 /\ x = y
    <3>1. w.bev[b].limit[d] - n > 0 BY <1>9, <2>3
    <3> QED BY <1>3, <1>10, <2>3, <3>1, SomeGood
  <2>4. CASE ~(k > 0) /\ x = y
    <3>1. w.bev[b].limit[d] <= 0 BY <1>5, <2>4
    <3> QED BY <1>3, <1>10, <2>4, <3>1, NoneGood
  <2> QED BY <1>7, <2>1, <2>2, <2>3, <2>4
<1> QED BY <1>1, <1>7, <1>11, CallFine

LEMMA FreeFine ==
  ASSUME Sound(Now, loop), Fine(Now, loop), "bufferevent_decref_and_unlock_" \in Repaired,
         NEW b \in Bevs, Free(b)
  PROVE  Fine(Now', loop')
<1>1. PICK w : w = Now OBVIOUS
<1>2. PICK y : y = [w EXCEPT !.bev[b].own = FALSE, !.bev[b].cbs = FALSE] OBVIOUS
<1>3. PICK x : x = Decref(y, b) OBVIOUS
<1>4. Call("free", b, x) BY <1>1, <1>2, <1>3 DEF Free
<1>5. bev[b].own /\ Becomes(x) /\ UNCHANGED loop BY <1>4 DEF Call
<1>6. /\ w \in Worlds /\ w.bev[b] \in Bev /\ Good(w, loop, Slow(w)) /\ w.bev[b].st = "live"
      /\ FedBut(w, {})
  BY <1>1, <1>5, OwnedFine
<1>7. PICK v : v = [w.bev[b] EXCEPT !.own = FALSE, !.cbs = FALSE] OBVIOUS
<1>8. /\ v \in Bev /\ v.st = w.bev[b].st /\ v.final = w.bev[b].final /\ v.len = w.bev[b].len
      /\ v.susp = w.bev[b].susp /\ v.pend = w.bev[b].pend /\ v.cbs = FALSE
  BY <1>6, <1>7 DEF Bev
<1>9. /\ v.enabled = w.bev[b].enabled /\ v.high = w.bev[b].high /\ v.sock = w.bev[b].sock
      /\ v.connecting = w.bev[b].connecting /\ v.refused = w.bev[b].refused
      /\ v.cfg = w.bev[b].cfg /\ v.limit = w.bev[b].limit
  BY <1>6, <1>7 DEF Bev
<1>10. y = [w EXCEPT !.bev[b] = v] BY <1>2, <1>6, <1>7 DEF Worlds
<1>11. Puts(w, y, b, v) BY <1>6, <1>8, <1>10, PutAside
<1>12. Aside(w, y, b) /\ y.bev[b] = v /\ y.queue = w.queue BY <1>11 DEF Puts
<1>13. PICK S : S = Slow(w) OBVIOUS
<1>14. ASSUME w.bev[b].final = {} PROVE Firm(y, loop, b, S)
  <2>1. Firm(w, loop, b, S) BY <1>6, <1>13, <1>14 DEF Good
  <2>2. Owed(y, loop, b) BY <1>8, <1>12 DEF Owed
  <2>3. y.grp = w.grp BY <1>12 DEF Aside
  <2>4. Backed(y, loop, b) BY <1>8, <1>9, <1>12, <2>1 DEF Firm, Stands, Upheld, Backed, Timed
  <2>5. Tied(y, b, S) BY <1>8, <1>12, <2>1, <2>3 DEF Firm, Stands, Upheld, Tied
  <2>6. Capped(v) /\ Plain(v) /\ MarkHeld(v)
    BY <1>8, <1>9, <2>1 DEF Firm, Stands, Upheld, Capped, Plain, MarkHeld
  <2>7. Waits(v) BY <1>8, <1>9, <2>1 DEF Firm, Stands, Waits
  <2> QED BY <1>12, <2>2, <2>4, <2>5, <2>6, <2>7 DEF Firm, Stands, Upheld
<1>15. \A d \in D : y.bev[b].len[d] \in 0 .. MaxLen BY <1>6, <1>8, <1>12 DEF Good, Sized
<1>16. Good(w, loop, S) BY <1>6, <1>13
<1>17. Fares(w, y, b, loop, S) BY <1>6, <1>12, <1>14, <1>15, <1>16, AsideGood
<1>18. Fit(w, loop, b) BY <1>1, <1>6 DEF Fit
<1>19. Fit(y, loop, b) BY <1>13, <1>17, <1>18, FaresFit
<1>20. LoopFits(Now, loop) BY DEF Sound, Base
<1>21. Running(b) \in Kinds \cup {"none"} BY <1>20, RunningKind
<1>22. Fine(x, loop) BY <1>3, <1>19, <1>21, DecrefFine
<1> QED BY <1>5, <1>22, NowIs DEF Fine

\* bufferevent_add_to_rate_limit_group
LEMMA JoinFine ==
  ASSUME Sound(Now, loop), Fine(Now, loop), NEW b \in Bevs, Join(b)
  PROVE  Fine(Now', loop')
<1>1. PICK w, S : w = Now /\ S = Slow(w) OBVIOUS
<1>2. PICK y : y = [w EXCEPT !.grp.members = @ \cup {b}] OBVIOUS
<1>3. PICK x : x = SuspendAll(y, b, w.grp.suspended, "GROUP") OBVIOUS
<1>4. bev[b].own BY DEF Join, Call
<1>5. /\ w \in Worlds /\ Good(w, loop, S) /\ w.bev[b].st = "live" /\ w.grp \in Grp
      /\ FedBut(w, {}) /\ w.grp = grp
  BY <1>1, <1>4, OwnedFine
<1>6. Call("group", b, x) BY <1>1, <1>2, <1>3, <1>5 DEF Join
<1>7. PICK g : g = [w.grp EXCEPT !.members = @ \cup {b}] OBVIOUS
<1>8. /\ g \in Grp /\ g.members = w.grp.members \cup {b} /\ g.suspended = w.grp.suspended
      /\ g.again = w.grp.again /\ g.limit = w.grp.limit
  BY <1>5, <1>7 DEF Grp
<1>9. y = [w EXCEPT !.grp = g] BY <1>2, <1>7
<1>10. y \in Worlds /\ y.bev = w.bev /\ y.queue = w.queue /\ y.grp = g
  BY <1>5, <1>8, <1>9 DEF Worlds
<1>11. Good(y, loop, S)
  <2>1. \A c \in Bevs : Firm(w, loop, c, S) => Firm(y, loop, c, S)
    BY <1>8, <1>10 DEF Firm, Stands, Upheld, Backed, Timed, Tied, Owed, Deferred
  <2> QED BY <1>5, <1>8, <1>10, <2>1 DEF Good
<1>12. b \in y.grp.members /\ y.bev[b].st = "live" BY <1>5, <1>8, <1>10
<1>13. PICK r : r = IF "R" \in w.grp.suspended THEN Suspend(y, b, "R", "GROUP") ELSE y OBVIOUS
<1>14. Fares(y, r, b, loop, S)
  <2>1. CASE "R" \in w.grp.suspended
    <3>1. "R" \in S \cap D BY <1>1, <2>1, Directions DEF Slow
    <3>2. r = Suspend(y, b, "R", "GROUP") BY <1>13, <2>1
    <3> QED BY <1>10, <1>11, <1>12, <3>1, <3>2, GroupedGood
  <2>2. CASE "R" \notin w.grp.suspended BY <1>10, <1>11, <1>13, <2>2, NothingGood
  <2> QED BY <2>1, <2>2
<1>15. r \in Worlds /\ Good(r, loop, S) /\ r.grp = y.grp BY <1>12, <1>14, FaresOn
<1>16. x = IF "W" \in w.grp.suspended THEN Suspend(r, b, "W", "GROUP") ELSE r
  BY <1>3, <1>13 DEF SuspendAll, InTurn
<1>17. Fares(r, x, b, loop, S)
  <2>1. CASE "W" \in w.grp.suspended
    <3>1. "W" \in S \cap D BY <1>1, <2>1, Directions DEF Slow
    <3>2. x = Suspend(r, b, "W", "GROUP") BY <1>16, <2>1
    <3>3. b \in r.grp.members BY <1>12, <1>15
    <3> QED BY <1>15, <3>1, <3>2, <3>3, GroupedGood
  <2>2. CASE "W" \notin w.grp.suspended BY <1>15, <1>16, <2>2, NothingGood
  <2> QED BY <2>1, <2>2
<1>18. Fares(y, x, b, loop, S) BY <1>14, <1>17, FaresTwice
<1>19. Fine(y, loop)
  <2>1. Slow(y) = S /\ FedBut(y, {}) BY <1>1, <1>5, <1>8, <1>10 DEF Slow, FedBut
  <2> QED BY <1>10, <1>11, <2>1 DEF Fine
<1>20. Fares(y, x, b, loop, Slow(y))
  <2>1. Slow(y) = S BY <1>1, <1>8, <1>10 DEF Slow
  <2> QED BY <1>18, <2>1
<1>21. Fine(x, loop) BY <1>12, <1>19, <1>20, FaresFine
<1>22. Becomes(x) /\ UNCHANGED loop BY <1>6 DEF Call
<1> QED BY <1>21, <1>22, NowIs DEF Fine

\* bufferevent_remove_from_rate_limit_group: b is no member any more, and then
\* the group does not suspend it.
LEMMA LeaveFine ==
  ASSUME Sound(Now, loop), Fine(Now, loop), NEW b \in Bevs, Leave(b)
  PROVE  Fine(Now', loop')
<1>1. PICK w, S : w = Now /\ S = Slow(w) OBVIOUS
<1>2. PICK y : y = [w EXCEPT !.grp.members = @ \ {b}] OBVIOUS
<1>3. PICK r : r = Unsuspend(y, b, "R", "GROUP") OBVIOUS
<1>4. PICK x : x = Unsuspend(r, b, "W", "GROUP") OBVIOUS
<1>5. bev[b].own BY DEF Leave, Call
<1>6. /\ w \in Worlds /\ Good(w, loop, S) /\ w.bev[b].st = "live" /\ w.grp \in Grp
      /\ FedBut(w, {}) /\ w.bev[b].final = {}
  BY <1>1, <1>5, OwnedFine
<1>7. Call("group", b, x)
  <2>1. x = UnsuspendAll(y, b, D, "GROUP") BY <1>3, <1>4, Directions DEF UnsuspendAll, InTurn
  <2> QED BY <1>1, <1>2, <2>1 DEF Leave
<1>8. PICK g : g = [w.grp EXCEPT !.members = @ \ {b}] OBVIOUS
<1>9. /\ g \in Grp /\ g.members = w.grp.members \ {b} /\ g.suspended = w.grp.suspended
      /\ g.again = w.grp.again /\ g.limit = w.grp.limit
  BY <1>6, <1>8 DEF Grp
<1>10. y = [w EXCEPT !.grp = g] BY <1>2, <1>8
<1>11. y \in Worlds /\ y.bev = w.bev /\ y.queue = w.queue /\ y.grp = g
  BY <1>6, <1>9, <1>10 DEF Worlds
<1>12. PICK why : why = "GROUP" OBVIOUS
<1>13. why \in Reasons BY <1>12 DEF Reasons
<1>14. Resumed(y, r, b, "R", why) BY <1>3, <1>11, <1>12, <1>13, UnsuspendIs, Directions
<1>15. /\ Stirs(y, r, b) /\ SameTimer(y, r, b)
       /\ r.bev[b].susp = [y.bev[b].susp EXCEPT !["R"] = @ \ {why}]
  BY <1>14 DEF Resumed
<1>16. r \in Worlds BY <1>15 DEF Stirs, Aside
<1>17. Resumed(r, x, b, "W", why) BY <1>4, <1>12, <1>13, <1>16, UnsuspendIs, Directions
<1>18. /\ Stirs(r, x, b) /\ SameTimer(r, x, b)
       /\ x.bev[b].susp = [r.bev[b].susp EXCEPT !["W"] = @ \ {why}]
  BY <1>17 DEF Resumed
<1>19. Stirs(y, x, b) BY <1>15, <1>18, StirsTwice
<1>20. SameTimer(y, x, b) BY <1>15, <1>18 DEF SameTimer
<1>21. Differ(y.bev[b], x.bev[b], why)
  <2>1. Differ(y.bev[b], r.bev[b], why) BY <1>11, <1>14, SuspendsDiffer, Directions
  <2>2. Differ(r.bev[b], x.bev[b], why) BY <1>16, <1>17, SuspendsDiffer, Directions
  <2> QED BY <2>1, <2>2, DifferTwice
<1>22. \A d \in D : "GROUP" \notin x.bev[b].susp[d]
  <2>1. y.bev[b].susp \in [D -> SUBSET Reasons] BY <1>11 DEF Worlds, Bev
  <2> QED BY <1>12, <1>15, <1>18, <2>1, Directions
<1>23. Aside(y, x, b) /\ Still(y.bev[b], x.bev[b]) BY <1>19 DEF Stirs
<1>24. x \in Worlds /\ x.grp = g /\ x.bev[b].st = "live" BY <1>6, <1>11, <1>23 DEF Aside
<1>25. Firm(x, loop, b, S)
  <2>1. Firm(w, loop, b, S) BY <1>6 DEF Good
  <2>2. Nearly(y, loop, b, S, why)
    BY <1>11, <1>12, <2>1 DEF Firm, Stands, Upheld, Nearly, Owed, Deferred, Backed, Timed
  <2>3. Tied(x, b, S) BY <1>22 DEF Tied
  <2>4. y.bev[b].final = {} BY <1>6, <1>11
  <2>5. MarkHeld(y.bev[b]) BY <1>11, <2>1 DEF Firm
  <2>6. why # "BW" /\ why # "WM" BY <1>12
  <2>7. Stands(x, loop, b, S) /\ (why # "WM" /\ MarkHeld(y.bev[b]) => MarkHeld(x.bev[b]))
    BY <1>13, <1>19, <1>20, <1>21, <2>2, <2>3, <2>4, <2>6, StirStands
  <2> QED BY <2>5, <2>6, <2>7 DEF Firm
<1>26. ASSUME NEW c \in Bevs \ {b}, Firm(w, loop, c, S) PROVE Firm(x, loop, c, S)
  <2>1. x.bev[c] = w.bev[c] BY <1>11, <1>23 DEF Aside
  <2>2. Deferred(w, c) => Deferred(x, c) BY <1>11, <1>23 DEF Deferred, Aside
  <2>3. Timed(w, loop, c) => Timed(x, loop, c) BY <1>11, <1>23, <2>1 DEF Timed, Aside
  <2>4. Backed(x, loop, c) BY <1>26, <2>1, <2>3 DEF Firm, Stands, Upheld, Backed
  <2>5. Owed(x, loop, c) BY <1>26, <2>1, <2>2 DEF Firm, Stands, Upheld, Owed
  <2>6. Tied(x, c, S) BY <1>9, <1>24, <1>26, <2>1 DEF Firm, Stands, Upheld, Tied
  <2> QED BY <1>26, <2>1, <2>4, <2>5, <2>6 DEF Firm, Stands, Upheld
<1>27. Good(x, loop, S)
  <2>1. Sized(x.bev[b])
    <3>1. Sized(w.bev[b]) BY <1>6 DEF Good
    <3> QED BY <1>11, <1>23, <1>24, <3>1 DEF Sized, Still
  <2>2. \A c \in Bevs \ {b} : x.bev[c] = w.bev[c] BY <1>11, <1>23 DEF Aside
  <2>3. \A c \in Bevs \ {b} :
          /\ Sized(x.bev[c]) /\ (c \in x.grp.members => x.bev[c].st = "live")
          /\ x.bev[c].st = "live" /\ x.bev[c].final = {} => Firm(x, loop, c, S)
    BY <1>6, <1>9, <1>24, <1>26, <2>2 DEF Good
  <2> QED BY <1>24, <1>25, <2>1, <2>3 DEF Good
<1>28. Slow(x) = S /\ FedBut(x, {}) BY <1>1, <1>6, <1>9, <1>24 DEF Slow, FedBut
<1>29. Fine(x, loop) BY <1>24, <1>27, <1>28 DEF Fine
<1>30. Becomes(x) /\ UNCHANGED loop BY <1>7 DEF Call
<1> QED BY <1>29, <1>30, NowIs DEF Fine

\* The bufferevents are made, the group is empty.
LEMMA InitFine == ASSUME Init PROVE Fine(Now, loop)
<1>1. Now \in Worlds /\ Now.bev = bev /\ Now.grp = grp BY InitSound DEF Sound, Base, Now
<1>2. /\ grp.members = {} /\ grp.suspended = {} /\ grp.again = {}
      /\ grp.limit = [d \in D |-> Rate]
  BY DEF Init
<1>3. FedBut(Now, {}) BY <1>1, <1>2, Sizes DEF FedBut
<1>4. ASSUME NEW b \in Bevs
      PROVE  /\ Sized(bev[b]) /\ Waits(bev[b]) /\ MarkHeld(bev[b]) /\ Capped(bev[b])
             /\ Plain(bev[b]) /\ bev[b].tell = {} /\ \A d \in D : bev[b].susp[d] = {}
  <2>1. PICK f : f = Fresh(IF "connect" \in uses THEN "none" ELSE "up") OBVIOUS
  <2>2. f \in Bev /\ f.pend = {} /\ f.enabled = {"W"} /\ f.refcnt = 1 BY <2>1, FreshType DEF Fresh
  <2>3. /\ f.tell = {} /\ f.susp = [d \in D |-> {}] /\ f.len = [d \in D |-> 0] /\ f.high = 0
        /\ f.refused = FALSE /\ f.cfg = NoCfg /\ f.connecting = FALSE
    BY <2>1 DEF Fresh
  <2>4. PICK e : e = IF "enable" \in uses THEN f.enabled ELSE At(uses) OBVIOUS
  <2>5. PICK p : p = IF "enable" \in uses THEN f.pend ELSE At(uses) \ {"W"} OBVIOUS
  <2>6. PICK t : t = IF "timeouts" \in uses THEN D ELSE {} OBVIOUS
  <2>7. PICK s : s = IF Has(b, uses) THEN "live" ELSE "unused" OBVIOUS
  <2>8. PICK o : o = Has(b, uses) OBVIOUS
  <2>9. PICK v : v = [f EXCEPT !.enabled = e, !.pend = p, !.tv = t, !.st = s, !.own = o] OBVIOUS
  <2>10. bev[b] = v BY <2>1, <2>4, <2>5, <2>6, <2>7, <2>8, <2>9 DEF Init
  <2>11. /\ v.enabled = e /\ v.pend = p /\ v.refcnt = 1 /\ v.tell = {}
         /\ v.susp = [d \in D |-> {}] /\ v.len = [d \in D |-> 0] /\ v.high = 0
    BY <2>2, <2>3, <2>9 DEF Bev
  <2>12. v.refused = FALSE /\ v.cfg = NoCfg /\ v.connecting = FALSE BY <2>2, <2>3, <2>9 DEF Bev
  <2>13. "W" \notin p /\ ("R" \in p <=> "R" \in e)
    <3>1. CASE "enable" \in uses
      <4>1. p = {} /\ e = {"W"} BY <2>2, <2>4, <2>5, <3>1
      <4> QED BY <4>1
    <3>2. CASE "enable" \notin uses
      <4>1. p = e \ {"W"} BY <2>4, <2>5, <3>2
      <4> QED BY <4>1
    <3> QED BY <3>1, <3>2
  <2>14. v.susp["R"] = {} /\ v.susp["W"] = {} /\ v.len["W"] = 0 BY <2>11, Directions
  <2>15. Waits(v)
    <3>1. "R" \in v.pend <=> "R" \in v.enabled BY <2>11, <2>13
    <3>2. "W" \notin v.pend /\ ~(v.len["W"] > 0) BY <2>11, <2>13, <2>14
    <3> QED BY <2>14, <3>1, <3>2 DEF Waits
  <2>16. MarkHeld(v) BY <2>11, <2>14 DEF MarkHeld
  <2>17. Sized(v) BY <2>11, Sizes DEF Sized
  <2>18. Capped(v) BY <2>12 DEF Capped
  <2>19. Plain(v) BY <2>11, <2>12, Sizes DEF Plain
  <2> QED BY <2>10, <2>11, <2>15, <2>16, <2>17, <2>18, <2>19
<1>5. Good(Now, loop, Slow(Now))
  <2> SUFFICES ASSUME NEW c \in Bevs
               PROVE  Sized(bev[c]) /\ Firm(Now, loop, c, Slow(Now))
    BY <1>1, <1>2 DEF Good
  <2>1. Backed(Now, loop, c) /\ Tied(Now, c, Slow(Now)) /\ Owed(Now, loop, c)
    BY <1>1, <1>4 DEF Backed, Tied, Owed
  <2> QED BY <1>1, <1>4, <2>1 DEF Firm, Stands, Upheld
<1> QED BY <1>1, <1>3, <1>5 DEF Fine

---------------------------------------------------------------------------
(* Every step, and what follows                                            *)

LEMMA ProgramFine ==
  ASSUME Sound(Now, loop), Fine(Now, loop), "bufferevent_decref_and_unlock_" \in Repaired,
         "be_socket_setfd" \in Repaired, NEW b \in Bevs, Program(b)
  PROVE  Fine(Now', loop')
<1>1. CASE \E d \in D : Enable(b, d) \/ Disable(b, d) BY <1>1, EnableDisableFine
<1>2. CASE \E d \in D : DecrementLimit(b, d) BY <1>2, DecrementLimitFine
<1>3. CASE Write(b) \/ Read(b) BY <1>3, WriteReadFine
<1>4. CASE SetReadMarks(b) BY <1>4, SetReadMarksFine
<1>5. CASE SetWriteMark(b) BY <1>5, SetWriteMarkFine
<1>6. CASE SetTimeouts(b) BY <1>6, SetTimeoutsFine
<1>7. CASE SetFd(b) BY <1>7, SetFdFine
<1>8. CASE Connect(b) BY <1>8, ConnectFine
<1>9. CASE ConnectHostname(b) BY <1>9, ConnectHostnameFine
<1>10. CASE Free(b) BY <1>10, FreeFine
<1>11. CASE \E c \in Cfgs : SetRateLimit(b, c) BY <1>11, SetRateLimitFine
<1>12. CASE EndRateLimit(b) BY <1>12, EndRateLimitFine
<1>13. CASE Join(b) BY <1>13, JoinFine
<1>14. CASE Leave(b) BY <1>14, LeaveFine
<1> QED BY <1>1, <1>2, <1>3, <1>4, <1>5, <1>6, <1>7, <1>8, <1>9, <1>10, <1>11, <1>12, <1>13,
           <1>14, Zenon DEF Program

LEMMA NextFine ==
  ASSUME Sound(Now, loop), Fine(Now, loop), "bufferevent_decref_and_unlock_" \in Repaired,
         "be_socket_setfd" \in Repaired, [Next]_vars
  PROVE  Fine(Now', loop')
<1>0. Sound(Now', loop') BY NextStep
<1>1. CASE Poll BY <1>0, <1>1, PollFine
<1>2. CASE Take BY <1>2, TakeFine
<1>3. CASE GroupRefill BY <1>3, GroupRefillFine
<1>4. CASE Tick BY <1>0, <1>4, TickFine
<1>5. ASSUME NEW b \in Bevs, ReadCb(b) PROVE Fine(Now', loop') BY <1>5, ReadCbFine
<1>6. ASSUME NEW b \in Bevs, WriteCb(b) PROVE Fine(Now', loop') BY <1>6, WriteCbFine
<1>7. ASSUME NEW b \in Bevs, Refill(b) PROVE Fine(Now', loop') BY <1>7, RefillFine
<1>8. ASSUME NEW b \in Bevs, RunDeferred(b) PROVE Fine(Now', loop') BY <1>8, RunDeferredFine
<1>9. ASSUME NEW b \in Bevs, CallbackReturns(b) PROVE Fine(Now', loop')
  BY <1>9, CallbackReturnsFine
<1>10. ASSUME NEW b \in Bevs, FinalizeCb(b) PROVE Fine(Now', loop')
  BY <1>0, <1>10, FinalizeCbFine
<1>11. ASSUME NEW b \in Bevs, Network(b) PROVE Fine(Now', loop') BY <1>11, NetworkFine
<1>12. ASSUME NEW b \in Bevs, LookupDone(b) PROVE Fine(Now', loop') BY <1>12, LookupDoneFine
<1>13. ASSUME NEW b \in Bevs, Program(b) PROVE Fine(Now', loop') BY <1>13, ProgramFine
<1>14. CASE UNCHANGED vars
  <2>1. Now' = Now /\ loop' = loop BY <1>14 DEF vars, Now
  <2> QED BY <2>1
<1> QED BY <1>1, <1>2, <1>3, <1>4, <1>5, <1>6, <1>7, <1>8, <1>9, <1>10, <1>11, <1>12, <1>13,
           <1>14, Zenon DEF Next, LoopStep

\* What the program does never changes.
LEMMA UsesKept == ASSUME [Next]_vars PROVE uses' = uses
<1>1. CASE Poll \/ Take \/ GroupRefill \/ Tick BY <1>1, Zenon DEF Poll, Take, GroupRefill, Tick
<1>2. ASSUME NEW b, NEW i, TellFrom(Now, b, i) PROVE uses' = uses
  BY <1>2, Zenon DEF TellFrom, Done
<1>3. ASSUME NEW b, NEW w, ReadFrom(w, b) PROVE uses' = uses BY <1>3, Zenon DEF ReadFrom, Done
<1>4. ASSUME NEW b, NEW w, NEW c, WriteTo(w, b, c) PROVE uses' = uses
  BY <1>4, Zenon DEF WriteTo, Done
<1>5. ASSUME NEW b, ReadCb(b) PROVE uses' = uses BY <1>3, <1>5, Zenon DEF ReadCb, Done
<1>6. ASSUME NEW b, WriteCb(b) PROVE uses' = uses BY <1>4, <1>6, Zenon DEF WriteCb, Done
<1>7. ASSUME NEW b, Refill(b) \/ RunDeferred(b) \/ CallbackReturns(b) \/ FinalizeCb(b)
      PROVE  uses' = uses
  BY <1>2, <1>7, Zenon DEF Refill, RunDeferred, CallbackReturns, FinalizeCb
<1>8. ASSUME NEW b, Network(b) \/ LookupDone(b) PROVE uses' = uses
  BY <1>8, Zenon DEF Network, LookupDone
<1>9. ASSUME NEW b, NEW part, NEW w, Call(part, b, w) PROVE uses' = uses BY <1>9, Zenon DEF Call
<1>10. ASSUME NEW b, Program(b) PROVE uses' = uses
  <2>1. CASE \E d \in D : Enable(b, d) \/ Disable(b, d) \/ DecrementLimit(b, d)
    BY <1>9, <2>1, Zenon DEF Enable, Disable, DecrementLimit
  <2>2. CASE Write(b) \/ Read(b) \/ SetReadMarks(b) \/ SetWriteMark(b) \/ SetTimeouts(b)
    BY <1>9, <2>2, Zenon DEF Write, Read, SetReadMarks, SetWriteMark, SetTimeouts
  <2>3. CASE SetFd(b) \/ Connect(b) \/ ConnectHostname(b) \/ Free(b)
    BY <1>9, <2>3, Zenon DEF SetFd, Connect, ConnectHostname, Free
  <2>4. CASE EndRateLimit(b) \/ Join(b) \/ Leave(b) \/ \E c \in Cfgs : SetRateLimit(b, c)
    BY <1>9, <2>4, Zenon DEF EndRateLimit, Join, Leave, SetRateLimit
  <2> QED BY <1>10, <2>1, <2>2, <2>3, <2>4, Zenon DEF Program
<1>11. CASE UNCHANGED vars BY <1>11 DEF vars
<1> QED BY <1>1, <1>5, <1>6, <1>7, <1>8, <1>10, <1>11, Zenon DEF Next, LoopStep

\* What the bufferevent may ask for in the direction d, by its own bucket and by the
\* group's
LEMMA RlimMaxFed ==
  ASSUME NEW w \in Worlds, NEW b \in Bevs, NEW d \in D, Capped(w.bev[b]),
         w.bev[b].susp[d] = {}, b \in w.grp.members => d \notin w.grp.suspended
  PROVE  RlimMax(w, b, d) > 0
<1>0. w.bev[b] \in Bev /\ w.grp \in Grp BY DEF Worlds
<1>1. MaxLen \in Nat \ {0} BY EvBevAssumption DEF EvBevAssumption
<1>2. OwnMax(w, b, d) \in Int /\ OwnMax(w, b, d) > 0
  <2>1. CASE w.bev[b].cfg = NoCfg BY <1>1, <2>1 DEF OwnMax
  <2>2. CASE w.bev[b].cfg # NoCfg
    <3>1. w.bev[b].limit[d] \in Int BY <1>0 DEF Bev
    <3>2. ~(w.bev[b].limit[d] <= 0) BY <2>2 DEF Capped
    <3> QED BY <2>2, <3>1, <3>2 DEF OwnMax
  <2> QED BY <2>1, <2>2
<1>3. CASE b \notin w.grp.members BY <1>2, <1>3 DEF RlimMax, Most
<1>4. CASE b \in w.grp.members
  <2>1. Cardinality(w.grp.members) \in Nat \ {0}
    <3>1. w.grp.members \in SUBSET Bevs BY <1>0 DEF Grp
    <3>2. IsFiniteSet(w.grp.members) BY <3>1, Sizes, FS_Subset
    <3> QED BY <1>4, <3>2, FS_CardinalityType, FS_EmptySet
  <2>2. w.grp.limit[d] \in Int BY <1>0 DEF Grp
  <2>3. w.grp.limit[d] \div Cardinality(w.grp.members) \in Int BY <2>1, <2>2
  <2>4. Share(w, d) \in Int /\ Share(w, d) > 0 BY <2>3 DEF Share, Most
  <2>5. /\ Least(OwnMax(w, b, d), Share(w, d)) \in Int
        /\ Least(OwnMax(w, b, d), Share(w, d)) > 0
    BY <1>2, <2>4 DEF Least
  <2> QED BY <1>4, <2>5 DEF RlimMax, Most
<1> QED BY <1>3, <1>4

\* Whoever is not suspended has bytes to ask for, once it has been refilled.
LEMMA FineAsks ==
  ASSUME Fine(Now, loop), NEW b \in Bevs, bev[b].st = "live", bev[b].final = {}
  PROVE  AsksForBytes(b)
<1>1. /\ Now \in Worlds /\ Good(Now, loop, Slow(Now)) /\ FedBut(Now, {})
      /\ Now.bev[b].st = "live" /\ Now.bev[b].final = {}
  BY DEF Fine, Now
<1> SUFFICES ASSUME NEW d \in D, NEW w, w = AskRlim(Now, b, d), w.bev[b].susp[d] = {}
             PROVE  RlimMax(w, b, d) > 0
  BY DEF AsksForBytes
<1>2. Fares(Now, w, b, loop, Slow(Now)) BY <1>1, AskRlimGood
<1>3. /\ w \in Worlds /\ Good(w, loop, Slow(Now)) /\ w.bev[b].st = "live"
      /\ w.grp = Now.grp /\ w.bev[b].final = {}
  BY <1>1, <1>2, FaresOn
<1>4. Capped(w.bev[b]) BY <1>3 DEF Good, Firm, Stands, Upheld
<1>5. b \in Now.grp.members => d \notin Now.grp.suspended BY <1>1, AskRlimQuiet
<1>6. b \in w.grp.members => d \notin w.grp.suspended BY <1>3, <1>5
<1> QED BY <1>3, <1>4, <1>6, RlimMaxFed

\* What suspends a direction for its bandwidth is going to end.
LEMMA FineBandwidth ==
  ASSUME Fine(Now, loop), NEW b \in Bevs, bev[b].st = "live", bev[b].final = {}
  PROVE  BandwidthHeld(b)
<1>1. /\ Now.bev = bev /\ Now.grp = grp /\ Now.queue = queue
      /\ Good(Now, loop, Slow(Now)) /\ FedBut(Now, {})
  BY DEF Fine, Now
<1>2. Upheld(Now, loop, b, Slow(Now)) BY <1>1 DEF Good, Firm, Stands
<1>3. Capped(bev[b]) /\ Backed(Now, loop, b) /\ Tied(Now, b, Slow(Now)) BY <1>1, <1>2 DEF Upheld
<1>4. ASSUME Timed(Now, loop, b)
      PROVE  "T" \in bev[b].pend \/ Queued(Now, b, "T") \/ Running(b) = "T"
  BY <1>1, <1>4 DEF Timed, AtTimer, Running, Queued, Tasks
<1> SUFFICES ASSUME NEW d \in D
             PROVE  /\ bev[b].cfg # NoCfg /\ bev[b].limit[d] <= 0 => "BW" \in bev[b].susp[d]
                    /\ "BW" \in bev[b].susp[d] =>
                         bev[b].cfg # NoCfg
                           /\ ("T" \in bev[b].pend \/ Queued(Now, b, "T") \/ Running(b) = "T")
                    /\ "GROUP" \in bev[b].susp[d] =>
                         b \in grp.members /\ d \in grp.suspended \cup grp.again
                    /\ d \notin grp.suspended => grp.limit[d] > 0
  BY DEF BandwidthHeld
<1>5. bev[b].cfg # NoCfg /\ bev[b].limit[d] <= 0 => "BW" \in bev[b].susp[d] BY <1>3 DEF Capped
<1>6. "BW" \in bev[b].susp[d] => bev[b].cfg # NoCfg /\ Timed(Now, loop, b)
  BY <1>1, <1>3 DEF Backed
<1>7. "GROUP" \in bev[b].susp[d] => b \in grp.members /\ d \in grp.suspended \cup grp.again
  BY <1>1, <1>3 DEF Tied, Slow
<1>8. d \notin grp.suspended => grp.limit[d] > 0 BY <1>1 DEF FedBut
<1> QED BY <1>4, <1>5, <1>6, <1>7, <1>8

\* The references of one bufferevent, counted, and who owes its callbacks
LEMMA FineHeld ==
  ASSUME Sound(Now, loop), Fine(Now, loop), NEW b \in Bevs, bev[b].st = "live", bev[b].final = {}
  PROVE  Held(b) /\ bev[b].refcnt \in 0 .. 4
<1>1. /\ Now.bev = bev /\ Now.queue = queue /\ Now \in Worlds
      /\ Good(Now, loop, Slow(Now)) /\ Counted(Now, loop, b) /\ LoopFits(Now, loop)
  BY DEF Fine, Now, Sound, Base
<1>2. Owed(Now, loop, b) BY <1>1 DEF Good, Firm, Stands, Upheld
<1>3. bev[b].own \in BOOLEAN /\ bev[b].cbs \in BOOLEAN /\ bev[b].refcnt \in Int
  BY <1>1 DEF Worlds, Bev
<1>4. Queued(Now, b, "D") <=> Deferred(Now, b) BY DEF Queued, Deferred, Tasks
<1>5. Running(b) = "D" <=> AtDeferred(loop, b) BY DEF Running, AtDeferred
<1> DEFINE o == IF bev[b].own THEN 1 ELSE 0
           q == IF Queued(Now, b, "D") THEN 1 ELSE 0
           r == IF Running(b) = "D" THEN 1 ELSE 0
           k == IF bev[b].lookup # "no" THEN 1 ELSE 0
<1>6. o = Of(bev[b].own = TRUE) BY <1>3, Zenon DEF Of
<1>7. q = Of(Deferred(Now, b)) BY <1>4 DEF Of
<1>8. r = Of(AtDeferred(loop, b)) BY <1>5 DEF Of
<1>9. k = Of(bev[b].lookup # "no") BY DEF Of
<1>10. bev[b].refcnt = o + k + q + r BY <1>1, <1>6, <1>7, <1>8, <1>9 DEF Counted
<1>11. o \in {0, 1} /\ q \in {0, 1} /\ r \in {0, 1} /\ k \in {0, 1} OBVIOUS
<1>12. ASSUME bev[b].tell # {}, bev[b].cbs PROVE Queued(Now, b, "D") \/ Running(b) = "D"
  <2>1. PICK t : t \in bev[b].tell BY <1>12
  <2>2. bev[b].cbs = TRUE BY <1>3, <1>12, Zenon
  <2>3. Deferred(Now, b) \/ Awaits(loop, b, t) BY <1>1, <1>2, <2>1, <2>2 DEF Owed
  <2>4. Awaits(loop, b, t) => AtDeferred(loop, b) BY DEF Awaits, AtDeferred
  <2> QED BY <1>4, <1>5, <2>3, <2>4
<1>13. Held(b) <=> /\ bev[b].refcnt = o + q + r + k
                   /\ bev[b].tell # {} /\ bev[b].cbs => Queued(Now, b, "D") \/ Running(b) = "D"
  BY Zenon DEF Held
<1> HIDE DEF o, q, r, k
<1>14. bev[b].refcnt = o + q + r + k /\ bev[b].refcnt \in 0 .. 4 BY <1>10, <1>11
<1> QED BY <1>12, <1>13, <1>14

LEMMA FineType ==
  ASSUME Sound(Now, loop), Fine(Now, loop), uses \in Programs PROVE TypeOK
<1>1. /\ Now.bev = bev /\ Now.grp = grp /\ Now \in Worlds /\ Good(Now, loop, Slow(Now))
      /\ \A b \in Bevs : Counted(Now, loop, b)
  BY DEF Fine, Now, Sound, Base
<1>2. /\ grp.members \subseteq Bevs /\ grp.suspended \subseteq D /\ grp.again \subseteq D
  BY <1>1 DEF Worlds, Grp
<1>3. ASSUME NEW b \in Bevs
      PROVE  LET v == bev[b]
             IN /\ v.st \in {"unused", "live", "freed"} /\ v.refcnt \in 0 .. 4
                /\ v.enabled \subseteq D /\ v.tv \subseteq D /\ v.pend \subseteq D \cup {"T"}
                /\ v.susp \in [D -> SUBSET {"WM", "BW", "GROUP", "LOOKUP"}]
                /\ v.len \in [D -> 0 .. MaxLen] /\ v.tell \subseteq Events \cup {"read", "write"}
                /\ v.cfg \in Cfgs \cup {NoCfg} /\ v.limit \in [D -> Int]
  <2>1. PICK v : v = bev[b] OBVIOUS
  <2>2. v \in Bev /\ Sized(v) BY <1>1, <2>1 DEF Worlds, Good
  <2>3. /\ v.st \in {"unused", "live", "freed"} /\ v.enabled \subseteq D /\ v.tv \subseteq D
        /\ v.tell \subseteq Events \cup {"read", "write"} /\ v.cfg \in Cfgs \cup {NoCfg}
        /\ v.limit \in [D -> Int] /\ v.len \in [D -> Int] /\ v.pend \subseteq {"R", "W", "T"}
        /\ v.susp \in [D -> SUBSET Reasons]
    BY <2>2 DEF Bev
  <2>4. v.pend \subseteq D \cup {"T"} BY <2>3 DEF D
  <2>5. v.len \in [D -> 0 .. MaxLen]
    <3>1. \A d \in D : v.len[d] \in 0 .. MaxLen BY <2>2 DEF Sized
    <3> QED BY <2>3, <3>1
  <2>6. v.refcnt \in 0 .. 4
    <3>1. CASE v.st = "unused" BY <2>2, <3>1 DEF Sized
    <3>2. CASE v.st = "freed" BY <1>1, <2>1, <3>2 DEF Counted
    <3>3. CASE v.st = "live" /\ v.final = {} BY <2>1, <3>3, FineHeld
    <3>4. CASE v.st = "live" /\ v.final # {} BY <1>1, <2>1, <3>4 DEF Counted
    <3> QED BY <2>3, <3>1, <3>2, <3>3, <3>4
  <2> QED BY <2>1, <2>3, <2>4, <2>5, <2>6 DEF Reasons
<1> QED BY <1>2, <1>3, Zenon DEF TypeOK

\* What suspends a direction has its cause and its end, an event is added exactly
\* while it is wanted, whoever may move bytes has some to ask for, and a callback
\* owed has one who makes it (bufferevent_suspend_read_, bufferevent_inbuf_wm_cb,
\* bev_refill_callback_, bufferevent_run_deferred_callbacks_locked), whatever the
\* other thread does between the loop's taking a callback and its lock.
THEOREM WaitsForACause ==
  ASSUME "bufferevent_decref_and_unlock_" \in Repaired, "be_socket_setfd" \in Repaired
  PROVE  Spec => []Inv
<1> DEFINE IInv == Sound(Now, loop) /\ Fine(Now, loop) /\ uses \in Programs
<1>1. Init => IInv
  <2>1. Init => uses \in Programs BY DEF Init
  <2> QED BY <2>1, InitSound, InitFine
<1>2. IInv /\ [Next]_vars => IInv' BY NextStep, NextFine, UsesKept
<1>3. IInv => Inv
  <2>1. ASSUME IInv PROVE TypeOK BY <2>1, FineType
  <2>2. ASSUME IInv, NEW b \in Bevs, bev[b].st = "live", bev[b].final = {}
        PROVE  Waits(bev[b]) /\ MarkHeld(bev[b])
    <3>1. Now.bev = bev /\ Good(Now, loop, Slow(Now)) BY <2>2 DEF Fine, Now
    <3> QED BY <2>2, <3>1 DEF Good, Firm, Stands
  <2>3. ASSUME IInv, NEW b \in Bevs, bev[b].st = "live", bev[b].final = {}
        PROVE  BandwidthHeld(b) /\ AsksForBytes(b) /\ Held(b)
    BY <2>3, FineBandwidth, FineAsks, FineHeld
  <2> HIDE DEF IInv
  <2> QED BY <2>1, <2>2, <2>3, Zenon DEF Inv
<1> HIDE DEF IInv
<1> QED BY <1>1, <1>2, <1>3, PTL DEF Spec
=============================================================================
