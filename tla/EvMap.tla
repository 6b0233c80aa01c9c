-------------------------------- MODULE EvMap --------------------------------
(***************************************************************************)
(* How an event base tells the kernel which descriptors to watch: the map  *)
(* from descriptors to events (net/libevent/src/evmap.c), the list of      *)
(* changes that EVENT_BASE_FLAG_EPOLL_USE_CHANGELIST saves up until the    *)
(* next dispatch, and epoll_apply_one_change (epoll.c), which makes up for *)
(* descriptors that the program closed and opened again behind the map.    *)
(*                                                                         *)
(* All of it runs under the lock of the base; EvLoop has the threads.      *)
(***************************************************************************)
EXTENDS Integers, Sequences, FiniteSets, Functions

CONSTANTS Fds, Events,
          Fd,         \* [Events -> Fds], ev_fd
          Kinds,      \* [Events -> sets of READ, WRITE, CLOSED], ev_events
          MaxCount    \* 0xffff

AllKinds == {"READ", "WRITE", "CLOSED"}
NoItem == {}          \* the kernel does not have the descriptor

VARIABLES changelist, \* whether changes are saved up; fixed
          events,     \* io->events of each descriptor
          count,      \* nread, nwrite, nclose
          changes,    \* the changelist
          idxplus1,   \* where in it a descriptor is, 0 for nowhere
          kernel,     \* the interest of the descriptor in the epoll instance
          file        \* closed, kept (the file is open elsewhere), open, dup

vars == <<changelist, events, count, changes, idxplus1, kernel, file>>

ASSUME EvMapAssumption ==
  /\ IsFiniteSet(Fds) /\ Fd \in [Events -> Fds]
  /\ Kinds \in [Events -> SUBSET AllKinds \ {{}}]
  /\ MaxCount \in Nat \ {0}

Change == [fd : Fds, old : SUBSET AllKinds, change : [AllKinds -> {"none", "add", "del"}]]

TypeOK ==
  /\ changelist \in BOOLEAN
  /\ events \in [Fds -> SUBSET Events]
  /\ count \in [Fds -> [AllKinds -> 0 .. MaxCount]]
  /\ changes \in Seq(Change) /\ Len(changes) <= Cardinality(Fds)
  /\ idxplus1 \in [Fds -> 0 .. Len(changes)]
  /\ kernel \in [Fds -> SUBSET AllKinds]
  /\ file \in [Fds -> {"closed", "kept", "open", "dup"}]

Init ==
  /\ changelist \in BOOLEAN
  /\ events = [f \in Fds |-> {}]
  /\ count = [f \in Fds |-> [k \in AllKinds |-> 0]]
  /\ changes = << >> /\ idxplus1 = [f \in Fds |-> 0]
  /\ kernel = [f \in Fds |-> NoItem]
  /\ file = [f \in Fds |-> "open"]

IsOpen(f) == file[f] \in {"open", "dup"}

---------------------------------------------------------------------------
(* The kernel and epoll_apply_one_change                                   *)

With(ch, what) == {k \in AllKinds : ch.change[k] = what}

\* epoll_op_table: what to ask of the kernel, which had ch.old.
OpTable(ch) ==
  LET want == (ch.old \ With(ch, "del")) \cup With(ch, "add")
  IN CASE With(ch, "add") # {} -> [op |-> IF ch.old = {} THEN "ADD" ELSE "MOD", want |-> want]
       [] With(ch, "add") = {} /\ With(ch, "del") # {} ->
            [op |-> IF want = {} THEN "DEL" ELSE "MOD", want |-> want]
       [] OTHER -> [op |-> "none", want |-> {}]

Answers == {"none", "ENOMEM"}     \* of the kernel to a new descriptor

\* epoll_ctl for the descriptor f, whose interest is item: the error, or the
\* new interest.
EpollCtl(f, item, op, want, answer) ==
  CASE ~IsOpen(f) -> [errno |-> "EBADF", item |-> item]
    [] IsOpen(f) /\ op = "ADD" /\ item # NoItem -> [errno |-> "EEXIST", item |-> item]
    [] IsOpen(f) /\ op = "ADD" /\ item = NoItem ->
         [errno |-> answer, item |-> IF answer = "none" THEN want ELSE NoItem]
    [] IsOpen(f) /\ op # "ADD" /\ item = NoItem -> [errno |-> "ENOENT", item |-> NoItem]
    [] OTHER -> [errno |-> "none", item |-> IF op = "DEL" THEN NoItem ELSE want]

\* epoll_apply_one_change: a MOD that finds nothing becomes an ADD, an ADD
\* that finds something a MOD, and a DEL need not find anything.
Apply(item, ch, answer) ==
  LET o == OpTable(ch)
      first == EpollCtl(ch.fd, item, o.op, o.want, answer)
      r == CASE o.op = "MOD" /\ first.errno = "ENOENT" ->
                  EpollCtl(ch.fd, item, "ADD", o.want, answer)
             [] o.op = "ADD" /\ first.errno = "EEXIST" ->
                  EpollCtl(ch.fd, item, "MOD", o.want, answer)
             [] o.op = "DEL" -> [first EXCEPT !.errno = "none"]
             [] OTHER -> first
  IN IF o.op = "none" THEN [ok |-> TRUE, item |-> item]
     ELSE [ok |-> r.errno = "none", item |-> r.item]

---------------------------------------------------------------------------
(* The backend's add and del                                               *)

NewChange(f, old, what, kinds) ==
  [fd |-> f, old |-> old, change |-> [k \in AllKinds |-> IF k \in kinds THEN what ELSE "none"]]

\* event_changelist_get_or_construct: old only counts for a new change.
Construct(chs, idx, f, old) ==
  IF idx[f] # 0 THEN chs ELSE Append(chs, NewChange(f, old, "none", {}))

Place(chs, idx, f) == IF idx[f] # 0 THEN idx[f] ELSE Len(chs) + 1

\* Faulty: an add that undoes a delete leaves nothing to do.
ChangelistAddCancels(chs, idx, f, old, kinds) ==
  LET c == Construct(chs, idx, f, old)
  IN [c EXCEPT ![Place(chs, idx, f)].change =
        [k \in AllKinds |-> IF k \notin kinds THEN @[k]
                            ELSE IF @[k] = "del" THEN "none" ELSE "add"]]

\* event_changelist_add_: an add replaces a delete, and is never left out.
ChangelistAdd(chs, idx, f, old, kinds) ==
  LET c == Construct(chs, idx, f, old)
  IN [c EXCEPT ![Place(chs, idx, f)].change =
        [k \in AllKinds |-> IF k \in kinds THEN "add" ELSE @[k]]]

\* event_changelist_del_: what the kernel did not have needs no delete.
ChangelistDel(chs, idx, f, old, kinds) ==
  LET c == Construct(chs, idx, f, old)
      p == Place(chs, idx, f)
  IN [c EXCEPT ![p].change =
        [k \in AllKinds |-> IF k \notin kinds THEN @[k]
                            ELSE IF k \in c[p].old THEN "del" ELSE "none"]]

Saved(newChanges, f) ==
  /\ changes' = newChanges
  /\ idxplus1' = [idxplus1 EXCEPT ![f] = Place(changes, idxplus1, f)]
  /\ UNCHANGED kernel

Direct(f, result) == /\ kernel' = [kernel EXCEPT ![f] = result.item]
                     /\ UNCHANGED <<changes, idxplus1>>

Counts(f, d, kinds) ==
  [count EXCEPT ![f] = [k \in AllKinds |-> IF k \in kinds THEN @[k] + d ELSE @[k]]]

Interest(f) == {k \in AllKinds : count[f][k] > 0}

---------------------------------------------------------------------------
(* The operations                                                          *)

\* evmap_io_add_: the backend hears of the kinds that are the first of their
\* descriptor; if it fails, or there are too many, nothing has changed.
EvmapIoAdd(e, answer) ==
  LET f == Fd[e]
      new == {k \in Kinds[e] : count[f][k] = 0}
      added == /\ count' = Counts(f, 1, Kinds[e])
               /\ events' = [events EXCEPT ![f] = @ \cup {e}]
  IN /\ e \notin events[f] /\ \A k \in Kinds[e] : count[f][k] < MaxCount
     /\ IF new = {} THEN added /\ UNCHANGED <<changes, idxplus1, kernel>>
        ELSE IF changelist
        THEN added /\ Saved(ChangelistAdd(changes, idxplus1, f, Interest(f), new), f)
        ELSE LET r == Apply(kernel[f], NewChange(f, Interest(f), "add", new), answer)
             IN Direct(f, r) /\ IF r.ok THEN added ELSE UNCHANGED <<count, events>>
     /\ UNCHANGED <<changelist, file>>

\* evmap_io_del_: the event leaves the map whatever the backend says.
EvmapIoDel(e) ==
  LET f == Fd[e]
      gone == {k \in Kinds[e] : count[f][k] = 1}
  IN /\ e \in events[f]
     /\ IF gone = {} THEN UNCHANGED <<changes, idxplus1, kernel>>
        ELSE IF changelist
        THEN Saved(ChangelistDel(changes, idxplus1, f, Interest(f), gone), f)
        ELSE Direct(f, Apply(kernel[f], NewChange(f, Interest(f), "del", gone), "none"))
     /\ count' = Counts(f, -1, Kinds[e])
     /\ events' = [events EXCEPT ![f] = @ \ {e}]
     /\ UNCHANGED <<changelist, file>>

\* epoll_apply_changes.  A descriptor has at most one change (ChangesAgree),
\* so each is on its own.
Changed(f) == {i \in DOMAIN changes : changes[i].fd = f}

EpollApplyChanges ==
  [f \in Fds |-> IF Changed(f) = {} THEN kernel[f]
                 ELSE Apply(kernel[f], changes[CHOOSE i \in Changed(f) : TRUE], "none").item]

\* Faulty: the places of the descriptors in the list are not forgotten.
EpollDispatchKeepsPlaces ==
  /\ changes # << >>
  /\ kernel' = EpollApplyChanges
  /\ changes' = << >>
  /\ UNCHANGED <<changelist, events, count, idxplus1, file>>

\* epoll_dispatch, before it waits: epoll_apply_changes, which does not say
\* which changes failed, and event_changelist_remove_all_.
EpollDispatch ==
  /\ changes # << >>
  /\ kernel' = EpollApplyChanges
  /\ changes' = << >>
  /\ idxplus1' = [f \in Fds |-> IF Changed(f) # {} THEN 0 ELSE idxplus1[f]]
  /\ UNCHANGED <<changelist, events, count, file>>

\* event_reinit after a fork: a new epoll instance hears of every descriptor
\* with a slot in the map, one after the other, even if some of them fail.
EventReinit ==
  /\ IF changelist
     THEN /\ kernel' = [f \in Fds |-> NoItem]
          /\ idxplus1' \in Bijection(Fds, 1 .. Cardinality(Fds))
          /\ changes' = [i \in 1 .. Cardinality(Fds) |->
                           LET f == CHOOSE g \in Fds : idxplus1'[g] = i
                           IN NewChange(f, {}, "add", Interest(f))]
     ELSE /\ kernel' = [f \in Fds |->
                          Apply(NoItem, NewChange(f, {}, "add", Interest(f)), "none").item]
          /\ UNCHANGED <<changes, idxplus1>>
  /\ UNCHANGED <<changelist, events, count, file>>

---------------------------------------------------------------------------
(* The program and its descriptors                                         *)

\* The kernel forgets a descriptor with its file, unless the file is open
\* elsewhere.
Close(f) ==
  /\ IsOpen(f)
  /\ \/ file' = [file EXCEPT ![f] = "closed"] /\ kernel' = [kernel EXCEPT ![f] = NoItem]
     \/ file' = [file EXCEPT ![f] = "kept"] /\ UNCHANGED kernel
  /\ UNCHANGED <<changelist, events, count, changes, idxplus1>>

\* Another file, or with dup the same, gets the descriptor.  The program has
\* deleted its events before.
Open(f) ==
  /\ ~IsOpen(f) /\ events[f] = {}
  /\ \/ file' = [file EXCEPT ![f] = "open"] /\ kernel' = [kernel EXCEPT ![f] = NoItem]
     \/ file[f] = "kept" /\ file' = [file EXCEPT ![f] = "dup"] /\ UNCHANGED kernel
  /\ UNCHANGED <<changelist, events, count, changes, idxplus1>>

Next ==
  \/ \E e \in Events : EvmapIoDel(e) \/ \E answer \in Answers : EvmapIoAdd(e, answer)
  \/ EpollDispatch \/ EventReinit
  \/ \E f \in Fds : Close(f) \/ Open(f)

Spec == Init /\ [][Next]_vars

---------------------------------------------------------------------------
(* Properties                                                              *)

\* evmap_io_check_integrity_fn: the counts are those of the events in the map,
\* also after the backend has refused one.
CountsAgree ==
  \A f \in Fds, k \in AllKinds :
    count[f][k] = Cardinality({e \in events[f] : k \in Kinds[e]})

\* event_changelist_assert_ok: a descriptor has at most one change, and knows
\* its place; one that has no change knows that.
ChangesAgree ==
  /\ \A i \in DOMAIN changes : idxplus1[changes[i].fd] = i
  /\ \A f \in Fds : idxplus1[f] # 0 =>
       idxplus1[f] \in DOMAIN changes /\ changes[idxplus1[f]].fd = f

\* Once no change is left to apply, the kernel watches an open descriptor for
\* exactly what its events want, however often it was closed and opened since
\* the changes were saved; for a descriptor that dup brought back it may watch
\* for more.
Watched ==
  \A f \in Fds :
    (IsOpen(f) /\ idxplus1[f] = 0) =>
      /\ Interest(f) \subseteq kernel[f]
      /\ file[f] = "open" => kernel[f] = Interest(f)

\* The map and the list of changes after every call, whatever the backend refused.
Inv == TypeOK /\ CountsAgree /\ ChangesAgree
==============================================================================
