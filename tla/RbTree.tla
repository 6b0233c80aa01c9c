------------------------------- MODULE RbTree -------------------------------
(***************************************************************************)
(* The red-black tree of cocool/co_rbtree.c with the search and insert     *)
(* cores of its user (test/rbtree_test.c:16-46, include/co_rbtree.h:32-80).*)
(*                                                                         *)
(* Nodes are 1 .. N, and the key of a node is its number.  The loops of    *)
(* rb_rebalance and rb_erase_rebalance take one action per iteration.      *)
(* Where the code has two mirrored branches for left and right, the model  *)
(* has one definition with the side as a parameter.                        *)
(***************************************************************************)
EXTENDS Integers, FiniteSets

CONSTANT N
ASSUME RbTreeAssumption == N \in Nat \ {0}

Null  == 0
Nodes == 1 .. N
Sides == {"left", "right"}
Other(s) == IF s = "left" THEN "right" ELSE "left"
Red   == 0
Black == 1

VARIABLES
  tree,      \* [root, parent, child, color]: *root and the fields of the nodes
  nodes,     \* the nodes the user has allocated and not freed
  pc,        \* "idle", or the loop the call is in
  key,       \* the key of the insert or of the erase
  node,      \* rb_rebalance: node; rb_erase_rebalance: child; a search: *p
  parent,    \* rb_erase_rebalance: parent; insert: entry
  walk       \* t->node of a traversal, Null when there is none

vars == <<tree, nodes, pc, key, node, parent, walk>>

Init == /\ tree = [root   |-> Null,
                   parent |-> [n \in Nodes |-> Null],
                   child  |-> [s \in Sides |-> [n \in Nodes |-> Null]],
                   color  |-> [n \in Nodes |-> Black]]
        /\ nodes = {}
        /\ pc = "idle"
        /\ key = Null /\ node = Null /\ parent = Null /\ walk = Null

---------------------------------------------------------------------------
(* Operators on trees                                                      *)

\* Assignments behind a test for NULL.
SetParent(t, n, p) == IF n = Null THEN t ELSE [t EXCEPT !.parent[n] = p]
SetColor(t, n, c)  == IF n = Null THEN t ELSE [t EXCEPT !.color[n] = c]

IsRed(t, n) == n # Null /\ t.color[n] = Red

\* The link to n, in its parent p or in *root, is set to m.
Replace(t, p, n, m) ==
  IF p = Null THEN [t EXCEPT !.root = m]
  ELSE IF t.child["left"][p] = n THEN [t EXCEPT !.child["left"][p] = m]
                                 ELSE [t EXCEPT !.child["right"][p] = m]

\* rb_rotate_left (s = "left") and rb_rotate_right: n goes down to the side s.
Rotate(t, n, s) ==
  LET up    == t.child[Other(s)][n]
      moved == t.child[s][up]
      links == [t EXCEPT !.child[Other(s)][n] = moved,
                         !.child[s][up] = n,
                         !.parent[up] = t.parent[n]]
      top   == Replace(links, t.parent[n], n, up)
  IN SetParent(SetParent(top, moved, n), n, up)

\* The last node of the way down to the side s.
Extreme(t, n, s) ==
  LET down[m \in Nodes] == IF t.child[s][m] = Null THEN m ELSE down[t.child[s][m]]
  IN down[n]

\* rb_first of a tree that is not empty.
First(t) == Extreme(t, t.root, "left")

\* Faulty: one step up only.
NextNodeParent(t, n) == IF t.child["right"][n] = Null THEN t.parent[n]
                        ELSE Extreme(t, t.child["right"][n], "left")

\* rb_next: up to the first ancestor that has n on its left, or down.
NextNode(t, n) ==
  LET up[p \in Nodes] ==
        LET q == t.parent[p] IN
        IF q = Null \/ p = t.child["left"][q] THEN q ELSE up[q]
  IN IF t.child["right"][n] = Null THEN up[n]
                                   ELSE Extreme(t, t.child["right"][n], "left")

---------------------------------------------------------------------------
(* Insert: search, link a new leaf, rb_rebalance; and the search for the   *)
(* node to erase.  The user does not erase the node a traversal is at.     *)

Side(k, n) == IF k < n THEN "left" ELSE "right"

\* "search" is the search of an insert, "lookup" the one of an erase.
Searching == pc \in {"search", "lookup"}

Begin(loop, k) == /\ pc = "idle"
                  /\ pc' = loop
                  /\ key' = k /\ node' = tree.root /\ parent' = Null
                  /\ UNCHANGED <<tree, nodes, walk>>

Insert(k) == Begin("search", k)
Erase(k)  == k # walk /\ Begin("lookup", k)

\* Only the insert keeps the entry it comes from.
Entry == IF pc = "search" THEN node ELSE Null

\* Faulty: the loop does not move on.
DescendStays == /\ Searching /\ node \notin {Null, key}
                /\ parent' = Entry
                /\ UNCHANGED <<tree, nodes, pc, key, node, walk>>

Descend == /\ Searching /\ node \notin {Null, key}
           /\ parent' = Entry
           /\ node' = tree.child[Side(key, node)][node]
           /\ UNCHANGED <<tree, nodes, pc, key, walk>>

\* The user is done: all locals are gone.
Return == pc' = "idle" /\ key' = Null /\ node' = Null /\ parent' = Null

\* The key is there already, or there is none to erase.
Found == /\ \/ pc = "search" /\ node = key
            \/ pc = "lookup" /\ node = Null
         /\ Return
         /\ UNCHANGED <<tree, nodes, walk>>

\* malloc, the links of the new node, the link to it, rb_color = RB_RED.
Link == /\ pc = "search" /\ node = Null
        /\ nodes' = nodes \cup {key}
        /\ LET new == [tree EXCEPT !.parent[key] = parent,
                                   !.child["left"][key] = Null,
                                   !.child["right"][key] = Null,
                                   !.color[key] = Red]
           IN tree' = IF parent = Null THEN [new EXCEPT !.root = key]
                      ELSE [new EXCEPT !.child[Side(key, parent)][parent] = key]
        /\ pc' = "rebalance"
        /\ node' = key
        /\ UNCHANGED <<key, parent, walk>>

\* Parent, grandparent, the side of the parent, and the uncle of node.
P == tree.parent[node]
G == tree.parent[P]
S == IF P = tree.child["left"][G] THEN "left" ELSE "right"
U == tree.child[Other(S)][G]

Rebalancing == pc = "rebalance" /\ IsRed(tree, P)

Recolor == /\ Rebalancing /\ IsRed(tree, U)
           /\ tree' = [tree EXCEPT !.color = [@ EXCEPT ![U] = Black, ![P] = Black, ![G] = Red]]
           /\ node' = G
           /\ UNCHANGED <<nodes, pc, key, parent, walk>>

\* A node on the inner side is first rotated outwards; then the grandparent.
Rotations(inner, t) ==
  LET p == IF inner THEN node ELSE P
      n == IF inner THEN P ELSE node
  IN /\ \E u \in {[t EXCEPT !.color = [@ EXCEPT ![p] = Black, ![G] = Red]]} :
          tree' = Rotate(u, G, Other(S))
     /\ node' = n

RotateUp == /\ Rebalancing /\ ~IsRed(tree, U)
            /\ IF tree.child[Other(S)][P] = node
                 THEN Rotations(TRUE, Rotate(tree, P, S))
                 ELSE Rotations(FALSE, tree)
            /\ UNCHANGED <<nodes, pc, key, parent, walk>>

Rebalanced == /\ pc = "rebalance" /\ ~IsRed(tree, P)
              /\ tree' = [tree EXCEPT !.color[tree.root] = Black]
              /\ Return
              /\ UNCHANGED <<nodes, walk>>

---------------------------------------------------------------------------
(* rb_erase of the node that was found, and the user frees it.             *)

\* free(n): what is in the memory of n does not matter any more.
Freed(t, n) == [t EXCEPT !.parent[n] = Null, !.color[n] = Black,
                         !.child = [s \in Sides |-> [@[s] EXCEPT ![n] = Null]]]

\* The rest of rb_erase: rebalance at (child, par) if a black node left.
Erased(t, n, color, child, par) ==
  /\ tree' = Freed(t, n)
  /\ nodes' = nodes \ {n}
  /\ IF color = Black
       THEN pc' = "erase" /\ node' = child /\ parent' = par /\ UNCHANGED key
       ELSE Return
  /\ UNCHANGED walk

Erasable == pc = "lookup" /\ node = key

\* At most one child, which takes the place of the node.
EraseOuter ==
  LET l == tree.child["left"][node]
      child == IF l = Null THEN tree.child["right"][node] ELSE l
      par   == tree.parent[node]
  IN /\ Erasable
     /\ \E s \in Sides : tree.child[s][node] = Null
     /\ Erased(Replace(SetParent(tree, child, par), par, node, child),
               node, tree.color[node], child, par)

\* Faulty: the successor is the one that goes.
EraseInnerSuccessor ==
  LET m     == Extreme(tree, tree.child["right"][node], "left")
      child == tree.child["right"][m]
      par   == tree.parent[m]
  IN /\ Erasable
     /\ \A s \in Sides : tree.child[s][node] # Null
     /\ Erased(Replace(SetParent(tree, child, par), par, m, child),
               m, tree.color[m], child, par)

\* Two children: the successor m is cut out and put in the place of node.
EraseInner ==
  LET m     == Extreme(tree, tree.child["right"][node], "left")
      child == tree.child["right"][m]
      par   == tree.parent[m]
      cut   == Replace(SetParent(tree, child, par), par, m, child)
      moved == [cut EXCEPT !.parent[m] = cut.parent[node],
                           !.color[m]  = cut.color[node],
                           !.child = [s \in Sides |-> [@[s] EXCEPT ![m] = cut.child[s][node]]]]
      in    == Replace(moved, moved.parent[node], node, m)
  IN /\ Erasable
     /\ \A s \in Sides : tree.child[s][node] # Null
     /\ Erased(SetParent(SetParent(in, in.child["left"][node], m), in.child["right"][node], m),
               node, tree.color[m], child, IF par = node THEN m ELSE par)

---------------------------------------------------------------------------
(* rb_erase_rebalance: the paths through node have one black node less.    *)

Erasing == pc = "erase" /\ ~IsRed(tree, node) /\ node # tree.root

\* The side of node, and the tree after a red sibling has been rotated up.
ES == IF tree.child["left"][parent] = node THEN "left" ELSE "right"
Lifted ==
  LET o == tree.child[Other(ES)][parent] IN
  IF IsRed(tree, o)
    THEN Rotate([tree EXCEPT !.color = [@ EXCEPT ![o] = Black, ![parent] = Red]], parent, ES)
    ELSE tree

Sibling(t) == t.child[Other(ES)][parent]
Near(t) == t.child[ES][Sibling(t)]
Far(t)  == t.child[Other(ES)][Sibling(t)]

\* Faulty: the sibling keeps its colour.
EraseUpKeepsColor ==
  /\ Erasing
  /\ \E t \in {Lifted} :
       /\ ~IsRed(t, Near(t)) /\ ~IsRed(t, Far(t))
       /\ tree' = t
       /\ node' = parent /\ parent' = t.parent[parent]
  /\ UNCHANGED <<nodes, pc, key, walk>>

\* No red nephew: the sibling turns red, and the parent's paths are short.
EraseUp ==
  /\ Erasing
  /\ \E t \in {Lifted} :
       /\ ~IsRed(t, Near(t)) /\ ~IsRed(t, Far(t))
       /\ tree' = [t EXCEPT !.color[Sibling(t)] = Red]
       /\ node' = parent /\ parent' = t.parent[parent]
  /\ UNCHANGED <<nodes, pc, key, walk>>

\* The red nephew is the near one: it takes the place of the sibling.
Outwards(t) == IF IsRed(t, Far(t)) THEN t
               ELSE Rotate(SetColor(SetColor(t, Near(t), Black), Sibling(t), Red),
                           Sibling(t), Other(ES))

\* The far nephew turns black, the sibling takes the parent's colour.
Recolored(t) == SetColor([t EXCEPT !.color = [@ EXCEPT ![Sibling(t)] = t.color[parent],
                                                       ![parent] = Black]],
                         Far(t), Black)

\* A red nephew, the near one rotated to the far side first: done.
EraseRotate ==
  /\ Erasing
  /\ \E t \in {Lifted} :
       /\ IsRed(t, Near(t)) \/ IsRed(t, Far(t))
       /\ \E u \in {Outwards(t)} : \E v \in {Recolored(u)} : \E w \in {Rotate(v, parent, ES)} :
            tree' = SetColor(w, w.root, Black)
  /\ Return
  /\ UNCHANGED <<nodes, walk>>

EraseDone == /\ pc = "erase" /\ (IsRed(tree, node) \/ node = tree.root)
             /\ tree' = SetColor(tree, node, Black)
             /\ Return
             /\ UNCHANGED <<nodes, walk>>

---------------------------------------------------------------------------
(* Traversal and rb_destroy                                                *)

WalkFirst == /\ pc = "idle" /\ tree.root # Null
             /\ walk' = First(tree)
             /\ UNCHANGED <<tree, nodes, pc, key, node, parent>>

WalkNext == /\ pc = "idle" /\ walk # Null
            /\ walk' = NextNode(tree, walk)
            /\ UNCHANGED <<tree, nodes, pc, key, node, parent>>

\* The nodes below n, n included, in a tree without cycles.
Below(t, n) ==
  LET below[m \in Nodes \cup {Null}] ==
        IF m = Null THEN {} ELSE {m} \cup UNION {below[t.child[s][m]] : s \in Sides}
  IN below[n]

\* rb_destroy frees every node below *root; the user forgets the root.
Destroy == /\ pc = "idle" /\ tree.root # Null
           /\ nodes' = nodes \ Below(tree, tree.root)
           /\ tree' = [root   |-> Null,
                       parent |-> [n \in Nodes |-> Null],
                       child  |-> [s \in Sides |-> [n \in Nodes |-> Null]],
                       color  |-> [n \in Nodes |-> Black]]
           /\ walk' = Null
           /\ UNCHANGED <<pc, key, node, parent>>

---------------------------------------------------------------------------
Call == \/ \E k \in Nodes : Insert(k) \/ Erase(k)
        \/ WalkFirst \/ WalkNext \/ Destroy

Loop == \/ Descend \/ Found \/ Link
        \/ Recolor \/ RotateUp \/ Rebalanced
        \/ EraseOuter \/ EraseInner \/ EraseUp \/ EraseRotate \/ EraseDone

Next == Call \/ Loop
Spec == Init /\ [][Next]_vars

\* A call that has been made keeps running.
FairSpec == Spec /\ WF_vars(Loop)
---------------------------------------------------------------------------
(* Properties                                                              *)

(***************************************************************************)
(* Types; a loop that runs is at a node of the tree, a call that is over   *)
(* has no locals, and a traversal is at no node that was freed.            *)
(***************************************************************************)
TypeOK == /\ tree \in [root   : Nodes \cup {Null},
                       parent : [Nodes -> Nodes \cup {Null}],
                       child  : [Sides -> [Nodes -> Nodes \cup {Null}]],
                       color  : [Nodes -> {Red, Black}]]
          /\ nodes \subseteq Nodes
          /\ pc \in {"idle", "search", "lookup", "rebalance", "erase"}
          /\ key \in Nodes \cup {Null}
          /\ {node, parent, walk} \subseteq nodes \cup {Null}
          /\ pc = "idle" => {key, node, parent} = {Null}
          /\ pc = "rebalance" => {key, node} \subseteq nodes
          /\ pc = "erase" => key \notin nodes /\ (parent # Null \/ node = tree.root)

\* The keys a search finds (include/co_rbtree.h:32-50).
Finds(k) ==
  LET found[m \in Nodes \cup {Null}] ==
        m # Null /\ (m = k \/ found[tree.child[Side(k, m)][m]])
  IN found[tree.root]

(***************************************************************************)
(* No rotation and no splice loses a node, makes one unreachable, puts one *)
(* on the wrong side of another, or leaves a parent pointer behind: the    *)
(* nodes the user owns are the nodes below the root, each found by its     *)
(* key, and parent and child pointers agree - between any two iterations   *)
(* of the loops (co_rbtree.c:32-72, 239-306).                              *)
(***************************************************************************)
NothingLost == /\ Below(tree, tree.root) = nodes
               /\ \A n \in nodes : Finds(n)

LinksAgree == /\ tree.root # Null => tree.parent[tree.root] = Null
              /\ \A n \in nodes, s \in Sides :
                   LET c == tree.child[s][n] IN c # Null => tree.parent[c] = n

(***************************************************************************)
(* The numbers of black nodes on the ways down from *root.  While an erase *)
(* is rebalancing, node (NULL too) stands for one black node more.         *)
(***************************************************************************)
BlackCounts ==
  LET missing(n, p, s) == IF pc = "erase" /\ node = n /\ parent = p
                             /\ (p # Null => s = ES) THEN 1 ELSE 0
      own(n) == IF tree.color[n] = Black THEN 1 ELSE 0
      counts[n \in Nodes] ==
        UNION {LET c == tree.child[s][n] IN
               {own(n) + missing(c, n, s) + b : b \in IF c = Null THEN {0} ELSE counts[c]}
                 : s \in Sides}
  IN IF tree.root = Null THEN {0} ELSE counts[tree.root]

(***************************************************************************)
(* Every way down has the same number of black nodes, and a red node has   *)
(* no red parent and is not the root, with one exception at a time: the    *)
(* node a rebalancing loop is at.  When the call returns there is none     *)
(* (co_rbtree.c:80-140, 149-229).                                          *)
(***************************************************************************)
BlackBalanced == Cardinality(BlackCounts) = 1
RedApart == \A n \in nodes :
              IsRed(tree, n) /\ (n = tree.root \/ IsRed(tree, tree.parent[n]))
                => \/ pc = "rebalance" /\ n = node
                   \/ pc = "erase" /\ node \in {n, tree.parent[n]}

(***************************************************************************)
(* What the balance is for: no search takes more than twice the logarithm  *)
(* of the number of nodes (include/co_rbtree.h:28-29).                     *)
(***************************************************************************)
Height ==
  LET height[n \in Nodes \cup {Null}] ==
        IF n = Null THEN 0
        ELSE LET l == height[tree.child["left"][n]]
                 r == height[tree.child["right"][n]]
             IN 1 + IF l > r THEN l ELSE r
  IN height[tree.root]
HeightBound == pc = "idle" => 2 ^ Height <= (Cardinality(nodes) + 1) ^ 2

(***************************************************************************)
(* A red-black tree between any two calls, and but for the node it is at   *)
(* between any two iterations of a rebalancing loop.                       *)
(***************************************************************************)
RedBlack == TypeOK /\ NothingLost /\ LinksAgree /\ BlackBalanced /\ RedApart /\ HeightBound

(***************************************************************************)
(* A traversal meets the keys in ascending order and skips none, even when *)
(* the tree is changed between two calls (co_rbtree.c:324-357).            *)
(***************************************************************************)
IsNext(m, n) == IF n = Null THEN \A k \in nodes : k <= m
                ELSE n \in nodes /\ n > m /\ \A k \in nodes : k <= m \/ k >= n
InOrder == [][/\ WalkFirst => IsNext(Null, walk')
              /\ WalkNext => IsNext(walk, walk')]_vars

Set == INSTANCE RbSet WITH
         Keys <- Nodes, None <- Null,
         keys <- {k \in Nodes : Finds(k)},
         op   <- CASE pc \in {"search", "rebalance"} -> "insert"
                   [] pc \in {"lookup", "erase"}     -> "erase"
                   [] OTHER                          -> "none",
         arg  <- key,
         done <- pc \in {"rebalance", "erase"}

(***************************************************************************)
(* Seen through searches the tree is a set.  An insert adds the key it was *)
(* called with and an erase removes it, no other key ever comes or goes,   *)
(* and the rebalancing changes nothing.  Each call does so once, unless    *)
(* its own search ended at the key of an insert or without the key of an   *)
(* erase, and then the set indeed had it or lacked it (co_rbtree.c:233-310,*)
(* rbtree_test.c:21-46).                                                   *)
(***************************************************************************)
ImplementsSet == Set!SSpec

\* Every call returns: the loops climb (co_rbtree.c:93, 166) or descend.
CallsReturn == pc # "idle" ~> pc = "idle"
=============================================================================
