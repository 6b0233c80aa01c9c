----------------------------- MODULE HashTable -----------------------------
(***************************************************************************)
(* The hash table of cocool/co_hash.c.  All elements are on one doubly     *)
(* linked list; a bucket is a count and a pointer to the first of count    *)
(* consecutive elements of that list.  There are no buckets (htsize = 0)   *)
(* while the table is small or when the memory for them was refused.       *)
(*                                                                         *)
(* sqlite3HashInsert is one action up to the call of rehash, one per       *)
(* element moved by rehash, and one for the final insertElement.           *)
(***************************************************************************)
EXTENDS Integers, FiniteSets

CONSTANTS Keys,      \* the key strings of the callers
          NameOf,    \* [Keys -> names]: the key without regard to case
          HashOf,    \* [Keys -> Nat]: strHash
          Data,      \* the data pointers other than NULL
          NoData,    \* NULL as data
          Elems,     \* bound: the addresses of elements
          Null,      \* the NULL pointer
          RehashAt,  \* 10 in the code: no buckets below this count
          Slack,     \* how many buckets more than asked for malloc may give
          MaxBuckets \* SQLITE_MALLOC_SOFT_LIMIT in buckets; 0: no limit

ASSUME HashTableAssumption ==
  /\ IsFiniteSet(Elems) /\ Null \notin Elems
  /\ Slack \in Nat /\ MaxBuckets \in Nat
  /\ RehashAt \in Nat \ {0}
  /\ NoData \notin Data \cup [key : Keys, data : Data]
  /\ HashOf \in [Keys -> Nat]
  /\ \A k, l \in Keys : NameOf[k] = NameOf[l] => HashOf[k] = HashOf[l]

VARIABLES
  first, count, htsize,   \* of the Hash
  ht,                     \* [0 .. htsize-1 -> [count, chain]], its buckets
  next, prev, data, pKey, \* [Elems -> ...], the fields of the elements
  used,                   \* the elements that are allocated
  pc,                     \* "idle", or where sqlite3HashInsert is
  new_elem, h, elem,      \* its locals: new element, bucket, rehash loop
  asked, ret              \* key and result of the last insert

list == <<first, ht, next, prev>>
vars == <<list, count, htsize, data, pKey, used, pc, new_elem, h, elem, asked, ret>>

\* sqlite3HashInit
Init == /\ first = Null /\ count = 0 /\ htsize = 0 /\ ht = << >>
        /\ next = [e \in Elems |-> Null] /\ prev = [e \in Elems |-> Null]
        /\ data = [e \in Elems |-> NoData]
        /\ pKey = [e \in Elems |-> Null]
        /\ used = {}
        /\ pc = "idle" /\ new_elem = Null /\ h = 0 /\ elem = Null
        /\ asked = NoData /\ ret = NoData

---------------------------------------------------------------------------
\* strHash(pKey) % htsize
Bucket(k) == IF htsize = 0 THEN 0 ELSE HashOf[k] % htsize

\* The places of a list that begins with e: NULL behind its end.
Size      == Cardinality(Elems)
Follow(x) == IF x = Null THEN Null ELSE next[x]
From(e)   == LET at[i \in 0 .. Size] == IF i = 0 THEN e ELSE Follow(at[i - 1]) IN at

\* The first n elements from e on.
Run(e, n) == LET at == From(e) IN {at[i] : i \in 0 .. n - 1}

\* findElementWithHash: the first match among n elements from e on.  That
\* there are n (the assertion of line 170) is BucketRuns, below.
Search(k, e, n) ==
  LET at == From(e)
      M  == {i \in 0 .. n - 1 : at[i] # Null /\ NameOf[pKey[at[i]]] = NameOf[k]}
  IN IF M = {} THEN Null ELSE at[CHOOSE i \in M : \A j \in M : i <= j]

Find(k) == IF htsize = 0 THEN Search(k, first, count)
           ELSE Search(k, ht[Bucket(k)].chain, ht[Bucket(k)].count)

\* Faulty: the chain of an empty bucket is used as if it were never stale.
InsertAtStale(e, b) ==
  LET head == IF htsize > 0 THEN ht[b].chain ELSE Null
      succ == IF head # Null THEN head ELSE first
      pred == IF head # Null THEN prev[head] ELSE Null
  IN /\ ht' = IF htsize = 0 THEN ht
              ELSE [ht EXCEPT ![b] = [count |-> @.count + 1, chain |-> e]]
     /\ next' = [x \in Elems |-> IF x = e THEN succ ELSE IF x = pred THEN e ELSE next[x]]
     /\ prev' = [x \in Elems |-> IF x = e THEN pred ELSE IF x = succ THEN e ELSE prev[x]]
     /\ first' = IF pred = Null THEN e ELSE first

(***************************************************************************)
(* insertElement of e into bucket b: in front of the bucket's run, or in   *)
(* front of the whole list when the bucket is empty or there is no table.  *)
(***************************************************************************)
insertElement(e, b) ==
  LET head == IF htsize > 0 /\ ht[b].count > 0 THEN ht[b].chain ELSE Null
      succ == IF head # Null THEN head ELSE first
      pred == IF head # Null THEN prev[head] ELSE Null
  IN /\ ht' = IF htsize = 0 THEN ht
              ELSE [ht EXCEPT ![b] = [count |-> @.count + 1, chain |-> e]]
     /\ next' = [x \in Elems |-> IF x = e THEN succ ELSE IF x = pred THEN e ELSE next[x]]
     /\ prev' = [x \in Elems |-> IF x = e THEN pred ELSE IF x = succ THEN e ELSE prev[x]]
     /\ first' = IF pred = Null THEN e ELSE first

---------------------------------------------------------------------------
(* sqlite3HashInsert of the key k; e is what it has found for k.           *)

\* Faulty: the key that was inserted first stays.
ReplaceKeepsKey(k, e, d) == /\ pc = "idle" /\ e # Null
                            /\ data' = [data EXCEPT ![e] = d]
                            /\ asked' = k /\ ret' = data[e]
                            /\ UNCHANGED <<list, count, htsize, pKey, used, pc, new_elem, h, elem>>

\* The key is there: new data, and the new spelling of the key.
Replace(k, e, d) == /\ pc = "idle" /\ e # Null
                    /\ data' = [data EXCEPT ![e] = d]
                    /\ pKey' = [pKey EXCEPT ![e] = k]
                    /\ asked' = k /\ ret' = data[e]
                    /\ UNCHANGED <<list, count, htsize, used, pc, new_elem, h, elem>>

\* The elements linked from e on.
Behind(e) == Run(e, Size) \ {Null}

\* free: what is in the memory of an element is lost with it.
Freed(E) == [e \in Elems |-> IF e \in E THEN NoData ELSE data[e]]
FreedKeys(E) == [e \in Elems |-> IF e \in E THEN Null ELSE pKey[e]]

\* removeElementGivenHash unlinks the element; the last one takes the
\* buckets along (sqlite3HashClear).
Delete(k, e) ==
  LET b == Bucket(k)
      chain == IF ht[b].chain = e THEN next[e] ELSE ht[b].chain
  IN
  /\ pc = "idle" /\ e # Null
  /\ next' = [x \in Elems |-> CASE x = e -> Null [] x = prev[e] -> next[e] [] OTHER -> next[x]]
  /\ prev' = [x \in Elems |-> CASE x = e -> Null [] x = next[e] -> prev[e] [] OTHER -> prev[x]]
  /\ used' = used \ {e} /\ data' = Freed({e}) /\ pKey' = FreedKeys({e})
  /\ count' = count - 1
  /\ first' = IF prev[e] = Null THEN next[e] ELSE first
  /\ IF count = 1
       THEN htsize' = 0 /\ ht' = << >>
       ELSE /\ UNCHANGED htsize
            /\ ht' = IF htsize = 0 THEN ht
                     ELSE [ht EXCEPT ![b] = [count |-> @.count - 1, chain |-> chain]]
  /\ asked' = k /\ ret' = data[e]
  /\ UNCHANGED <<pc, new_elem, h, elem>>

\* Nothing to delete.
DeleteNothing(k, e) == /\ pc = "idle" /\ e = Null
                       /\ asked' = k /\ ret' = NoData
                       /\ UNCHANGED <<list, count, htsize, data, pKey, used, pc,
                                      new_elem, h, elem>>

\* No memory for a new element.
InsertFails(k, e, d) == /\ pc = "idle" /\ e = Null
                        /\ asked' = k /\ ret' = d
                        /\ UNCHANGED <<list, count, htsize, data, pKey, used, pc,
                                       new_elem, h, elem>>

\* A new element, counted before it is linked.
InsertNew(k, e, d) == /\ pc = "idle" /\ e = Null
                      /\ \E new \in Elems \ used :
                           /\ new_elem' = new
                           /\ used' = used \cup {new}
                           /\ data' = [data EXCEPT ![new] = d]
                           /\ pKey' = [pKey EXCEPT ![new] = k]
                      /\ h' = Bucket(k)
                      /\ count' = count + 1
                      /\ pc' = "resize"
                      /\ asked' = NoData /\ ret' = NoData
                      /\ UNCHANGED <<list, htsize, elem>>

Crowded == count >= RehashAt /\ count > 2 * htsize
NewSize == IF MaxBuckets > 0 /\ 2 * count > MaxBuckets THEN MaxBuckets ELSE 2 * count

\* No resize: not needed, refused, or the limit is reached already.
Stay == /\ pc = "resize"
        /\ pc' = "insert"
        /\ UNCHANGED <<list, count, htsize, data, pKey, used, new_elem, h, elem, asked, ret>>

\* rehash: empty buckets, and an empty list to which the elements move.
Rehash == /\ pc = "resize" /\ Crowded
          /\ MaxBuckets = 0 \/ NewSize # htsize
          /\ \E extra \in 0 .. Slack : htsize' = NewSize + extra
          /\ ht' = [b \in 0 .. htsize' - 1 |-> [count |-> 0, chain |-> Null]]
          /\ elem' = first
          /\ first' = Null
          /\ pc' = "rehash"
          /\ UNCHANGED <<next, prev, count, data, pKey, used, new_elem, h, asked, ret>>

Move == /\ pc = "rehash" /\ elem # Null
        /\ elem' = next[elem]
        /\ insertElement(elem, Bucket(pKey[elem]))
        /\ UNCHANGED <<count, htsize, data, pKey, used, pc, new_elem, h, asked, ret>>

Moved == /\ pc = "rehash" /\ elem = Null
         /\ h' = Bucket(pKey[new_elem])
         /\ pc' = "insert"
         /\ UNCHANGED <<list, count, htsize, data, pKey, used, new_elem, elem, asked, ret>>

Finish == /\ pc = "insert"
          /\ insertElement(new_elem, h)
          /\ pc' = "idle" /\ new_elem' = Null /\ h' = 0
          /\ asked' = pKey[new_elem] /\ ret' = NoData
          /\ UNCHANGED <<count, htsize, data, pKey, used, elem>>

---------------------------------------------------------------------------
\* sqlite3HashClear frees the elements it finds on the list.
Clear == LET E == Behind(first) IN
         /\ pc = "idle"
         /\ used' = used \ E /\ data' = Freed(E) /\ pKey' = FreedKeys(E)
         /\ next' = [e \in Elems |-> IF e \in E THEN Null ELSE next[e]]
         /\ prev' = [e \in Elems |-> IF e \in E THEN Null ELSE prev[e]]
         /\ first' = Null /\ count' = 0 /\ htsize' = 0 /\ ht' = << >>
         /\ asked' = NoData /\ ret' = NoData
         /\ UNCHANGED <<pc, new_elem, h, elem>>

Loop == Stay \/ Rehash \/ Move \/ Moved \/ Finish

Insert(k, e) == \/ Delete(k, e) \/ DeleteNothing(k, e)
                \/ \E d \in Data : Replace(k, e, d) \/ InsertNew(k, e, d) \/ InsertFails(k, e, d)

Next == Loop \/ Clear \/ \E k \in Keys : Insert(k, Find(k))

Spec == Init /\ [][Next]_vars

---------------------------------------------------------------------------
(* Properties                                                              *)

Names == {NameOf[k] : k \in Keys}
Buckets == 0 .. htsize - 1
Live == used \ {new_elem}

\* Types of the state; the counts of the buckets are never negative (the
\* assertion of line 202), and only the chain of an empty bucket may point to
\* an element that was freed.
TypeOK ==
  /\ used \subseteq Elems /\ first \in used \cup {Null}
  /\ new_elem \in used \cup {Null} /\ elem \in used \cup {Null}
  /\ next \in [Elems -> used \cup {Null}] /\ prev \in [Elems -> used \cup {Null}]
  /\ pc \in {"idle", "resize", "rehash", "insert"}
  /\ count \in Nat /\ htsize \in Nat /\ h \in Nat /\ ret \in Data \cup {NoData}
  /\ asked \in Keys \cup {NoData}
  /\ DOMAIN ht = IF htsize = 0 THEN {} ELSE Buckets
  /\ \A b \in DOMAIN ht : /\ ht[b].count \in Nat
                          /\ ht[b].chain \in IF ht[b].count = 0 THEN Elems \cup {Null} ELSE used
  /\ \A e \in Elems : IF e \in used THEN pKey[e] \in Keys /\ data[e] \in Data
                      ELSE pKey[e] = Null /\ data[e] = NoData

\* Every element that was allocated is on the list, still to be moved by
\* rehash, or the one that is being inserted, and counted; so the table frees
\* all of them and an empty table is an empty list (the assertion of line 207).
NothingLost ==
  LET there == Behind(first)
      left  == Behind(elem)
  IN /\ count = Cardinality(used)
     /\ used = there \cup left \cup ({new_elem} \ {Null})
     /\ there \cap left = {}
     /\ new_elem \notin there \cup left

\* prev goes back over every next of the list (co_hash.h:29-30), which
\* removeElementGivenHash needs; also halfway through rehash, where the list
\* grows among elements that still have their old links.
DoublyLinked ==
  /\ first # Null => prev[first] = Null
  /\ \A e \in Behind(first) : /\ next[e] # Null => prev[next[e]] = e
                              /\ prev[e] # Null => next[prev[e]] = e

\* "The contents of the bucket are the element pointed to plus the next
\* _ht.count-1 elements in the list" (co_hash.h:32-34): these are exactly the
\* elements of the list whose keys hash to the bucket, so the assertion of
\* line 170 never fails.
BucketRuns ==
  LET there == Behind(first) IN
  \A b \in DOMAIN ht :
    LET E == {e \in there : Bucket(pKey[e]) = b}
    IN ht[b].count = Cardinality(E) /\ Run(ht[b].chain, ht[b].count) = E

\* Between two calls sqlite3HashFind finds the only element with the name it
\* looks for, whichever spelling was inserted last, and no element otherwise.
Findable ==
  pc = "idle" =>
    \A k \in Keys : LET E == {e \in used : NameOf[pKey[e]] = NameOf[k]}
                        f == Find(k)
                    IN E = IF f = Null THEN {} ELSE {f}

\* List, buckets and count of the table between any two steps of a rehash, and
\* what the table finds between two calls.
Inv == TypeOK /\ NothingLost /\ DoublyLinked /\ BucketRuns /\ Findable

\* The table is the map of co_hash.c:213-236: with or without buckets, and
\* through every rehash, a call changes the entry it names and returns what
\* was there before.
Map == INSTANCE HashMap WITH
  map <- [n \in Names |->
            IF \E e \in Live : NameOf[pKey[e]] = n
            THEN LET e == CHOOSE e \in Live : NameOf[pKey[e]] = n
                 IN [key |-> pKey[e], data |-> data[e]]
            ELSE NoData]
ImplementsMap == Map!MSpec

=============================================================================
