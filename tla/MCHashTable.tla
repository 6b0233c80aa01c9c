---------------------------- MODULE MCHashTable ----------------------------
(* An instance of HashTable for TLC: with five elements a table of two     *)
(* buckets is taken apart and grows again.                                 *)
EXTENDS HashTable, TLC

CONSTANTS d1, d2

\* Two spellings of one name; five names over two, three and four buckets.
MCKeys   == {"a", "A", "b", "c", "d", "e"}
MCNameOf == [k \in MCKeys |-> IF k = "A" THEN "a" ELSE k]
MCHashOf == [k \in MCKeys |-> CASE k \in {"a", "A"} -> 0 [] k = "b" -> 1
                                 [] k = "c" -> 2 [] k = "d" -> 3 [] k = "e" -> 4]

\* Bound: one entry alone goes on to have other data, and then in its other
\* spelling. The steps that leave the bound are still checked.
OneVaries == \A e \in used : data[e] = d2 <=> pKey[e] = "A"

\* No element is distinguished from the others.
Addresses == Permutations(Elems)
=============================================================================
