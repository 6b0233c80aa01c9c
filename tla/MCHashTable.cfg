\* Two or more buckets from the first element on, unless memory is refused;
\* with five elements in two buckets the table grows again.
CONSTANTS
  Elems = {e1, e2, e3, e4, e5}
  Null = Null  NoData = NoData  d1 = d1  d2 = d2
  Keys <- MCKeys  NameOf <- MCNameOf  HashOf <- MCHashOf
  Data = {d1, d2}
  RehashAt = 1  Slack = 1  MaxBuckets = 3
SPECIFICATION Spec
SYMMETRY Addresses
CONSTRAINT OneVaries
INVARIANT Inv
PROPERTY ImplementsMap
