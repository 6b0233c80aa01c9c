\* Eight keys: trees of height 5, every case of both rebalancing loops.
CONSTANT N = 8
SPECIFICATION FairSpec
INVARIANT RedBlack
PROPERTIES CallsReturn InOrder ImplementsSet
CHECK_DEADLOCK TRUE
