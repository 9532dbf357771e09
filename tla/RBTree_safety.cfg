SPECIFICATION TreeSpec
CONSTANTS
  Size = 8
  Node <- Threads
  Nil = 0
  key <- Pairs
INVARIANT RedBlack
INVARIANT LookupsExact
PROPERTY ImplementsOrder
