\* Sets of 1, 2 and 4 slots and three keys, so that a set can fill up; int is
\* narrower than cds_size, as in the 64-bit build.
CONSTANTS
  MAX_POW2 = 5
  INT_BITS = 4
  k1 = k1
  k2 = k2
  k3 = k3
  Key = {k1, k2, k3}
  NULL = NULL
  Unfinished = Unfinished
  Undefined = Undefined
  ENTRY_WORDS = 3
  HashFun <- CollidingHashes
  MinCapacity <- Requests
SPECIFICATION Spec
INVARIANTS
  TypeOK
  ProbeChain
  LookupExact
PROPERTY ImplementsCountedSet
