\* Containers of up to three or four elements.
CONSTANTS
  MAX_POW2 = 4
  INT_BITS = 4
  NULL = NULL
  Garbage = Garbage
  Undefined = Undefined
  Unfinished = Unfinished
  d1 = d1
  d2 = d2
  Datum = {d1, d2}
  Handle = {v}
  Buffer = {b1, b2, b3}
  DATA_SIZE = 1
  Arrays <- ShortArrays
  Index = {0, 1}
  Node = {n1, n2, n3}
  k1 = k1
  k2 = k2
  Key = {k1, k2}
  HashFun <- Hashes
  ENTRY_WORDS = 3
  MinCapacity = {1, 2}
  MaxLength = 3
  Types = {"VECTOR", "TUPLE", "SLLIST", "HASH_TABLE", "SET"}
SPECIFICATION LoopSpec
INVARIANTS
  LoopTypeOK
  SafeLoop
PROPERTIES
  Complete
  LoopEnds
