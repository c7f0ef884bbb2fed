CONSTANTS
  MAX_POW2 = 5
  INT_BITS = 4
  k1 = k1
  k2 = k2
  k3 = k3
  Key = {k1, k2}
  Datum = {d1, d2}
  NULL = NULL
  Unfinished = Unfinished
  Undefined = Undefined
  HashFun <- Hashes
  MinCapacity <- Requests
SPECIFICATION MCSpec
INVARIANT OneEntryPerKey
