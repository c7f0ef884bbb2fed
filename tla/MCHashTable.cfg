\* Tables of 1, 2, 4 and 8 slots; 16 are half of the address space.  int is
\* narrower than cds_size, as in the 64-bit build.
CONSTANTS
  MAX_POW2 = 5
  INT_BITS = 4
  k1 = k1
  k2 = k2
  k3 = k3
  Key = {k1, k2, k3}
  Datum = {d1, d2}
  NULL = NULL
  Unfinished = Unfinished
  Undefined = Undefined
  HashFun <- Hashes
  MinCapacity <- Requests
SPECIFICATION MCSpec
SYMMETRY DatumSymmetry
INVARIANTS
  TypeOK
  CapacityPowerOfTwo
  ProbeChain
  LookupExact
  LengthCountsKeys
  RoomToInsert
PROPERTY ImplementsPromise
