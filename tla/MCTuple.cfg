\* One vector of 2 or 4 elements, one tuple of up to 4, and a spare buffer.
CONSTANTS
  MAX_POW2 = 5
  INT_BITS = 4
  d1 = d1
  d2 = d2
  Datum = {d1, d2}
  Handle = {v}
  Buffer = {b1, b2, b3}
  NULL = NULL
  Garbage = Garbage
  Undefined = Undefined
  DATA_SIZE = 3
  MinCapacity = {1}
  Arrays <- ShortArrays
  Index = {0, 1, 2}
SPECIFICATION TupleSpec
SYMMETRY Symmetry
INVARIANTS
  TupleTypeOK
  OneOwner
PROPERTIES
  ImplementsFrozenLists
