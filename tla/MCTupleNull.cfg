\* Sizes that are all safe: no shift is undefined and no product wraps.
CONSTANTS
  MAX_POW2 = 4
  INT_BITS = 4
  d1 = d1
  d2 = d2
  Datum = {d1, d2}
  Handle = {v}
  Buffer = {b1, b2, b3}
  NULL = NULL
  Garbage = Garbage
  Undefined = Undefined
  DATA_SIZE = 1
  MinCapacity = {1}
  Arrays <- ShortArrays
  Index = {0, 1, 2}
SPECIFICATION TupleSpec
SYMMETRY Symmetry
INVARIANT ConversionsDefined
