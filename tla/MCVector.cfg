\* Two vectors of 2 and 4 elements of 3 bytes: 8 elements are more than half
\* of the address space.  A request of 4 makes 1 << pow negative and the
\* product wrap (a capacity of 24 with room for 2), one of 8 is an undefined
\* shift.
CONSTANTS
  MAX_POW2 = 5
  INT_BITS = 4
  d1 = d1
  d2 = d2
  Datum = {d1, d2}
  Handle = {v, w}
  Buffer = {b1, b2, b3}
  NULL = NULL
  Garbage = Garbage
  Undefined = Undefined
  DATA_SIZE = 3
  MinCapacity <- Requests
  Arrays <- ShortArrays
  Index = {0, 3}
SPECIFICATION Spec
SYMMETRY Symmetry
INVARIANTS
  TypeOK
  OwnBuffers
PROPERTIES
  CapacityBacked
  PointerStable
  ElementKept
  ImplementsLists
