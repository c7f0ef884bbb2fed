\* Lists of up to four nodes; the length wraps at 4.
CONSTANTS
  MAX_POW2 = 2
  INT_BITS = 2
  Datum = {d1, d2}
  Node = {n1, n2, n3, n4}
  NULL = NULL
  Undefined = Undefined
SPECIFICATION Spec
INVARIANTS
  TypeOK
  ChainExact
  TailIsLast
PROPERTY ImplementsAppendList
