\* All 256 requests; int is narrower than cds_size, as in the 64-bit build.
CONSTANTS
  MAX_POW2 = 8
  INT_BITS = 6
SPECIFICATION Spec
INVARIANTS
  TypeOK
  CapacityLeast
  Agrees
PROPERTY Answered
