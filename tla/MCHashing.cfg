\* Words of two bytes; tuples of up to two elements of one to three bytes.
CONSTANTS
  Byte = {0, 1}
  WORD = 2
  Memory <- Bytes
  Length = {0, 1, 2}
  DataSize = {1, 2, 3}
SPECIFICATION Spec
CHECK_DEADLOCK FALSE
INVARIANTS
  TypeOK
  EqualKeysHashEqual
  ReadsOwnBytes
  NoIdleCollision
