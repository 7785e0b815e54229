SPECIFICATION FairSpec
CONSTANTS
  Readers = {r1, r2}
  Writers = {w1}
  Byte = {0, 1}
  PIPESIZE = 2
  UintMod = 4
  MaxCount = 2
  MaxBytes = 4
  Killable = {r1}
INVARIANTS
  TypeOK
  OpenNotFreed
  NoLostWakeup
PROPERTIES
  Refinement
  EofOnlyWhenClosed
  CloseUnblocks
  EventuallyFreed
CHECK_DEADLOCK FALSE
