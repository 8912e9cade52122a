\* The process may run out of descriptors or of entries: then nothing more
\* can be accepted or deleted.
CHECK_DEADLOCK FALSE
CONSTANTS
  Fd = {1, 2, 3, 4}
  INITIAL_SIZE = 3
  REALLOC_DELTA = 2
  MaxSize = 5
SPECIFICATION Spec
INVARIANTS TypeOK LiveStored NoUnusedInWindow
