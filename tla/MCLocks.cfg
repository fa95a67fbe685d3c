SPECIFICATION Spec
CONSTANTS
  Threads = {t1, t2}
  NumUsers = 2
  NumChats = 1
  Handlers <- AllHandlers
  Idle = idle
  Free = free
INVARIANTS LockOrder DeadlockNeedsDisorder NothingLeftLocked
PROPERTY RequestsInOrder
SYMMETRY Symmetry
CHECK_DEADLOCK FALSE
