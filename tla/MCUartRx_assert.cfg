\* UART4: the callback is installed before its semaphore is initialised.
CONSTANTS
  Byte = {0, 1}
  NUL = 0
  BUFSZ = 2
  SIZE = 2
  SEM_MAX = 2
  HasReader = TRUE
SPECIFICATION Spec
INVARIANTS AssertHolds
\* rt_assert_handler() spins for ever.
CHECK_DEADLOCK FALSE
