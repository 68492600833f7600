\* UART4: the receive thread, the clear and the shell on one FIFO.
CONSTANTS
  Byte = {0, 1}
  NUL = 0
  BUFSZ = 3
  SIZE = 3
  SEM_MAX = 2
  HasReader = TRUE
SPECIFICATION Spec
INVARIANTS TypeOK NulTerminated NoLostWakeup FullIsFull
PROPERTIES QueueSpec BytesAreRead
\* rt_assert_handler() spins for ever.
CHECK_DEADLOCK FALSE
