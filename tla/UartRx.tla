------------------------------- MODULE UartRx -------------------------------
(***************************************************************************)
(* The receive path of UART4 and UART5: the serial driver's interrupt      *)
(* handler and software FIFO (serial.c), the counting semaphore it         *)
(* releases (ipc.c), the receive thread and its linear text buffer         *)
(* (uartApp.c), the two-part uart4_buffer_clear() of the cloud thread and  *)
(* the shell command test_esp8266, which reads the same device.            *)
(*                                                                         *)
(* Scheduling.  The interrupt handler preempts every thread.  Threads are  *)
(* strictly prioritised: the shell (20) runs before the receive thread     *)
(* (25), which runs before the cloud thread (26).  The cloud thread        *)
(* therefore takes a step only while the receive thread is blocked on its  *)
(* semaphore, and any byte that arrives lets the receive thread cut in     *)
(* between two steps of the clear.                                         *)
(***************************************************************************)
EXTENDS Naturals, Sequences

CONSTANTS
  Byte,      \* the values a received byte can have (a bounded sample)
  NUL,       \* the byte 0x00 that the buffers are filled with
  BUFSZ,     \* serial->config.bufsz, the size of the software FIFO
  SIZE,      \* UART4_RECIVED_DATA_SIZE, the size of the text buffer
  SEM_MAX,   \* RT_SEM_VALUE_MAX, where the semaphore's counter saturates
  HasReader  \* TRUE for UART4; nobody reads UART5 after uart5_init()

ASSUME ByteAssumption == NUL \in Byte
ASSUME SizeAssumption ==
  /\ BUFSZ \in Nat /\ BUFSZ >= 2
  /\ SIZE \in Nat /\ SIZE >= 2
  /\ SEM_MAX \in Nat /\ SEM_MAX >= 1
  /\ HasReader \in BOOLEAN

VARIABLES
  \* struct rt_serial_rx_fifo
  buffer, put_index, get_index, is_full,
  \* serial->parent.rx_indicate is set
  rx_indicate,
  \* uart4_sem: whether rt_sem_init has run, and its counter
  sem_init, sem_value,
  \* the interrupt handler: "idle", or "rx" between getc() and the callback
  isr,
  \* the receive thread's program counter and the byte it read last
  rx_pc, uart4_buffer,
  \* uart4_recived_data and uart4_recived_data_index
  data, index,
  \* the cloud thread's uart4_buffer_clear(): NotClearing, or the number of
  \* bytes memset has written so far
  clear_pos,
  \* test_esp8266 is inside rt_device_read()
  shell_reading,
  \* rt_assert_handler() is spinning
  halted

fifoVars == <<buffer, put_index, get_index, is_full>>
vars == <<fifoVars, rx_indicate, sem_init, sem_value, isr, rx_pc, uart4_buffer,
          data, index, clear_pos, shell_reading, halted>>

RxPcs == {"open", "set_rx_indicate", "sem_init", "read", "take", "blocked",
          "store", "no_reader"}
NotClearing == SIZE + 1

TypeOK ==
  /\ buffer \in [0 .. BUFSZ - 1 -> Byte]
  /\ put_index \in 0 .. BUFSZ - 1
  /\ get_index \in 0 .. BUFSZ - 1
  /\ is_full \in BOOLEAN
  /\ rx_indicate \in BOOLEAN
  /\ sem_init \in BOOLEAN
  /\ sem_value \in 0 .. SEM_MAX
  /\ isr \in {"idle", "rx"}
  /\ rx_pc \in RxPcs
  /\ uart4_buffer \in Byte
  /\ data \in [0 .. SIZE - 1 -> Byte]
  /\ index \in 0 .. SIZE
  /\ clear_pos \in 0 .. NotClearing
  /\ shell_reading \in BOOLEAN
  /\ halted \in BOOLEAN

Init ==
  /\ buffer = [i \in 0 .. BUFSZ - 1 |-> NUL]
  /\ put_index = 0
  /\ get_index = 0
  /\ is_full = FALSE
  /\ rx_indicate = FALSE
  /\ sem_init = FALSE
  /\ sem_value = 0
  /\ isr = "idle"
  /\ rx_pc = "open"
  /\ uart4_buffer = NUL
  /\ data = [i \in 0 .. SIZE - 1 |-> NUL]
  /\ index = 0
  /\ clear_pos = NotClearing
  /\ shell_reading = FALSE
  /\ halted = FALSE

-----------------------------------------------------------------------------
(* The software FIFO. *)

\* i += 1; if (i >= bufsz) i = 0;
IncNoWrap(i) == i + 1  \* mutant of Inc: the wrap-around is forgotten
Inc(i) == IF i + 1 >= BUFSZ THEN 0 ELSE i + 1

FifoEmpty == get_index = put_index /\ ~is_full

\* The number of unread bytes, as the interrupt handler computes it.
RxLength == IF put_index >= get_index THEN put_index - get_index
                                      ELSE BUFSZ - (get_index - put_index)

\* rx_fifo->buffer[put_index] = ch; a full FIFO loses its oldest byte.
FifoPut(ch) ==
  LET put == Inc(put_index)
      overrun == put = get_index
  IN /\ buffer' = [buffer EXCEPT ![put_index] = ch]
     /\ put_index' = put
     /\ get_index' = IF overrun THEN Inc(get_index) ELSE get_index
     /\ is_full' = (overrun \/ is_full)

\* mutant of FifoGet: is_full survives the read
FifoGetKeepsFull ==
  /\ ~FifoEmpty
  /\ get_index' = Inc(get_index)
  /\ UNCHANGED <<buffer, put_index, is_full>>

\* One turn of _serial_int_rx's loop that finds a byte.
FifoGet ==
  /\ ~FifoEmpty
  /\ get_index' = Inc(get_index)
  /\ is_full' = FALSE
  /\ UNCHANGED <<buffer, put_index>>

\* ch = rx_fifo->buffer[rx_fifo->get_index]
ByteAfterIncrement == buffer[Inc(get_index)]  \* mutant of NextByte
NextByte == buffer[get_index]

-----------------------------------------------------------------------------
(* The interrupt handler.  It runs once the device is open. *)

IsrGetc ==
  /\ ~halted
  /\ rx_pc # "open"
  /\ isr' = "rx"
  /\ \E ch \in Byte : FifoPut(ch)
  /\ UNCHANGED <<rx_indicate, sem_init, sem_value, rx_pc, uart4_buffer, data,
                 index, clear_pos, shell_reading, halted>>

\* mutant of SemRelease: a waiting thread is counted for, not woken
SemReleaseNeverWakes ==
  /\ sem_value' = IF sem_value < SEM_MAX THEN sem_value + 1 ELSE sem_value
  /\ UNCHANGED rx_pc

\* rt_sem_release: hand over to the waiting thread, or count, or saturate.
SemRelease ==
  \/ /\ rx_pc = "blocked"
     /\ rx_pc' = "read"
     /\ UNCHANGED sem_value
  \/ /\ rx_pc # "blocked"
     /\ sem_value' = IF sem_value < SEM_MAX THEN sem_value + 1 ELSE sem_value
     /\ UNCHANGED rx_pc

\* if (rx_length)
HasInputOnlyFirst == RxLength = 1  \* mutant of HasInput
HasInput == RxLength > 0

\* No more bytes in the receiver: call rx_indicate if there is anything to
\* read.  RT_ASSERT refuses a semaphore that has not been initialised.
IsrIndicate ==
  /\ ~halted
  /\ isr = "rx"
  /\ isr' = "idle"
  /\ \/ /\ ~rx_indicate \/ ~HasInput
        /\ UNCHANGED <<sem_value, rx_pc, halted>>
     \/ /\ rx_indicate /\ HasInput /\ sem_init
        /\ SemRelease
        /\ UNCHANGED halted
     \/ /\ rx_indicate /\ HasInput /\ ~sem_init
        /\ halted' = TRUE
        /\ UNCHANGED <<sem_value, rx_pc>>
  /\ UNCHANGED <<fifoVars, rx_indicate, sem_init, uart4_buffer, data, index,
                 clear_pos, shell_reading>>

-----------------------------------------------------------------------------
(* The receive thread, uart4_thread_entry. *)

ThreadsRun == ~halted /\ isr = "idle"
RxRuns == ThreadsRun /\ ~shell_reading

\* uart4_init: open the device, install the callback, initialise the
\* semaphore, in this order.
RxOpen ==
  /\ RxRuns /\ rx_pc = "open"
  /\ rx_pc' = "set_rx_indicate"
  /\ UNCHANGED <<fifoVars, rx_indicate, sem_init, sem_value, isr, uart4_buffer,
                 data, index, clear_pos, shell_reading, halted>>

RxSetIndicate ==
  /\ RxRuns /\ rx_pc = "set_rx_indicate"
  /\ rx_indicate' = TRUE
  /\ rx_pc' = "sem_init"
  /\ UNCHANGED <<fifoVars, sem_init, sem_value, isr, uart4_buffer, data, index,
                 clear_pos, shell_reading, halted>>

RxSemInit ==
  /\ RxRuns /\ rx_pc = "sem_init"
  /\ sem_init' = TRUE
  /\ sem_value' = 0
  /\ rx_pc' = IF HasReader THEN "read" ELSE "no_reader"
  /\ UNCHANGED <<fifoVars, rx_indicate, isr, uart4_buffer, data, index,
                 clear_pos, shell_reading, halted>>

\* while (rt_device_read(uart4_device, 0, &uart4_buffer, 1) != 1)
RxRead ==
  /\ RxRuns /\ rx_pc = "read"
  /\ \/ /\ FifoGet
        /\ uart4_buffer' = NextByte
        /\ rx_pc' = "store"
     \/ /\ FifoEmpty
        /\ rx_pc' = "take"
        /\ UNCHANGED <<fifoVars, uart4_buffer>>
  /\ UNCHANGED <<rx_indicate, sem_init, sem_value, isr, data, index, clear_pos,
                 shell_reading, halted>>

\* rt_sem_take(&uart4_sem, RT_WAITING_FOREVER)
RxTake ==
  /\ RxRuns /\ rx_pc = "take"
  /\ \/ /\ sem_value > 0
        /\ sem_value' = sem_value - 1
        /\ rx_pc' = "read"
     \/ /\ sem_value = 0
        /\ rx_pc' = "blocked"
        /\ UNCHANGED sem_value
  /\ UNCHANGED <<fifoVars, rx_indicate, sem_init, isr, uart4_buffer, data,
                 index, clear_pos, shell_reading, halted>>

\* if (uart4_recived_data_index < UART4_RECIVED_DATA_SIZE - 1)
HasRoomOffByOne == index < SIZE  \* mutant of HasRoom
HasRoom == index < SIZE - 1

\* Store the byte if there is room for it, otherwise drop it.
RxStore ==
  /\ RxRuns /\ rx_pc = "store"
  /\ \/ /\ HasRoom
        /\ data' = [data EXCEPT ![index] = uart4_buffer]
        /\ index' = index + 1
     \/ /\ ~HasRoom
        /\ UNCHANGED <<data, index>>
  /\ rx_pc' = "read"
  /\ UNCHANGED <<fifoVars, rx_indicate, sem_init, sem_value, isr, uart4_buffer,
                 clear_pos, shell_reading, halted>>

RxThread == RxOpen \/ RxSetIndicate \/ RxSemInit \/ RxRead \/ RxTake \/ RxStore

-----------------------------------------------------------------------------
(* uart4_buffer_clear, called by the cloud thread before each command. *)

CloudRuns == RxRuns /\ rx_pc = "blocked"

ClearBegin ==
  /\ CloudRuns /\ clear_pos = NotClearing
  /\ clear_pos' = 0
  /\ UNCHANGED <<fifoVars, rx_indicate, sem_init, sem_value, isr, rx_pc,
                 uart4_buffer, data, index, shell_reading, halted>>

\* memset, byte by byte
ClearByte ==
  /\ CloudRuns /\ clear_pos < SIZE
  /\ data' = [data EXCEPT ![clear_pos] = NUL]
  /\ clear_pos' = clear_pos + 1
  /\ UNCHANGED <<fifoVars, rx_indicate, sem_init, sem_value, isr, rx_pc,
                 uart4_buffer, index, shell_reading, halted>>

\* uart4_recived_data_index = 0
ClearIndex ==
  /\ CloudRuns /\ clear_pos = SIZE
  /\ index' = 0
  /\ clear_pos' = NotClearing
  /\ UNCHANGED <<fifoVars, rx_indicate, sem_init, sem_value, isr, rx_pc,
                 uart4_buffer, data, shell_reading, halted>>

Clear == ClearBegin \/ ClearByte \/ ClearIndex

-----------------------------------------------------------------------------
(* test_esp8266: the shell reads UART4 too, up to 127 bytes. *)

ShellBegin ==
  /\ ThreadsRun /\ ~shell_reading /\ HasReader /\ rx_pc # "open"
  /\ shell_reading' = TRUE
  /\ UNCHANGED <<fifoVars, rx_indicate, sem_init, sem_value, isr, rx_pc,
                 uart4_buffer, data, index, clear_pos, halted>>

ShellGet ==
  /\ ThreadsRun /\ shell_reading
  /\ FifoGet
  /\ UNCHANGED <<rx_indicate, sem_init, sem_value, isr, rx_pc, uart4_buffer,
                 data, index, clear_pos, shell_reading, halted>>

\* The FIFO is empty or the shell's 127 bytes are read.
ShellEnd ==
  /\ ThreadsRun /\ shell_reading
  /\ shell_reading' = FALSE
  /\ UNCHANGED <<fifoVars, rx_indicate, sem_init, sem_value, isr, rx_pc,
                 uart4_buffer, data, index, clear_pos, halted>>

Shell == ShellBegin \/ ShellGet \/ ShellEnd

-----------------------------------------------------------------------------
Next == IsrGetc \/ IsrIndicate \/ RxThread \/ Clear \/ Shell

\* The handler returns, the shell's read ends, and the receive thread, which
\* interrupts and the shell only delay (a byte takes 87 us at 115200 baud, far
\* longer than one pass of the thread), keeps getting the processor.
Fairness == WF_vars(IsrIndicate) /\ SF_vars(ShellEnd) /\ SF_vars(RxThread)

Spec == Init /\ [][Next]_vars /\ Fairness

-----------------------------------------------------------------------------
(* Properties. *)

\* strstr() on uart4_recived_data always finds a terminating NUL: the last
\* byte of the buffer is never written, whatever the receive thread and the
\* clear interleave to.
NulTerminated == data[SIZE - 1] = NUL

\* The receive thread never sleeps on its semaphore while a byte is waiting
\* in the FIFO and no interrupt is on its way to wake it.
NoLostWakeup == rx_pc = "blocked" /\ isr = "idle" /\ ~halted => FifoEmpty

\* A set is_full flag means what it says: the FIFO holds BUFSZ - 1 bytes, so
\* a reader that trusts the flag never reads a byte that is not there.
FullIsFull == is_full => RxLength = BUFSZ - 1

\* The inductive strengthening of the three invariants above: the write index
\* stays off the last byte, the handler is only pending with a byte in the FIFO,
\* the thread's loop runs with callback and semaphore in place, and a thread
\* about to sleep on a waiting byte has a release, counted or coming.
IndexInRange == index <= SIZE - 1
IsrHasInput == isr = "rx" => RxLength > 0
LoopReady ==
  /\ rx_pc \notin {"open", "set_rx_indicate"} => rx_indicate
  /\ rx_pc \notin {"open", "set_rx_indicate", "sem_init"} => sem_init
WakeupPending ==
  ~FifoEmpty => /\ rx_pc = "blocked" => isr = "rx"
                /\ rx_pc = "take" => isr = "rx" \/ sem_value > 0
UartInv ==
  /\ TypeOK
  /\ NulTerminated
  /\ FullIsFull
  /\ IndexInRange
  /\ IsrHasInput
  /\ LoopReady
  /\ WakeupPending

\* The FIFO, driven by the interrupt handler, the receive thread and the shell,
\* is a bounded queue that drops its oldest byte: bytes are read in the order
\* they arrived and only an overrun loses any.
Contents == [i \in 1 .. RxLength |-> buffer[(get_index + i - 1) % BUFSZ]]
Queue == INSTANCE ByteQueue WITH Cap <- BUFSZ - 1, queue <- Contents, out <- uart4_buffer
QueueSpec == Queue!Spec

\* A byte that waits in the FIFO of a running UART4 wakes the receive thread,
\* which then reads it (unless the shell empties the FIFO first).
BytesAreRead ==
  HasReader => (~FifoEmpty ~> (FifoEmpty \/ rx_pc = "store" \/ halted))

\* RT_ASSERT(rt_object_get_type(&sem->parent.parent) == ...) in rt_sem_release
\* (ipc.c): the callback only ever releases an initialised semaphore.
AssertHolds == ~halted
=============================================================================
