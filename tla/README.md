# TLA+ models of the pipe gallery monitoring node

The repository is the firmware of a monitoring node for utility tunnels: an
STM32H743 under RT-Thread that reads gas, flame, temperature, force,
displacement, water and power sensors and reports them over three channels.
This directory holds TLA+ models of the parts of `applications/` in which
threads, interrupts, devices and networks interact, the TLC configurations that
check them, and machine-checked proofs of most of the safety properties.

`PROJECT.json` lists the components, the runs with their properties, the line
of code behind every definition, a mutant for every property, the findings, the
hazards and the theorems.

## 1. The system

### Threads and priorities

RT-Thread runs the ready thread with the lowest priority number and preempts
the others at once; threads of one priority take turns. Interrupts preempt
everything.

| thread | priority | code | what it does |
|---|---|---|---|
| `main` | 10 | `main.c` | creates the others once |
| `md_m_poll` | 10 | `freeModbusApp.c` | runs the Modbus master's state machine |
| `tshell` | 20 | `debugCommands.c` and others | commands typed by an operator |
| `eth_tcp` | 24 | `ethApp.c` | report over TCP every 3 s |
| `uart4_rx` | 25 | `uartApp.c` | bytes of the ESP8266 into the text buffer |
| `uart2_rx` | 25 | `MethaneSensorApp.c` | methane frames |
| `adc_read` | 25 | `linesensor.c`, `hal_adc.c` | five flame inputs |
| `o2_rd` | 25 | `o2SensorApp.c` | oxygen cell |
| `sht30_rd` | 25 | `sht30App.c` | temperature and humidity |
| `lora_tx` | 25 | `loraApp.c` | report line over UART5 |
| `hw_cloud` | 26 | `huaweiCloudApp.c` | MQTT report through the ESP8266 |
| `md_m_send` | 29 | `freeModbusApp.c`, `stressSensorApp.c` | polls the Modbus devices |

### Components, their state and how they meet

* **UART4/UART5 receive path** (`uartApp.c`, over RT-Thread's `serial.c` and
  `ipc.c`). State: the driver's ring FIFO with its `is_full` flag, a counting
  semaphore, the linear text buffer `uart4_recived_data` with its index. The
  interrupt handler fills the FIFO, the receive thread empties it into the text
  buffer, the cloud thread clears and searches the text buffer, and the shell
  command `test_esp8266` reads the device directly. Correct when the text stays
  terminated, no byte is slept on, and bytes come out in order.
* **MQTT reporter** (`huaweiCloudApp.c`). State: `cloud_task_step` 0 to 7, the
  report in `json_buf`. Sends AT commands to an ESP8266 and looks for words in
  the text buffer, with timeouts. The shell commands `huawei_upload_test` and
  `huawei_upload` build their text in the same `json_buf` and talk to the same
  module. Correct when it reaches step 7, publishes
  whole reports, believes only fresh confirmations and notices disconnections.
* **Ethernet reporter** (`ethApp.c`). State: `eth_sock`, `fail_count`. Connects,
  sends, closes after three failures in a row. Correct when it leaks no
  descriptor, leaves dead connections and comes back by itself.
* **Flame detector and oxygen sensor** (`linesensor.c`, `hal_adc.c`,
  `o2SensorApp.c`, the ADC driver). State: the registers of ADC1, shared by two
  HAL handles without a lock; `Flame`, `g_adc*`, `g_o2_concentration`. Correct
  when nobody takes a foreign conversion for his own.
* **Methane sensor** (`MethaneSensorApp.c`). State: a partial frame, frame
  counters, the published reading; the flag `methane_debug_active` by which the
  shell command `uart2_debug` takes the byte stream over.
* **Modbus devices** (`freeModbusApp.c`, `stressSensorApp.c`,
  `displacementSensorApp.c`). State: the register buffer `usMRegHoldBuf`, filled
  by the poll thread, read by the send thread; the published values and online
  flags. The shell commands `disp_test_addr` and `disp_set_addr` use the same
  bus and buffer. Correct when a value is never put together from two replies,
  the last good one is kept and a silent device is noticed.
* **SHT30** (`sht30App.c`). State: the published temperature and humidity. Writes
  a command, waits, reads six bytes with two checksums. Correct when a disturbed
  answer is never published.
* **Report builders** (step 7 of `huaweiCloudApp.c`, `build_sensor_json` of
  `ethApp.c`, `lora_build_text` of `loraApp.c`, the shell's display). State: a
  position in a fixed buffer. Everything the sensors publish is a global variable
  without a lock, stored by several stores and loaded by several loads in threads
  of other priorities. Correct when the text fits and what it shows belongs
  together.
* **Start-up, node table, the remaining shell commands**: sequential code around
  the above; see section 8.

### What is hard here

Interleavings of an interrupt, three threads and a shell on one FIFO; two
drivers on one converter; answers later than the timeout, unsolicited messages
between commands; connections that stall, break or are reset; frames found by
a header that also occurs inside frames; several stores that another thread
sees half done; two threads that build texts in one buffer; texts that fill
their buffer to the last byte. `PROJECT.json` lists these as hazards at their lines.

## 2. The modules

| module | models | instance | proofs |
|---|---|---|---|
| `ByteQueue` | abstract: a bounded queue that drops its oldest byte | | |
| `UartRx` | the receive path of UART4 and UART5 | `MCUartRx` | `UartRxProofs` |
| `CloudSession` | the MQTT reporter and the ESP8266 | `MCCloudSession` | `CloudSessionProofs` |
| `EthClient` | the Ethernet reporter and TCP | `MCEthClient` | `EthClientProofs` |
| `AdcShare` | ADC1, flame thread, oxygen thread, `o2_debug` | `MCAdcShare` | `AdcShareProofs` |
| `MethaneRx` | UART2, methane thread, `uart2_debug` | `MCMethaneRx` | `MethaneRxProofs` |
| `ModbusPoll` | send thread, stress and displacement sensor, `disp_test_addr`, `disp_set_addr` | `MCModbusPoll` | `ModbusPollProofs` |
| `ReportText` | the lengths and layouts of the reports | | |
| `Sht30` | the SHT30's answer: checksum and conversions | | `Sht30Proofs` |
| `Telemetry` | all publishers, the shell's `uart2_debug` included, all reporters and the scheduler; extends the two above | `MCTelemetry` | `TelemetryProofs` |

The mutated forms used to show that a property can fail stand in front of the
definition they mutate and are marked as such.

### UartRx

`buffer`, `put_index`, `get_index`, `is_full` are the fields of `struct
rt_serial_rx_fifo`; `sem_init`, `sem_value` the semaphore; `data`, `index` the
text buffer. `IsrGetc` is one turn of the receive loop of `rt_hw_serial_isr`,
`IsrIndicate` its end, where the callback releases the semaphore (or, if it is
not initialised, fails RT-Thread's assertion and spins: `halted`). `RxOpen`,
`RxSetIndicate`, `RxSemInit` are `uart4_init` in its order; `RxRead`, `RxTake`,
`RxStore` the loop of `uart4_thread_entry`. `uart4_buffer_clear` is
`ClearBegin`, one `ClearByte` per byte of the `memset`, and `ClearIndex`: it
runs at priority 26, so a step of it needs the receive thread asleep, and the
receive thread may cut in between any two. `ShellBegin`, `ShellGet`, `ShellEnd`
are the shell's competing read. `HasReader = FALSE` is UART5, which is opened
and never read.

`UartRx` is shown to implement `ByteQueue` by the mapping `Contents` (the bytes
from `get_index` on) and the last byte the receive thread got.

### CloudSession

`rx` is the text buffer as a sequence of the words `strstr` looks for; `"OK"` is
found inside `"+MQTTPUB:OK"`. `ClearText` is `uart4_buffer_clear()`, `StepCommand`
the `uart4_send()` of a step's command, `LineEnd` that of its line end: three calls,
three steps, and the module may answer between any two. `overtaken` is an observer:
a prompt or a confirmation has come in after the clear and before the command.
`StepSucceeds` and
`StepFails` end steps 0 to 6, with tables for what each waits for (`Expected`),
where it goes after a failure (`OnFailure`) and whether `ERROR` ends the wait
(`StopsOnError`); `Build`, `Prompted`, `ReportedOk`, `ReportTimeout` are step 7.
The `default` branch of the switch cannot be reached.

`UploadBegin` and `UploadPayload` are the two halves of the shell's upload
commands, before and after their 500 ms: the first may fall anywhere into a
round of the thread, replace `json_buf` or (`"mixed"`) its beginning, and leave
its announcement behind a command that has no line end yet.

The ESP8266 is external: it collects a line (`line`), executes one command at a
time (`job`), drops what comes meanwhile, takes everything for payload while
bytes of an announced payload are `missing`, and reports connection changes
whenever they happen. Lengths are counted in AT commands; an upload's text is
shorter than a report, as in the code. `kind` says which module the board meets:
one that may answer `late` (any other has answered when a timeout or a delay of the
thread ends, `TimesOut`), one that is `strict` about being configured twice,
one that is `warm`, that is, was left powered in any state when the board
restarted, and whether it is `shared` with the upload commands.

### EthClient

`eth_sock`, `sock`, `fail_count`, `delay` are the thread's variables; `Socket`,
`SocketFails`, `ConnectSucceeds`, `ConnectFails`, `SendAccepted`, `SendFails`,
`KeepSocket`, `Wake` its branches, with `closesocket` and the delay that follows
in the same action. Network and server are external: a connection is up,
stalled or broken, its send buffer takes `SndBuf` reports and then `send`
blocks. `Deliver` is an acknowledgment in lwIP's `tcp_receive`, `StallEnds` the end of
its retransmissions in `tcp_slowtmr`, of lwIP 2.0.2, which `rtconfig.h` selects. `streak` is an observer: failed sends since the last success, per
descriptor.

### AdcShare

A step is one HAL call on the registers (`chan`, `aden`, `conv`, `eoc`, `dr`).
A value is represented by the channel it was converted from, `Zero` (what
`adc_read_channel` returns after an error) or `Junk` (the uninitialised variable
`rt_adc_read` returns when `convert` fails). The flame thread's actions are named
after the calls of `adc_read_channel`; `ReaderCall`, `ReaderConfig`, `ReaderGet`,
`ReaderDone` are the ADC driver's `enabled` and `convert` as the oxygen thread
and `o2_debug` go through them, sleeps included.

### MethaneRx

The only model with real bytes: header, length, checksum and reading of the
19-byte frame are computed as in `Response_FrameCheck_Uart`. `Top` (the flag,
where a partial frame is dropped), `Read`, `Wake` are the thread; `DebugBegin`
to `DebugEnd` the command, whose loop has not napped yet in `"first"`: it runs for
at least a second, so it has emptied the FIFO when it ends. `seen` and `own` are
observers. The 20 ms the command waits are taken to be enough for the thread to
see the flag, and readers are taken to keep up with the line.

### ModbusPoll

`Polls` is a round of the send thread. `Take`, `Reply`, `Timeout`, `Return` are
FreeMODBUS as its users rely on it (the library is not in the repository): one
request at a time, the reply in the shared buffer, or an error. The content of a
register is the reading its device showed when it answered, so that values put
together from two readings can be told. Every store to a shared variable of
`stress_sensor_poll` is a step of its own, since every other thread preempts
this one. `disp_set_addr` is a write of the address register: the device answers
once and then no longer at the address that is polled. A member of `Worlds` says
what devices show, which of them come and go, and what the operator does; one
run looks at several. `outage` is an observer.

### Telemetry, ReportText, Sht30

`ReportText` has what the four readers of the sensor variables load, in which
order (`CloudLayout`, `EthLayout`, `LoraLayout`, `ShellLayout`), how many
characters go with each, and how long `rt_snprintf` makes a number. A float is
the pair of integers the code prints it from, with the FPU's saturation.

`Sht30` has the answer bit by bit: `sht30_crc8` with its shifts, the sensor's
checksum as the remainder of a polynomial (`SensorCrc`, put together from the
remainders of the powers of x), `Decode` as in `sht30_read_once`, `Celsius` and
`RelativeHumidity` cut to hundredths.

`Telemetry` composes them. `g` holds the published variables, each with the
number of its publication; `Stores` the order of the stores of each sensor.
`Reading` begins a publication, `Store` makes its next store; the methane reading
has two publishers, the methane thread and the shell (`uart2_debug`), which take turns
by the flag `methane_debug_active` (`InTurn`); `ShtCommand`,
`ShtRead`, `ShtDone` are the SHT30's thread; `Load` is the next item of the report,
`Send` its end. `CanRun` is the scheduler: a thread runs when no ready thread has
a lower priority number (`PRIO`, from the calls of `rt_thread_create`). Readers
do not disturb each other, so a behaviour has one (`who`). The shell is a publisher
and a reader, and does one command at a time.

## 3. The runs

Deadlock is checked except in `UartRx`, where `rt_assert_handler` really stops
the system. States are distinct states.

| run | constants | states | shows |
|---|---|---|---|
| `uart4` | FIFO 3, text buffer 3, semaphore limit 2, bytes {0, 1} | 257 137 | `NulTerminated`, `NoLostWakeup`, `FullIsFull`, the refinement `QueueSpec`, and that waiting bytes are read (`BytesAreRead`) |
| `uart4_assert` | FIFO 2, text buffer 2 | 36 | finding, section 5 |
| `cloud` | all eight kinds of module, and the ordinary one shared with the shell; buffer of 13 texts, a report of 3 commands' length, an upload of 2; 2 faults, 2 uploads | 4 596 892 | `OnlyWholeReports` with a timely module, `ReportedOkIsFresh` with a timely one and, unless an answer falls between clear and send, with a late one, `ReportsFlow` from any state the module is found in and after any use of the upload commands |
| `cloud_lost` | ordinary module, 1 fault | 2 195 | finding |
| `eth` | 2 descriptors, send buffer 2, 6 faults | 11 036 | `SocketsOwned`, `FailCountIsStreak`, `BrokenSocketDropped`, `ReportsArrive` |
| `adc_flame` | 2 flame inputs, both needed for a fire, one `o2_debug` | 3 656 652 | `OwnChannelOrHarmless`, `NoFalseAlarm` |
| `adc_o2` | the same without the shell | about 900 | finding |
| `methane` | frames with 0xAC as checksum, as ppm and without it; FIFO 1, counter modulo 2, one `uart2_debug` | 118 060 | `NoSplitFrame`, `CountsAreItsOwn`, `PublishedWasSent`, `StaysInStep`, `PlainFramesGetThrough` |
| `methane_sync` | a steady frame whose checksum is 0xAC | 678 | finding |
| `modbus` | two readings of flow and stress, `disp_test_addr` on slaves 2 and 3, `disp_set_addr` on 2; or slaves 2 and 3 switched on and off, one `disp_test_addr`, one lost reply | 632 432 | `FlowFromOneReply`, `LastValueKept`, `PolledForEver`, `SilenceNoticed` |
| `stress_order` | the stress sensor switched on and off | 510 | finding |
| `telemetry` | every reporter; variables that start at zero or with their longest text; two publications; three measurements of the SHT30, each with every disturbance of up to eight neighbouring bits or of any two | 1 039 650 | `LowerReadingsStand`, `CloudSeesWholeReadings`, `ReportFits`, `OnlyMeasured` |

Why the bounds are enough:

* `uart4`: a FIFO of 3 wraps, fills, overruns and is emptied; a text buffer of 3
  has a first, a last usable and a terminating byte; a limit of 2 saturates. The
  invariants and the refinement are also proved for every size, and for UART5.
* `cloud`: two faults allow a fault during the recovery from another. Thirteen
  texts are as many as can come in between a clear and the prompt with two faults
  (three for each fault and seven, section 6); with fewer the `>` can be crowded out
  by unsolicited texts. A report of 3 and an upload of 2 leave one
  missing when the wrong one is sent, or one too many; two uploads allow one to
  fall into the recovery from another.
* `eth`: three failures make the thread give a socket up, six let it happen to
  two sockets in a row; two descriptors tell reuse from leak.
* `adc_flame`: one input too few, or just enough, hot; a foreign value counted
  once too often would already make a fire. Proved for any number of inputs.
* `methane`: a counter modulo 2 wraps within a run; one FIFO byte is enough to
  be taken by the wrong reader. The three frames cover 0xAC in the checksum,
  0xAC 0xAC in the data and neither.
* `modbus`: two readings tell a mixed value from a clean one; one lost reply can
  hit each of the seven requests.
* `telemetry`: a property compares loads, and two loads differ when one
  publication falls between them; the second can be of another sensor, or begin
  before the report. `ReportFits` depends on the lengths only and lengths grow
  with the digits, so the longest values are the worst; the proof covers
  the others, and all measurements and disturbances of up to three bits.

## 4. Fairness

* `UartRx`: the handler returns (weak); the shell's read of at most 127 bytes
  ends and the receive thread gets the processor between bytes (strong, since
  interrupts disable both again and again; a byte takes 87 µs at 115200 baud).
* `CloudSession`: delays and waits of the thread end by their own timeouts, the
  module finishes a command it has started, the 500 ms of an upload end (weak).
  Nobody has to use an upload command. The network is not fair: `ReportsFlow`
  assumes it stays up.
* `EthClient`: the thread's delays end, TCP delivers on a connection that is up
  and gives up or resumes on a stalled one (weak). `connect` and `send` fail
  only within the bound on faults.
* `MethaneRx`: the sensor keeps sending and the command's steps and naps end
  (weak); the thread, which has to wait for the shell's naps, and the end of the
  command, whose time runs out, are strong.
* `ModbusPoll`: the master ends every request by reply or timeout, the command
  goes on once started (weak); the send thread gets bus and processor again and
  again (strong), since all others sleep most of the time.
* `AdcShare` and `Telemetry` have safety properties only and no fairness.

## 5. Findings

Each is a run that TLC must fail, and an entry in `PROJECT.json` with the
sentence of the repository it contradicts.

1. `uart4_assert`: `uart4_init` installs the callback before it initialises the
   semaphore, on a device whose interrupt is on. A byte in between fails
   RT-Thread's assertion and the node hangs.
2. `cloud_lost`: a disconnection the module reports while the thread sleeps
   between two rounds is erased by the next clear. Unless the module reconnects
   by itself, step 7 fails for ever and step 3 is never reached.
3. `adc_o2`: the ADC driver selects channel 18, sleeps 2 ms and then starts the
   conversion; the flame thread selects another channel between selection and start,
   and the oxygen concentration is computed from a flame sensor's voltage.
4. `methane_sync`: after a bad frame the parser drops all 19 bytes and never
   looks for a header among them. With a steady 236 ppm the checksum is 0xAC and
   a parser that starts on it stays one byte out for as long as the reading
   lasts.
5. `stress_order`: the stress sensor's flags are set before its value, so that
   the value from before an outage is seen as valid.

Seen while modelling, not kept as runs:

* After three failed sends `ethApp.c` waits 3 s (the report interval), not the
  5 s of `openspec/specs/ethernet-communication/spec.md`.
* A byte received while `uart4_buffer_clear` runs survives it, at its old place
  in the buffer, until later bytes are written over it.
* With a late module, an answer of a round that has timed out, arriving when
  `uart4_buffer_clear()` has returned and `uart4_send()` has not begun, survives the
  clear. The thread takes an old `>` for its prompt, or an old `+MQTTPUB:OK` for its
  confirmation, and says "All data reported OK" for a report that was not published.
  `ReportedOkIsFresh` names this as the one exception; without `~overtaken` in its
  premise TLC finds it.
* If the flame thread's conversion is running when the ADC driver selects channel 18,
  the HAL refuses; `rt_adc_read` ignores the error and returns an uninitialised
  variable, from which the oxygen concentration is computed (`Junk` in `AdcShare`).
* `disp_test_addr 1` reads the water meter: with 1 in `testAddrs`,
  `FlowFromOneReply` fails, because the command's reply can be stored between
  the flow's own reply and the send thread's access to the first register.
* `uart2_debug` runs before the Ethernet reporter and publishes what it reads: an
  Ethernet report may show the ppm of one methane frame and the LEL of another.
  `LowerReadingsStand` names this as its one exception; without it the run fails.
* A module that answers after the 3 s timeout is left in raw mode and publishes
  the next AT commands as a report; so does one the board finds in raw mode
  after a restart. `OnlyWholeReports` excludes both by its premise.
* A strict module with an old configuration keeps the thread in step 4 for ever
  if `AT+MQTTCLEAN` came while it was busy, with the end of an earlier command or
  an upload: step 4 never goes back to step 3. `ReportsFlow` excludes it by its
  premise.
* The thread never goes back to step 2: when the access point has gone, only the
  module itself can join it again. `ReportsFlow` has that as a premise too.
* An upload's `+MQTTPUB:OK` ends the thread's wait for its own report; the round
  is logged as reported though its report never left. `ReportedOkIsFresh`
  therefore speaks of sessions without uploads.
* `huawei_upload(int, ...)` is exported to the shell, which calls it with `argc`
  and `argv`: what it sends are not the numbers typed.
* A reading between -1 and 0 is printed without its sign (-0.5 as `0.50`), since
  the integer part is 0 and the decimals are made positive. 20.9 %, the steadied
  value of the oxygen sensor, is printed as `20.89`, as 20.9f is a little less.
* The longest Ethernet report has 511 characters for a buffer of 512.
* `disp_test_addr` takes the zero of the displacement at 74, the poll at 298: the
  two show values about 5 mm apart.
* The shell's `monitor` tells the operator to stop it with Ctrl+C, which its loop
  does not look for.

## 6. The proofs

All obligations are discharged by TLAPS with Z3, Zenon and LS4; each theorem is
`Init => Inv`, `Inv /\ [Next]_vars => Inv'` and a step from `Inv` to the
property.

**`UartRxProofs`**: `TypeCorrect`, `AlwaysTerminated`, `WakeupNeverLost`,
`FullFlagRight`, for every alphabet with NUL in it, FIFO and text buffer of at
least 2 bytes, semaphore limit of at least 1, with and without a reader
(`ByteAssumption`, `SizeAssumption`). `UartInv` adds to the properties that the
write index stays off the last byte (`IndexInRange`), that a pending handler has
a byte in the FIFO (`IsrHasInput`), that the loop runs with callback and
semaphore in place (`LoopReady`), and the heart of it, `WakeupPending`: if a byte
waits, a blocked thread has a handler on its way, and a thread about to take
the semaphore has a handler on its way or a count to take. `NoLostWakeup` alone
is not inductive: it says nothing of the thread between its last look at the
FIFO and `rt_sem_take`. `FifoPutFacts`, `FifoGetFacts` and `IncRange` are the
lemmas on the ring buffer.

`ImplementsQueue` is the refinement: `Spec => QueueSpec`. `Place(g, i)` is where
the `i`-th unread byte lies when the read index is `g`; `Places` and `LengthFacts`
say that the places follow the indices, that different unread bytes have different
places, and that the write index is the first place behind them. So a store leaves
the unread bytes alone and appends one (`PutIsAppend`), with the read index pushed
on exactly when the queue was full, and a read takes the first (`GetIsTail`).
`QueueSteps` then maps the handler's `IsrGetc` to `Put`, the thread's read to `Take`,
the shell's to `Discard` and everything else to stuttering. That `FifoEmpty` means
an empty queue needs `FullIsFull`.

**`EthClientProofs`**: `NoSocketLeak`, `FailuresPerConnection`, for every
non-empty set of descriptors, buffer size and number of faults
(`EthAssumption`); `TypeCorrect` likewise. `EthInv` adds `FreshSocket`: a socket being connected has no
failed send behind it, or resetting the count on success would not make it
equal to the streak.

**`AdcShareProofs`**: `TypeCorrect`, `SamplesHarmless`, `AlarmIsReal`, for any number of flame
inputs on different channels other than 18, any threshold and any number of
`o2_debug` runs (`AdcAssumption`). `TypeCorrect` includes that the flame thread, unlike the
oxygen thread, never uses an uninitialised value. `SamplingInv` says what the shared registers
can hold at each call of `adc_read_channel`: from the configuration of the
channel to the reading of the value, channel, running conversion and, once the
end-of-conversion flag is seen, result belong to the thread's channel or the
oxygen cell, because the other readers select channel 18 only and the HAL
refuses to reconfigure a running conversion. `AlarmIsReal` then needs that the
inputs counted as hot inject into the hot channels (`CountIsBounded`).

**`TelemetryProofs`**: `LowerStand`, `CloudWhole`, for all values, any number of
publications and every reporter. `TelInv` adds that publishers of the same variables
take turns (`Turns`: the methane thread and `uart2_debug` never publish at the same
time, and the shell does not publish while it reports), what each publisher still has to
store and that it has stored the rest (`Pending`), that a group is whole when its
publisher has nothing left (`WholeWhenIdle`), and `CloudStands`: from the first
load of a cloud report on, a group nobody has stored to is whole and what was
loaded of it is still there. The argument: a store needs that no ready thread
goes first, so it never falls into a report of the Ethernet thread or the shell,
nor does one of `md_m_send` fall into any, but for those of `uart2_debug`, the only
publisher before the Ethernet thread; and the cloud thread begins only when
every sensor thread sleeps (`Idle`), that is, when their groups are whole. The lemmas on
the tables (`Owners`, `OneGroupEach`, `AlikeGroups`,
`Priorities`, `GroupsApart`) are what the
code's priorities and variables have to provide.

`TypeCorrect` and `ReportsFit`, in the same module, hold for all values
in range, all measurements and disturbances of the SHT30 and any number of
publications (`TelemetryAssumption`, `Sht30Assumption`). Three parts. *Lengths*: a
32-bit number has at most eleven characters and a small one as many as its digits
(`Lengths`, `DecimalLengths`), which bounds the text of each variable (`Widths`).
*Layouts*: these bounds add up, item by item, to a table for each report (`JsonStep`,
`LoraStep`, `Items`), whose last entries are 511 for 512 bytes, 521 for 600 and 240
for 256 (`UpToNumbers`). *Values*: what is published is in range: the SHT30's 48 bits,
disturbed or not, decode to two 16-bit words or a failure (`ReadsWords`), two words
convert to -45 to 130 degrees and 0 to 100 percent (`ShtRange`), and a 32-bit product
to an oxygen value of at most six characters before the point (`O2Range`). `FitInv`
adds to `TypeOK` that the stores still to be made are of values in range (`Queued`)
and that the text is no longer than its items allow (`Short`); `ReportFits` alone is
not inductive, since it does not say how much of the text is still to come.
`TakesOnlyMeasured` is `OnlyMeasured` from the next module's lemmas.

**`Sht30Proofs`**: `SameChecksum`, and what `TakesOnlyMeasured` rests on, for every
pair of 16-bit words. A register of eight bits is represented by eight sums whose
parities they are. A shift moves the sums along and adds the first to two of them (`ShiftOfSums`), so eight
shifts and the two bytes of a word give eight fixed sums of the word's bits
(`EightOfSums`, `CrcOfSums`, `CheckSums`); counting ones in the columns of the
sensor's table of remainders gives the same (`Columns`, `SensorSums`), which is
`SameChecksum`. A disturbance is added to the bits (`Flipped`), hence to the sums, and
a checksum that is accepted says that eight sums of the disturbance alone are even
(`Accepted`). With at most three of the 24 bits turned around, or bits within eight
neighbouring ones, this leaves only no bit at all (`Noticed`). `BitsOfWord`, `Pieces`
and `Looked` carry that through the 48 bits of the answer to `ReadsIntact` and
`ReadsDamaged`. The hypothesis `Detectable` names these disturbances; with four bits
anywhere the statement is false, as the polynomial itself has four terms. The
run's disturbances satisfy it, which `MCTelemetry` has TLC check.

**`CloudSessionProofs`**: `TypeCorrect`, `ConfirmationIsOwn`, `OnlyReports`, for
reports and uploads of every length, every kind of module, any number of faults
(`CloudAssumption`). `CloudInv` adds to `TypeOK` four parts. `Where` ties
the program counter to the step. `FreshInv`, under which nobody uploads by hand, follows
a confirmation from the module to the text buffer: unless the clear was overtaken, a
confirmation in the buffer before the report is sent keeps the prompt out of it, so that
the thread, which waits for the prompt first, never meets an old one. `TimelyInv` says
that a timely module never overtakes a clear, since it has answered an announcement and
published a payload before the thread clears the buffer again; one that the board finds
in raw mode swallows commands without an answer, so the thread stays in steps 0, 3, 4
and 7. `WholeInv`, for a timely module that starts with the board, says that it waits
for payload only while the prompt is in the buffer and the thread is about to send, and
counts the texts that can come in between clear and prompt (`Room`).
`OnlyReports` has a hypothesis, `RoomAssumed`: the buffer has room for three texts per
fault and seven more. Some such room is needed: a prompt that the texts of a reconnecting module
crowd out leaves the module waiting for payload, and the next command goes into it.
The run's constants satisfy it with equality.

**`MethaneRxProofs`**: `TypeCorrect`, `NeverSplit`, `CountsOwn`, for all sets of 19-byte
frames, FIFO sizes, counter widths and numbers of commands (`MethaneAssumption`).
`MethInv` adds that the flag is up exactly while the command runs and the command
reads only after the thread has come by (`FlagHeld`), and that a thread that has come
by has dropped its part of a frame and does not read (`ThreadOut`).

`Published` (`PublishedWasSent`) needs to know where every byte came from. `StreamInv`
says that what a reader has collected and what the FIFO holds are successive bytes of
the sensor's stream, but for at most one: while `uart2_debug` switches the device
over, the byte on the line is lost, and that can be inside what a reader collects. So
19 bytes that are checked come from two successive frames with at most one byte left
out (`Window`). Whether such a mixture passes the check by chance, with an 8-bit
checksum, depends on the frames; `Unambiguous` is the hypothesis that none does with a
reading of its own, and the run's frames satisfy it (`MCMethaneRx`). For frames that
do not, the code can publish the mixture. `InStepForGood` (`StaysInStep`) needs no
hypothesis on the data: in step, header, length and checksum are where they belong, so
the parser never searches. All it needs of the frames is that the sensor sends valid
ones (`SensorAssumption`).

**`ModbusPollProofs`**: `TypeCorrect`, `FlowConsistent`, `ValueKept`, for all worlds
(`IsWorld`: readings, devices that come and go, an operator) and any number of shell
commands (`ModbusAssumption`). `PollInv` adds who holds the bus and with what request
(`BusHeld`), that the flow's registers in the shared buffer agree and the first does
not change between the thread's accesses (`FlowTogether`), and that a value is stored
only with the verdict on it in place (`VerdictStands`). `FlowFromOneReply` has the
premise that `disp_test_addr` is not used with the water meter's address; without it
the property is false, see section 5.

**Only model-checked**: all liveness (`BytesAreRead`, `ReportsFlow`,
`BrokenSocketDropped`, `ReportsArrive`, `PlainFramesGetThrough`, `PolledForEver`,
`SilenceNoticed`), since the prover does no fairness. Every invariant and every action
property that a passing run checks is also proved.

## 7. What the results rest on

* External behaviour as described with each module: ESP8266 firmware, network and
  server, FreeMODBUS, the sensors.
* A HAL call in `AdcShare` is atomic; the registers are not changed inside one.
  An oxygen cell's signal is far below the flame threshold of 60000.
* UART2's FIFO does not overrun and the 20 ms of `uart2_debug` suffice for the methane
  thread to see the flag (`Settled`; also behind `InTurn` of `Telemetry`). The code does
  not enforce it: other ready threads of priority 25 could keep that thread waiting.
* `send()` on the blocking TCP socket takes a whole report or fails.
* The SHT30's conversions are computed exactly and cut to hundredths; the code's
  single precision may differ in the last digit.
* In raw mode a command's line end (two bytes) is not counted as payload.
* Variables of up to 32 bits are stored and loaded in one access.

## 8. Not modelled, and why

* `wifiApp.c`, `allInFile.c`, `modbus_baudrate_test.c`: no thread of them runs.
* The wording of the reports, except its length; which characters a number is
  printed with.
* `main.c`, `NodeApp.c`: start threads once and hold copies of published values.
* Shell commands that only print or write a line to a UART, and `monitor`.
* RT-Thread, the STM32 HAL and cJSON, except what the models above contain; the
  Python tools on the PC.

## 9. Plan

Done, in this order: receive path, MQTT session, Ethernet reporter, shared ADC,
methane parser, Modbus polling; then the SHT30, the report builders and their
composition with all publishers, the upload commands in `CloudSession`,
`disp_set_addr` in `ModbusPoll`. Proofs of every invariant and action property the
passing runs check, and of the refinement of `ByteQueue`.

Left: shorter proofs where two modules prove the same about sequences; a model of
`send()` that accepts a part of a report, once the code looks at its result.
