----------------------------- MODULE MethaneRx ------------------------------
(***************************************************************************)
(* The methane sensor's receiver, MethaneSensorApp.c: a thread that picks  *)
(* 19-byte frames out of the byte stream of UART2, and the shell command   *)
(* uart2_debug, which takes the stream over for a while.  Both read the    *)
(* same driver FIFO; the flag methane_debug_active is to keep them apart.  *)
(*                                                                         *)
(* The sensor sends frames back to back and was not started together with  *)
(* the board.  The readers are taken to keep up with the line: at 19200    *)
(* baud 20 bytes arrive in a nap of 10 ms, and the driver's FIFO (UartRx)  *)
(* holds 64.                                                               *)
(*                                                                         *)
(* Scheduling.  The shell (20) runs before the thread (25) and gives way   *)
(* only in rt_thread_mdelay().                                             *)
(***************************************************************************)
EXTENDS Naturals, Sequences, SequencesExt

CONSTANTS
  Frames,      \* the frames the sensor sends, as sequences of bytes
  FifoCap,     \* how many bytes the driver's FIFO holds
  COUNTER_MOD, \* where the frame counters wrap; 2^32 in the code
  MaxDebug     \* bound: how often uart2_debug is run

PACKET_SIZE == 19
Byte == 0 .. 255
Word == 0 .. 65535

ASSUME MethaneAssumption ==
  /\ Frames # {} /\ Frames \subseteq [1 .. PACKET_SIZE -> Byte]
  /\ FifoCap \in Nat /\ FifoCap >= 1
  /\ COUNTER_MOD \in Nat /\ COUNTER_MOD >= 2
  /\ MaxDebug \in Nat

VARIABLES
  frame, pos,             \* the sensor: the frame being sent, bytes of it sent
  fifo,                   \* the driver's receive FIFO
  pc,                     \* the thread: "top" of its loop, "read", or "sleep"
  uart2_received_data,    \* the bytes of the frame collected so far; its length
                          \* is data_index
  methane_debug_active,
  dpc,                    \* uart2_debug: "idle", "settle" in mdelay(20), in its loop
                          \* before ("first") and after ("loop") its first nap, or
                          \* in that "nap", mdelay(10)
  seen,                   \* observer: the thread has come by the flag since
  debug_frame,            \* its local frame[] and frame_index
  debug_valid_before,     \* its copy of the counter
  own,                    \* observer: valid frames it has collected itself
  reading,                \* g_methane_ppm, g_methane_lel, g_methane_status
  g_methane_data_valid,
  methane_valid_frames, methane_invalid_frames,
  debugs                  \* runs of uart2_debug so far

sensorVars == <<frame, pos>>
commandVars == <<dpc, debug_frame, debug_valid_before, own, debugs>>
debugVars == <<commandVars, seen>>
dataVars == <<reading, g_methane_data_valid, methane_valid_frames, methane_invalid_frames>>
vars == <<frame, pos, fifo, pc, uart2_received_data, methane_debug_active, dpc,
          seen, debug_frame, debug_valid_before, own, reading, g_methane_data_valid,
          methane_valid_frames, methane_invalid_frames, debugs>>

Counter == 0 .. COUNTER_MOD - 1
Readings == [ppm : Word, lel : Byte, status : Byte]

Partial(s) == Len(s) < PACKET_SIZE /\ \A i \in DOMAIN s : s[i] \in Byte

TypeOK ==
  /\ frame \in Frames /\ pos \in 0 .. PACKET_SIZE - 1
  /\ Len(fifo) <= FifoCap /\ \A i \in DOMAIN fifo : fifo[i] \in Byte
  /\ pc \in {"top", "read", "sleep"}
  /\ Partial(uart2_received_data) /\ Partial(debug_frame)
  /\ methane_debug_active \in BOOLEAN
  /\ dpc \in {"idle", "settle", "first", "loop", "nap"} /\ seen \in BOOLEAN
  /\ debug_valid_before \in Counter /\ own \in Counter
  /\ reading \in Readings
  /\ g_methane_data_valid \in BOOLEAN
  /\ methane_valid_frames \in Counter /\ methane_invalid_frames \in Counter
  /\ debugs \in 0 .. MaxDebug

Init ==
  /\ frame \in Frames /\ pos \in 0 .. PACKET_SIZE - 1
  /\ fifo = <<>>
  /\ pc = "top" /\ uart2_received_data = <<>>
  /\ methane_debug_active = FALSE
  /\ dpc = "idle" /\ seen = FALSE /\ debug_frame = <<>> /\ debug_valid_before = 0 /\ own = 0
  /\ reading = [ppm |-> 0, lel |-> 0, status |-> 0]
  /\ g_methane_data_valid = FALSE
  /\ methane_valid_frames = 0 /\ methane_invalid_frames = 0
  /\ debugs = 0

-----------------------------------------------------------------------------
(* Frames. *)

\* Synchronize on AC AC, then collect.
OneByteHeader(s, b) ==  \* mutant of Collect
  IF Len(s) >= 1 \/ b = 172 THEN Append(s, b) ELSE <<>>
Collect(s, b) ==
  IF Len(s) >= 2 \/ b = 172 THEN Append(s, b) ELSE <<>>

\* checksum += buffer_in[i], in eight bits
Checksum(f) == FoldLeft(LAMBDA a, b : (a + b) % 256, 0, SubSeq(f, 1, PACKET_SIZE - 1))

ValidFrame(f) ==
  /\ f[1] = 172 /\ f[2] = 172 /\ f[3] = PACKET_SIZE /\ f[4] = 170
  /\ Checksum(f) = f[PACKET_SIZE]

\* The sensor sends what its protocol describes.
ASSUME SensorAssumption == \A f \in Frames : ValidFrame(f)

\* [10] and [11] are the ppm, low byte first, [12] the LEL, [13] the status.
Reading(f) == [ppm |-> 256 * f[12] + f[11], lel |-> f[13], status |-> f[14]]

Inc(n) == (n + 1) % COUNTER_MOD

\* Response_FrameCheck_Uart
PublishUnchecked(f) ==  \* mutant of FrameCheck
  /\ reading' = Reading(f)
  /\ g_methane_data_valid' = TRUE
  /\ methane_valid_frames' = Inc(methane_valid_frames)
  /\ UNCHANGED methane_invalid_frames
FrameCheck(f) ==
  \/ /\ ValidFrame(f)
     /\ reading' = Reading(f)
     /\ g_methane_data_valid' = TRUE
     /\ methane_valid_frames' = Inc(methane_valid_frames)
     /\ UNCHANGED methane_invalid_frames
  \/ /\ ~ValidFrame(f)
     /\ methane_invalid_frames' = Inc(methane_invalid_frames)
     /\ UNCHANGED <<reading, g_methane_data_valid, methane_valid_frames>>

\* Add the next byte of the FIFO to s; check and drop a complete frame.
IndexNotReset(s, s2) ==  \* mutant of TakeByte: the next byte is stored behind the buffer
  LET c == Collect(s, Head(fifo))
  IN /\ fifo # <<>>
     /\ fifo' = Tail(fifo)
     /\ s2 = c
     /\ \/ Len(c) < PACKET_SIZE /\ UNCHANGED dataVars
        \/ Len(c) >= PACKET_SIZE /\ FrameCheck(c)
IndexResetToOne(s, s2) ==  \* mutant of TakeByte
  LET c == Collect(s, Head(fifo))
  IN /\ fifo # <<>>
     /\ fifo' = Tail(fifo)
     /\ \/ Len(c) < PACKET_SIZE /\ s2 = c /\ UNCHANGED dataVars
        \/ Len(c) = PACKET_SIZE /\ s2 = SubSeq(c, 1, 1) /\ FrameCheck(c)
TakeByte(s, s2) ==
  LET c == Collect(s, Head(fifo))
  IN /\ fifo # <<>>
     /\ fifo' = Tail(fifo)
     /\ \/ Len(c) < PACKET_SIZE /\ s2 = c /\ UNCHANGED dataVars
        \/ Len(c) = PACKET_SIZE /\ s2 = <<>> /\ FrameCheck(c)

-----------------------------------------------------------------------------
(* The sensor and the line. *)

NextByte ==
  /\ pos' = (pos + 1) % PACKET_SIZE
  /\ IF pos + 1 = PACKET_SIZE THEN frame' \in Frames ELSE UNCHANGED frame

SensorByte ==
  /\ Len(fifo) < FifoCap
  /\ fifo' = Append(fifo, frame[pos + 1])
  /\ NextByte
  /\ UNCHANGED <<pc, uart2_received_data, methane_debug_active, debugVars, dataVars>>

-----------------------------------------------------------------------------
(* The thread, uart2_receive_and_print(-1). *)

ShellSleeps == dpc \notin {"first", "loop"}

\* if (methane_debug_active) { data_index = 0; mdelay(10); continue; }
KeepPartialFrame ==  \* mutant of Top
  /\ pc = "top" /\ ShellSleeps
  /\ pc' = IF methane_debug_active THEN "sleep" ELSE "read"
  /\ seen' = methane_debug_active
  /\ UNCHANGED <<sensorVars, fifo, uart2_received_data, methane_debug_active, commandVars, dataVars>>
Top ==
  /\ pc = "top" /\ ShellSleeps
  /\ \/ /\ methane_debug_active
        /\ uart2_received_data' = <<>>
        /\ pc' = "sleep"
     \/ /\ ~methane_debug_active
        /\ pc' = "read"
        /\ UNCHANGED uart2_received_data
  /\ seen' = methane_debug_active
  /\ UNCHANGED <<sensorVars, fifo, methane_debug_active, commandVars, dataVars>>

Read ==
  /\ pc = "read" /\ ShellSleeps
  /\ \/ TakeByte(uart2_received_data, uart2_received_data') /\ pc' = "top"
     \/ /\ fifo = <<>>
        /\ pc' = "sleep"
        /\ UNCHANGED <<fifo, uart2_received_data, dataVars>>
  /\ UNCHANGED <<sensorVars, methane_debug_active, debugVars>>

Wake ==
  /\ pc = "sleep" /\ ShellSleeps
  /\ pc' = "top"
  /\ UNCHANGED <<sensorVars, fifo, uart2_received_data, methane_debug_active, debugVars, dataVars>>

Thread == Top \/ Read \/ Wake

-----------------------------------------------------------------------------
(* The shell, uart2_debug. *)

DebugBegin ==
  /\ dpc = "idle" /\ debugs < MaxDebug
  /\ methane_debug_active' = TRUE
  /\ dpc' = "settle"
  /\ debugs' = debugs + 1
  /\ seen' = FALSE
  /\ UNCHANGED <<sensorVars, fifo, pc, uart2_received_data, debug_frame,
                 debug_valid_before, own, dataVars>>

\* The 20 ms are over: long enough for the thread, whose nap takes 10, to come
\* by the flag.
Settled == seen

\* rt_device_control() initializes the UART again: a byte on the line is lost.
CountNotTaken ==  \* mutant of DebugStart
  /\ dpc = "settle" /\ Settled
  /\ dpc' = "first"
  /\ debug_frame' = <<>>
  /\ own' = 0
  /\ NextByte \/ UNCHANGED sensorVars
  /\ UNCHANGED <<debug_valid_before, fifo, pc, uart2_received_data, methane_debug_active,
                 seen, debugs, dataVars>>
DebugStart ==
  /\ dpc = "settle" /\ Settled
  /\ dpc' = "first"
  /\ debug_frame' = <<>>
  /\ debug_valid_before' = methane_valid_frames
  /\ own' = 0
  /\ NextByte \/ UNCHANGED sensorVars
  /\ UNCHANGED <<fifo, pc, uart2_received_data, methane_debug_active,
                 seen, debugs, dataVars>>

\* The device cannot be found, opened or configured.
DebugFails ==
  /\ dpc = "settle" /\ Settled
  /\ dpc' = "idle"
  /\ methane_debug_active' = FALSE
  /\ UNCHANGED <<sensorVars, fifo, pc, uart2_received_data, debug_frame,
                 debug_valid_before, own, seen, debugs, dataVars>>

DebugRead ==
  /\ dpc \in {"first", "loop"}
  /\ \/ /\ TakeByte(debug_frame, debug_frame')
        /\ own' = IF methane_valid_frames' # methane_valid_frames THEN Inc(own) ELSE own
        /\ UNCHANGED dpc
     \/ /\ fifo = <<>>
        /\ dpc' = "nap"
        /\ UNCHANGED <<fifo, debug_frame, own, dataVars>>
  /\ UNCHANGED <<sensorVars, pc, uart2_received_data, methane_debug_active,
                 debug_valid_before, seen, debugs>>

DebugWake ==
  /\ dpc = "nap"
  /\ dpc' = "loop"
  /\ UNCHANGED <<sensorVars, fifo, pc, uart2_received_data, methane_debug_active,
                 debug_frame, debug_valid_before, own, seen, debugs, dataVars>>

\* The time is up; the thread gets the stream back, in the middle of a frame.  A
\* second at least has gone by, in which the command has emptied the FIFO and slept.
DebugEnd ==
  /\ dpc = "loop"
  /\ dpc' = "idle"
  /\ methane_debug_active' = FALSE
  /\ debug_frame' = <<>>
  /\ UNCHANGED <<sensorVars, fifo, pc, uart2_received_data, debug_valid_before,
                 own, seen, debugs, dataVars>>

Debug == DebugBegin \/ DebugStart \/ DebugFails \/ DebugRead \/ DebugWake \/ DebugEnd

-----------------------------------------------------------------------------
Next == SensorByte \/ Thread \/ Debug

\* The sensor does not stop, the command runs for a limited time and the thread
\* gets the processor whenever the shell leaves it.
Fairness ==
  /\ WF_vars(SensorByte)
  /\ SF_vars(Thread)
  /\ WF_vars(DebugStart \/ DebugRead \/ DebugWake) /\ SF_vars(DebugEnd)

Spec == Init /\ [][Next]_vars /\ Fairness

-----------------------------------------------------------------------------
(* Properties. *)

\* "Both readers consume the same RT-Thread UART RX queue; allowing them to run
\* together loses bytes" (MethaneSensorApp.c): no frame is ever divided between
\* the thread and the command.
NoSplitFrame == uart2_received_data = <<>> \/ debug_frame = <<>>

\* "Valid frames: %u" of uart2_debug is the number of frames it has collected
\* itself, although it is computed from the counter that both readers advance.
CountsAreItsOwn ==
  dpc \in {"first", "loop", "nap"} =>
    (methane_valid_frames + COUNTER_MOD - debug_valid_before) % COUNTER_MOD = own

\* Whatever is published was measured: the parser never puts a reading together
\* from two frames, wherever in the stream it starts, is interrupted or resumes.
PublishedWasSent ==
  g_methane_data_valid => \E f \in Frames : reading = Reading(f)

\* That depends on the frames: 19 bytes that are no frame can pass the check.  These
\* are the ones a reader may collect: from two frames sent one after the other,
\* beginning anywhere, with the byte behind the first l lost to uart2_debug or none.
Window(f1, f2, start, l) ==
  [i \in 1 .. PACKET_SIZE |-> (f1 \o f2)[start + i + (IF i > l THEN 1 ELSE 0)]]

\* None of them passes for a frame with another reading.
Unambiguous ==
  \A f1, f2 \in Frames, start \in 0 .. PACKET_SIZE - 1, l \in 0 .. PACKET_SIZE :
    ValidFrame(Window(f1, f2, start, l)) =>
      \E f \in Frames : Reading(Window(f1, f2, start, l)) = Reading(f)

\* The bytes that are received and neither checked nor dropped, oldest first.
Pending == uart2_received_data \o debug_frame \o fifo

\* Byte q, from 0, of the frames fs[0], fs[1], ...
Sent(fs, q) == fs[q \div PACKET_SIZE][(q % PACKET_SIZE) + 1]

\* A reader is in step with the sensor: what it has and what waits for it are
\* frames, the last of them as far as the sensor has sent it.
InStep ==
  LET n == Len(Pending)
      k == n \div PACKET_SIZE
  IN /\ pos = n % PACKET_SIZE
     /\ \E fs \in [0 .. k -> Frames] :
          fs[k] = frame /\ \A i \in 1 .. n : Pending[i] = Sent(fs, i - 1)

\* uart2_debug takes the stream over or gives it back.
HandedOver == (Top /\ methane_debug_active) \/ DebugStart \/ DebugEnd

\* A reader that is in step stays in step, accepts every frame and publishes what
\* it says, whatever bytes of the data look like a header, until uart2_debug takes
\* the stream over or gives it back.
StaysInStep ==
  [][InStep /\ ~HandedOver =>
       /\ InStep'
       /\ UNCHANGED methane_invalid_frames
       /\ methane_valid_frames' # methane_valid_frames => \E f \in Frames : reading' = Reading(f)]_vars

\* From wherever in the stream the parser starts, is interrupted or was misled to,
\* valid frames get through once the sensor sends only frames without 0xAC behind
\* the header.
Plain(f) == \A i \in 3 .. PACKET_SIZE : f[i] # 172
PlainFramesGetThrough ==
  <>[]Plain(frame) => \A n \in Counter : []<>(methane_valid_frames = n)

\* "Discard the frame and wait for the next valid header" (openspec/specs/
\* sensor-acquisition/spec.md): as long as the sensor sends valid frames, valid
\* frames get through, from wherever in the stream the parser starts.
FramesGetThrough == \A n \in Counter : []<>(methane_valid_frames = n)
=============================================================================
