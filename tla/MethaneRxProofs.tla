--------------------------- MODULE MethaneRxProofs ---------------------------
(***************************************************************************)
(* The methane receiver and uart2_debug: who reads the stream when, for    *)
(* all frames, every size of the FIFO, every width of the counters and any *)
(* number of runs of the command.                                          *)
(***************************************************************************)
EXTENDS MethaneRx, SequenceTheorems, TLAPS

-----------------------------------------------------------------------------
(* The counters. *)

\* A step of a counter stays in range and is seen.
LEMMA IncFacts ==
  ASSUME NEW n \in Counter
  PROVE  Inc(n) \in Counter /\ Inc(n) # n /\ Inc(n) = IF n + 1 = COUNTER_MOD THEN 0 ELSE n + 1
<1>1. COUNTER_MOD \in Nat /\ COUNTER_MOD >= 2 /\ n \in 0 .. COUNTER_MOD - 1
  BY MethaneAssumption DEF Counter
<1>2. CASE n + 1 < COUNTER_MOD
  BY <1>1, <1>2 DEF Inc, Counter
<1>3. CASE n + 1 = COUNTER_MOD
  BY <1>1, <1>3 DEF Inc, Counter
<1> QED BY <1>1, <1>2, <1>3

\* The difference of two counters, in unsigned arithmetic.
Since(v, before) == (v + COUNTER_MOD - before) % COUNTER_MOD

\* It is 0 at the start and goes up with the counter, also when that wraps.
LEMMA SinceFacts ==
  ASSUME NEW v \in Counter, NEW before \in Counter
  PROVE  Since(v, v) = 0 /\ Since(Inc(v), before) = Inc(Since(v, before))
<1> DEFINE M == COUNTER_MOD
<1>1. M \in Nat \ {0} /\ M >= 2 /\ v \in 0 .. M - 1 /\ before \in 0 .. M - 1
  BY MethaneAssumption DEF Counter
<1>2. ASSUME NEW u \in Counter
      PROVE  Since(u, before) = IF u < before THEN u + M - before ELSE u - before
  <2>1. u \in 0 .. M - 1
    BY DEF Counter
  <2>2. CASE u < before
    BY <1>1, <2>1, <2>2 DEF Since
  <2>3. CASE u >= before
    BY <1>1, <2>1, <2>3 DEF Since
  <2> QED BY <1>1, <2>1, <2>2, <2>3
<1>3. Since(v, v) = 0
  BY <1>1 DEF Since
<1>4. Since(v, before) \in Counter
  BY <1>1, <1>2 DEF Counter
<1> QED BY <1>1, <1>2, <1>3, <1>4, IncFacts DEF Counter

-----------------------------------------------------------------------------
(* The invariant. *)

\* What the readers handle are bytes.
Bytes == fifo \in Seq(Byte) /\ uart2_received_data \in Seq(Byte) /\ debug_frame \in Seq(Byte)

\* The flag is up for as long as the command runs, and the command does not read
\* before the thread has come by.
FlagHeld ==
  /\ methane_debug_active <=> dpc # "idle"
  /\ dpc \in {"first", "loop", "nap"} => seen
  /\ debug_frame # <<>> => dpc \in {"first", "loop", "nap"}

\* A thread that has seen the flag has dropped its part of a frame and does not
\* read until the flag is down.
ThreadOut ==
  methane_debug_active /\ seen => pc # "read" /\ uart2_received_data = <<>>

MethInv == TypeOK /\ Bytes /\ FlagHeld /\ ThreadOut /\ CountsAreItsOwn

\* Nothing has been read at the start.
LEMMA InitInv == Init => MethInv
<1> SUFFICES ASSUME Init PROVE MethInv
    OBVIOUS
<1> USE MethaneAssumption
<1>1. Bytes
  BY DEF Init, Bytes
<1>2. FlagHeld /\ ThreadOut /\ CountsAreItsOwn
  BY DEF Init, FlagHeld, ThreadOut, CountsAreItsOwn
<1>3. TypeOK
  <2>1. Partial(<<>>) /\ Len(<<>>) <= FifoCap
    BY DEF Partial, PACKET_SIZE
  <2>2. [ppm |-> 0, lel |-> 0, status |-> 0] \in Readings /\ 0 \in Counter
    BY DEF Readings, Byte, Word, Counter
  <2>3. 0 \in 0 .. MaxDebug
    OBVIOUS
  <2>4. /\ frame \in Frames /\ pos \in 0 .. PACKET_SIZE - 1 /\ pc \in {"top", "read", "sleep"}
        /\ methane_debug_active \in BOOLEAN /\ seen \in BOOLEAN /\ g_methane_data_valid \in BOOLEAN
        /\ dpc \in {"idle", "settle", "first", "loop", "nap"}
    BY Zenon DEF Init
  <2>5. /\ fifo = <<>> /\ uart2_received_data = <<>> /\ debug_frame = <<>>
        /\ \A i \in DOMAIN fifo : fifo[i] \in Byte
    BY DEF Init
  <2>6. /\ reading \in Readings /\ methane_valid_frames \in Counter
        /\ methane_invalid_frames \in Counter /\ debug_valid_before \in Counter
        /\ own \in Counter /\ debugs \in 0 .. MaxDebug
    BY <2>2, <2>3 DEF Init
  <2> QED BY <2>1, <2>4, <2>5, <2>6 DEF TypeOK
<1> QED BY <1>1, <1>2, <1>3 DEF MethInv

-----------------------------------------------------------------------------
(* The parser. *)

\* An element of a sequence.
LEMMA Element ==
  ASSUME NEW S, NEW s \in Seq(S), NEW i \in 1 .. Len(s)
  PROVE  s[i] \in S
OBVIOUS

\* Collecting a byte.
LEMMA CollectFacts ==
  ASSUME NEW s \in Seq(Byte), NEW b \in Byte
  PROVE  Collect(s, b) \in Seq(Byte) /\ Len(Collect(s, b)) <= Len(s) + 1
BY DEF Collect

\* Two bytes make a 16-bit number.
LEMMA SixteenBits ==
  ASSUME NEW low \in Byte, NEW high \in Byte
  PROVE  256 * high + low \in Word
<1>1. low \in 0 .. 255 /\ high \in 0 .. 255
  BY DEF Byte
<1>2. PICK m \in Nat : m = 65535
  OBVIOUS
<1>3. PICK n \in Nat : n = 256 * high + low
  BY <1>1
<1>4. n <= m
  BY <1>1, <1>2, <1>3
<1>5. Word = 0 .. m
  BY <1>2, SMT DEF Word
<1>6. n \in 0 .. m
  BY <1>4, SMT
<1> QED BY <1>3, <1>5, <1>6

\* The reading of a frame of bytes.
LEMMA ReadingOfBytes ==
  ASSUME NEW c, \A i \in 1 .. PACKET_SIZE : c[i] \in Byte
  PROVE  Reading(c) \in Readings
<1>1. c[11] \in Byte /\ c[12] \in Byte /\ c[13] \in Byte /\ c[14] \in Byte
  BY DEF PACKET_SIZE
<1>2. 256 * c[12] + c[11] \in Word
  BY <1>1, SixteenBits
<1> QED BY <1>1, <1>2 DEF Reading, Readings

\* A checked frame leaves reading and counters well typed, and counts as valid by
\* exactly one step or not at all.
LEMMA FrameCheckFacts ==
  ASSUME TypeOK, NEW c \in Seq(Byte), Len(c) = PACKET_SIZE, FrameCheck(c)
  PROVE  /\ reading' \in Readings /\ g_methane_data_valid' \in BOOLEAN
         /\ methane_valid_frames' \in Counter /\ methane_invalid_frames' \in Counter
         /\ methane_valid_frames' \in {methane_valid_frames, Inc(methane_valid_frames)}
<1>1. Reading(c) \in Readings
  <2>1. \A i \in 1 .. PACKET_SIZE : c[i] \in Byte
    BY Element
  <2> QED BY <2>1, ReadingOfBytes
<1>2. methane_valid_frames \in Counter /\ methane_invalid_frames \in Counter
        /\ reading \in Readings /\ g_methane_data_valid \in BOOLEAN
  BY DEF TypeOK
<1>3. Inc(methane_valid_frames) \in Counter /\ Inc(methane_invalid_frames) \in Counter
  BY <1>2, IncFacts
<1> QED BY <1>1, <1>2, <1>3 DEF FrameCheck

\* A reader takes a byte.
LEMMA TakeByteFacts ==
  ASSUME TypeOK, Bytes, NEW s \in Seq(Byte), Len(s) < PACKET_SIZE, NEW s2, TakeByte(s, s2)
  PROVE  /\ fifo' \in Seq(Byte) /\ Len(fifo') <= FifoCap
         /\ s2 \in Seq(Byte) /\ Len(s2) < PACKET_SIZE
         /\ reading' \in Readings /\ g_methane_data_valid' \in BOOLEAN
         /\ methane_valid_frames' \in Counter /\ methane_invalid_frames' \in Counter
         /\ methane_valid_frames' \in {methane_valid_frames, Inc(methane_valid_frames)}
<1> DEFINE c == Collect(s, Head(fifo))
<1>1. fifo # <<>> /\ fifo' = Tail(fifo) /\ fifo \in Seq(Byte) /\ Len(fifo) <= FifoCap
  BY DEF TakeByte, Bytes, TypeOK
<1>2. Head(fifo) \in Byte /\ fifo' \in Seq(Byte) /\ Len(fifo') <= FifoCap
  BY <1>1, MethaneAssumption
<1>3. c \in Seq(Byte)
  BY <1>2, CollectFacts
<1> HIDE DEF c
<1>4. CASE Len(c) < PACKET_SIZE /\ s2 = c /\ UNCHANGED dataVars
  BY <1>2, <1>3, <1>4 DEF TypeOK, dataVars
<1>5. CASE Len(c) = PACKET_SIZE /\ s2 = <<>> /\ FrameCheck(c)
  <2>1. s2 \in Seq(Byte) /\ Len(s2) < PACKET_SIZE
    BY <1>5 DEF PACKET_SIZE
  <2> QED BY <1>2, <1>3, <1>5, <2>1, FrameCheckFacts
<1> QED BY <1>4, <1>5 DEF TakeByte, c

-----------------------------------------------------------------------------
(* The steps. *)

\* The sensor's next byte.
LEMMA NextByteFacts ==
  ASSUME TypeOK, NextByte
  PROVE  frame' \in Frames /\ pos' \in 0 .. PACKET_SIZE - 1
BY DEF TypeOK, NextByte, PACKET_SIZE

\* What the sensor sends next is a byte.
LEMMA CurrentByte ==
  ASSUME MethInv
  PROVE  frame[pos + 1] \in Byte
<1>1. frame \in Frames /\ pos \in 0 .. PACKET_SIZE - 1
  BY DEF MethInv, TypeOK
<1>2. frame \in [1 .. PACKET_SIZE -> Byte]
  BY <1>1, MethaneAssumption
<1>3. pos + 1 \in 1 .. PACKET_SIZE
  BY <1>1 DEF PACKET_SIZE
<1> QED BY <1>2, <1>3

\* Only the FIFO changes, and the sensor.
LEMMA SensorStep ==
  ASSUME MethInv, SensorByte
  PROVE  MethInv'
<1>1. frame[pos + 1] \in Byte
  BY CurrentByte
<1>2. fifo \in Seq(Byte) /\ FifoCap \in Nat
  BY MethaneAssumption DEF MethInv, Bytes
<1>3. fifo' \in Seq(Byte) /\ Len(fifo') <= FifoCap
  BY <1>1, <1>2 DEF SensorByte
<1>4. \A j \in DOMAIN fifo' : fifo'[j] \in Byte
  BY <1>3
<1>5. frame' \in Frames /\ pos' \in 0 .. PACKET_SIZE - 1
  BY NextByteFacts DEF MethInv, SensorByte
<1>6. UNCHANGED <<pc, uart2_received_data, methane_debug_active, dpc, debug_frame,
                  debug_valid_before, own, debugs, seen, reading, g_methane_data_valid,
                  methane_valid_frames, methane_invalid_frames>>
  BY DEF SensorByte, debugVars, commandVars, dataVars
<1>7. TypeOK' /\ Bytes'
  BY <1>3, <1>4, <1>5, <1>6 DEF MethInv, TypeOK, Bytes
<1>8. FlagHeld' /\ ThreadOut' /\ CountsAreItsOwn'
  BY <1>6 DEF MethInv, FlagHeld, ThreadOut, CountsAreItsOwn
<1> QED BY <1>7, <1>8 DEF MethInv

\* The thread comes by the flag.
LEMMA TopStep ==
  ASSUME MethInv, Top
  PROVE  MethInv'
<1>1. UNCHANGED <<frame, pos, fifo, methane_debug_active, dpc, debug_frame, debug_valid_before,
                  own, debugs, reading, g_methane_data_valid, methane_valid_frames,
                  methane_invalid_frames>>
  BY DEF Top, sensorVars, commandVars, dataVars
<1>2. /\ seen' = methane_debug_active
      /\ \/ methane_debug_active /\ uart2_received_data' = <<>> /\ pc' = "sleep"
         \/ ~methane_debug_active /\ uart2_received_data' = uart2_received_data /\ pc' = "read"
  BY DEF Top
<1>3. seen' \in BOOLEAN /\ pc' \in {"top", "read", "sleep"}
  BY <1>2 DEF MethInv, TypeOK
<1>4. Partial(uart2_received_data)' /\ uart2_received_data' \in Seq(Byte)
  <2>1. Partial(uart2_received_data) /\ uart2_received_data \in Seq(Byte)
    BY DEF MethInv, TypeOK, Bytes
  <2>2. Partial(<<>>) /\ <<>> \in Seq(Byte)
    BY DEF Partial, PACKET_SIZE
  <2> QED BY <1>2, <2>1, <2>2 DEF Partial
<1>5. TypeOK' /\ Bytes'
  BY <1>1, <1>3, <1>4 DEF MethInv, TypeOK, Bytes, Partial
<1>6. FlagHeld' /\ ThreadOut' /\ CountsAreItsOwn'
  BY <1>1, <1>2 DEF MethInv, FlagHeld, ThreadOut, CountsAreItsOwn
<1> QED BY <1>5, <1>6 DEF MethInv

\* The thread takes a byte, which it only does while the command is not reading.
LEMMA ReadStep ==
  ASSUME MethInv, Read
  PROVE  MethInv'
<1>1. pc = "read" /\ UNCHANGED <<frame, pos, methane_debug_active, dpc, debug_frame,
                                 debug_valid_before, own, debugs, seen>>
  BY DEF Read, sensorVars, debugVars, commandVars
<1>2. ~(methane_debug_active /\ seen)
  BY <1>1 DEF MethInv, ThreadOut
<1>3. dpc \notin {"first", "loop", "nap"}
  BY <1>2 DEF MethInv, FlagHeld
<1>4. CASE TakeByte(uart2_received_data, uart2_received_data') /\ pc' = "top"
  <2>1. TypeOK /\ Bytes /\ uart2_received_data \in Seq(Byte)
          /\ Len(uart2_received_data) < PACKET_SIZE
    BY DEF MethInv, TypeOK, Bytes, Partial
  <2>2. /\ fifo' \in Seq(Byte) /\ Len(fifo') <= FifoCap
        /\ uart2_received_data' \in Seq(Byte) /\ Len(uart2_received_data') < PACKET_SIZE
        /\ reading' \in Readings /\ g_methane_data_valid' \in BOOLEAN
        /\ methane_valid_frames' \in Counter /\ methane_invalid_frames' \in Counter
    BY <1>4, <2>1, TakeByteFacts
  <2>3. (\A j \in DOMAIN fifo' : fifo'[j] \in Byte) /\ Partial(uart2_received_data)'
    BY <2>2 DEF Partial
  <2>4. TypeOK' /\ Bytes'
    BY <1>1, <1>4, <2>2, <2>3 DEF MethInv, TypeOK, Bytes, Partial
  <2>5. FlagHeld' /\ ThreadOut' /\ CountsAreItsOwn'
    BY <1>1, <1>2, <1>3 DEF MethInv, FlagHeld, ThreadOut, CountsAreItsOwn
  <2> QED BY <2>4, <2>5 DEF MethInv
<1>5. CASE pc' = "sleep" /\ UNCHANGED <<fifo, uart2_received_data, dataVars>>
  <2>1. TypeOK' /\ Bytes'
    BY <1>1, <1>5 DEF MethInv, TypeOK, Bytes, Partial, dataVars
  <2>2. FlagHeld' /\ ThreadOut' /\ CountsAreItsOwn'
    BY <1>1, <1>2, <1>3 DEF MethInv, FlagHeld, ThreadOut, CountsAreItsOwn
  <2> QED BY <2>1, <2>2 DEF MethInv
<1> QED BY <1>4, <1>5 DEF Read

\* The thread's nap ends.
LEMMA WakeStep ==
  ASSUME MethInv, Wake
  PROVE  MethInv'
<1>1. pc' = "top" /\ UNCHANGED <<frame, pos, fifo, uart2_received_data, methane_debug_active, dpc,
                  debug_frame, debug_valid_before, own, debugs, seen, reading,
                  g_methane_data_valid, methane_valid_frames, methane_invalid_frames>>
  BY DEF Wake, sensorVars, debugVars, commandVars, dataVars
<1>2. TypeOK' /\ Bytes'
  BY <1>1 DEF MethInv, TypeOK, Bytes, Partial
<1>3. FlagHeld' /\ ThreadOut' /\ CountsAreItsOwn'
  BY <1>1 DEF MethInv, FlagHeld, ThreadOut, CountsAreItsOwn
<1> QED BY <1>2, <1>3 DEF MethInv

\* The flag goes up: the thread has still to come by.
LEMMA DebugBeginStep ==
  ASSUME MethInv, DebugBegin
  PROVE  MethInv'
<1>1. /\ methane_debug_active' = TRUE /\ dpc' = "settle" /\ seen' = FALSE /\ dpc = "idle"
      /\ debugs' = debugs + 1 /\ debugs < MaxDebug
      /\ UNCHANGED <<frame, pos, fifo, pc, uart2_received_data, debug_frame, debug_valid_before,
                     own, reading, g_methane_data_valid, methane_valid_frames,
                     methane_invalid_frames>>
  BY DEF DebugBegin, sensorVars, dataVars
<1>2. debugs' \in 0 .. MaxDebug
  BY <1>1, MethaneAssumption DEF MethInv, TypeOK
<1>3. /\ methane_debug_active' \in BOOLEAN /\ seen' \in BOOLEAN
      /\ dpc' \in {"idle", "settle", "first", "loop", "nap"}
  BY <1>1, Zenon
<1>4. TypeOK' /\ Bytes'
  BY <1>1, <1>2, <1>3 DEF MethInv, TypeOK, Bytes, Partial
<1>5. FlagHeld' /\ ThreadOut' /\ CountsAreItsOwn'
  BY <1>1 DEF MethInv, FlagHeld, ThreadOut, CountsAreItsOwn
<1> QED BY <1>4, <1>5 DEF MethInv

\* The command begins to read: the counts start from here.
LEMMA DebugStartStep ==
  ASSUME MethInv, DebugStart
  PROVE  MethInv'
<1>1. /\ dpc = "settle" /\ seen /\ dpc' = "first" /\ debug_frame' = <<>> /\ own' = 0
      /\ debug_valid_before' = methane_valid_frames
      /\ UNCHANGED <<fifo, pc, uart2_received_data, methane_debug_active, seen, debugs, reading,
                     g_methane_data_valid, methane_valid_frames, methane_invalid_frames>>
  BY DEF DebugStart, Settled, dataVars
<1>2. frame' \in Frames /\ pos' \in 0 .. PACKET_SIZE - 1
  <2>1. CASE NextByte
    BY <2>1, NextByteFacts DEF MethInv
  <2>2. CASE UNCHANGED <<frame, pos>>
    BY <2>2 DEF MethInv, TypeOK
  <2> QED BY <2>1, <2>2 DEF DebugStart, sensorVars
<1>3. methane_valid_frames \in Counter
  BY DEF MethInv, TypeOK
<1>4. 0 \in Counter
  BY MethaneAssumption DEF Counter
<1>5. dpc' \in {"idle", "settle", "first", "loop", "nap"} /\ debug_frame' \in Seq(Byte) /\ Partial(debug_frame)'
  BY <1>1 DEF Partial, PACKET_SIZE
<1>6. own' \in Counter /\ debug_valid_before' \in Counter
  BY <1>1, <1>3, <1>4
<1>7. TypeOK' /\ Bytes'
  BY <1>1, <1>2, <1>5, <1>6 DEF MethInv, TypeOK, Bytes, Partial
<1>8. FlagHeld' /\ ThreadOut'
  BY <1>1 DEF MethInv, FlagHeld, ThreadOut
<1>9. CountsAreItsOwn'
  <2>1. Since(methane_valid_frames, methane_valid_frames) = 0
    BY <1>3, SinceFacts
  <2> QED BY <1>1, <2>1 DEF CountsAreItsOwn, Since
<1> QED BY <1>7, <1>8, <1>9 DEF MethInv

\* The command gives up before it has read anything.
LEMMA DebugFailsStep ==
  ASSUME MethInv, DebugFails
  PROVE  MethInv'
<1>1. /\ dpc = "settle" /\ dpc' = "idle" /\ methane_debug_active' = FALSE
      /\ UNCHANGED <<frame, pos, fifo, pc, uart2_received_data, debug_frame, debug_valid_before,
                     own, seen, debugs, reading, g_methane_data_valid, methane_valid_frames,
                     methane_invalid_frames>>
  BY DEF DebugFails, sensorVars, dataVars
<1>2. methane_debug_active' \in BOOLEAN /\ dpc' \in {"idle", "settle", "first", "loop", "nap"}
  BY <1>1, Zenon
<1>3. TypeOK' /\ Bytes'
  BY <1>1, <1>2 DEF MethInv, TypeOK, Bytes, Partial
<1>4. FlagHeld' /\ ThreadOut' /\ CountsAreItsOwn'
  BY <1>1 DEF MethInv, FlagHeld, ThreadOut, CountsAreItsOwn
<1> QED BY <1>3, <1>4 DEF MethInv

\* The command takes a byte; nobody else moves the counter meanwhile.
LEMMA DebugReadStep ==
  ASSUME MethInv, DebugRead
  PROVE  MethInv'
<1>1. /\ dpc \in {"first", "loop"}
      /\ UNCHANGED <<frame, pos, pc, uart2_received_data, methane_debug_active,
                     debug_valid_before, seen, debugs>>
  BY DEF DebugRead, sensorVars
<1>2. CASE /\ TakeByte(debug_frame, debug_frame') /\ dpc' = dpc
           /\ own' = IF methane_valid_frames' # methane_valid_frames THEN Inc(own) ELSE own
  <2>1. TypeOK /\ Bytes /\ debug_frame \in Seq(Byte) /\ Len(debug_frame) < PACKET_SIZE
    BY DEF MethInv, TypeOK, Bytes, Partial
  <2>2. /\ fifo' \in Seq(Byte) /\ Len(fifo') <= FifoCap
        /\ debug_frame' \in Seq(Byte) /\ Len(debug_frame') < PACKET_SIZE
        /\ reading' \in Readings /\ g_methane_data_valid' \in BOOLEAN
        /\ methane_valid_frames' \in Counter /\ methane_invalid_frames' \in Counter
        /\ methane_valid_frames' \in {methane_valid_frames, Inc(methane_valid_frames)}
    BY <1>2, <2>1, TakeByteFacts
  <2>3. (\A j \in DOMAIN fifo' : fifo'[j] \in Byte) /\ Partial(debug_frame)'
    BY <2>2 DEF Partial
  <2>4. /\ own \in Counter /\ methane_valid_frames \in Counter /\ debug_valid_before \in Counter
        /\ Since(methane_valid_frames, debug_valid_before) = own
    BY <1>1 DEF MethInv, TypeOK, CountsAreItsOwn, Since
  <2>5. own' \in Counter /\ Since(methane_valid_frames', debug_valid_before) = own'
    <3>1. CASE methane_valid_frames' = methane_valid_frames
      BY <1>2, <2>4, <3>1
    <3>2. CASE methane_valid_frames' = Inc(methane_valid_frames)
      <4>1. Inc(methane_valid_frames) # methane_valid_frames /\ Inc(own) \in Counter
        BY <2>4, IncFacts
      <4>2. Since(Inc(methane_valid_frames), debug_valid_before) = Inc(own)
        BY <2>4, SinceFacts
      <4> QED BY <1>2, <3>2, <4>1, <4>2
    <3> QED BY <2>2, <3>1, <3>2
  <2>6. TypeOK' /\ Bytes'
    BY <1>1, <1>2, <2>2, <2>3, <2>5 DEF MethInv, TypeOK, Bytes, Partial
  <2>7. FlagHeld' /\ ThreadOut' /\ CountsAreItsOwn'
    BY <1>1, <1>2, <2>5 DEF MethInv, FlagHeld, ThreadOut, CountsAreItsOwn, Since
  <2> QED BY <2>6, <2>7 DEF MethInv
<1>3. CASE dpc' = "nap" /\ UNCHANGED <<fifo, debug_frame, own, dataVars>>
  <2>1. TypeOK' /\ Bytes'
    BY <1>1, <1>3 DEF MethInv, TypeOK, Bytes, Partial, dataVars
  <2>2. FlagHeld' /\ ThreadOut' /\ CountsAreItsOwn'
    BY <1>1, <1>3 DEF MethInv, FlagHeld, ThreadOut, CountsAreItsOwn, dataVars
  <2> QED BY <2>1, <2>2 DEF MethInv
<1> QED BY <1>2, <1>3 DEF DebugRead

\* The command's nap ends.
LEMMA DebugWakeStep ==
  ASSUME MethInv, DebugWake
  PROVE  MethInv'
<1>1. /\ dpc = "nap" /\ dpc' = "loop"
      /\ UNCHANGED <<frame, pos, fifo, pc, uart2_received_data, methane_debug_active, debug_frame,
                     debug_valid_before, own, seen, debugs, reading, g_methane_data_valid,
                     methane_valid_frames, methane_invalid_frames>>
  BY DEF DebugWake, sensorVars, dataVars
<1>2. TypeOK' /\ Bytes'
  BY <1>1 DEF MethInv, TypeOK, Bytes, Partial
<1>3. FlagHeld' /\ ThreadOut' /\ CountsAreItsOwn'
  BY <1>1 DEF MethInv, FlagHeld, ThreadOut, CountsAreItsOwn
<1> QED BY <1>2, <1>3 DEF MethInv

\* The command drops its part of a frame with the flag.
LEMMA DebugEndStep ==
  ASSUME MethInv, DebugEnd
  PROVE  MethInv'
<1>1. /\ dpc = "loop" /\ dpc' = "idle" /\ methane_debug_active' = FALSE /\ debug_frame' = <<>>
      /\ UNCHANGED <<frame, pos, fifo, pc, uart2_received_data, debug_valid_before, own, seen,
                     debugs, reading, g_methane_data_valid, methane_valid_frames,
                     methane_invalid_frames>>
  BY DEF DebugEnd, sensorVars, dataVars
<1>2. methane_debug_active' \in BOOLEAN /\ dpc' \in {"idle", "settle", "first", "loop", "nap"}
  BY <1>1, Zenon
<1>3. debug_frame' \in Seq(Byte) /\ Partial(debug_frame)'
  BY <1>1 DEF Partial, PACKET_SIZE
<1>4. TypeOK' /\ Bytes'
  BY <1>1, <1>2, <1>3 DEF MethInv, TypeOK, Bytes, Partial
<1>5. FlagHeld' /\ ThreadOut' /\ CountsAreItsOwn'
  BY <1>1 DEF MethInv, FlagHeld, ThreadOut, CountsAreItsOwn
<1> QED BY <1>4, <1>5 DEF MethInv

\* Every step keeps the invariant.
LEMMA NextInv == MethInv /\ [Next]_vars => MethInv'
<1> SUFFICES ASSUME MethInv, [Next]_vars PROVE MethInv'
    OBVIOUS
<1>1. CASE SensorByte
  BY <1>1, SensorStep
<1>2. CASE Thread
  BY <1>2, TopStep, ReadStep, WakeStep DEF Thread
<1>3. CASE Debug
  BY <1>3, DebugBeginStep, DebugStartStep, DebugFailsStep, DebugReadStep, DebugWakeStep,
     DebugEndStep DEF Debug
<1>4. CASE UNCHANGED vars
  <2>1. TypeOK' /\ Bytes'
    BY <1>4 DEF MethInv, TypeOK, Bytes, Partial, vars
  <2>2. FlagHeld' /\ ThreadOut' /\ CountsAreItsOwn'
    BY <1>4 DEF MethInv, FlagHeld, ThreadOut, CountsAreItsOwn, vars
  <2> QED BY <2>1, <2>2 DEF MethInv
<1> QED BY <1>1, <1>2, <1>3, <1>4 DEF Next

\* The invariant holds in every reachable state.
LEMMA InvHolds == Spec => []MethInv
BY InitInv, NextInv, PTL DEF Spec

-----------------------------------------------------------------------------
(* The byte stream. *)

\* Byte p of frame k.
LEMMA SentAt ==
  ASSUME NEW fs, NEW k \in Nat, NEW p \in Nat, p < PACKET_SIZE
  PROVE  Sent(fs, PACKET_SIZE * k + p) = fs[k][p + 1]
<1>1. PACKET_SIZE * k + p \in Nat /\ p < 19 /\ PACKET_SIZE * k + p = 19 * k + p
  BY DEF PACKET_SIZE
<1>2. (19 * k + p) \div 19 = k /\ (19 * k + p) % 19 = p
  BY <1>1
<1> QED BY <1>1, <1>2 DEF Sent, PACKET_SIZE

\* Every byte of the stream is a byte of a frame.
LEMMA Position ==
  ASSUME NEW q \in Nat
  PROVE  \E k, p \in Nat : p < PACKET_SIZE /\ q = PACKET_SIZE * k + p
<1>1. q \div 19 \in Nat /\ q % 19 \in Nat /\ q % 19 < 19 /\ q = 19 * (q \div 19) + (q % 19)
  OBVIOUS
<1> QED BY <1>1 DEF PACKET_SIZE

\* Byte i of what is pending, from 1, when the bytes from number start on have been
\* received, those lost behind the first l excepted.
Origin(i, start, l, lost) == start + i - 1 + (IF i > l THEN lost ELSE 0)

\* b are the last bytes of the frames fs[0], fs[1], ... of which frame k, f, has
\* been sent as far as p, without the ones lost behind the first l.
Taken(b, f, p, fs, k, start, l, lost) ==
  /\ fs \in [Nat -> Frames] /\ k \in Nat /\ fs[k] = f /\ p \in Nat /\ p < PACKET_SIZE
  /\ start \in Nat /\ lost \in {0, 1} /\ l \in 0 .. Len(b)
  /\ start + Len(b) + lost = PACKET_SIZE * k + p
  /\ \A i \in 1 .. Len(b) : b[i] = Sent(fs, Origin(i, start, l, lost))

\* The frames of which one more byte has been sent: the next is byte p2 of f2.
OneMore(fs, k, p, f2, p2) ==
  \E fs2 \in [Nat -> Frames], k2 \in Nat :
    /\ fs2[k2] = f2 /\ p2 \in Nat /\ p2 < PACKET_SIZE
    /\ PACKET_SIZE * k2 + p2 = PACKET_SIZE * k + p + 1
    /\ \A q \in Nat : q < PACKET_SIZE * k + p + 1 => Sent(fs2, q) = Sent(fs, q)

\* The sensor sends a byte, of the same frame or the last of it.
LEMMA Advance ==
  ASSUME NEW fs \in [Nat -> Frames], NEW k \in Nat, NEW p \in Nat, p < PACKET_SIZE,
         NEW f2 \in Frames, NEW p2,
         p2 = (p + 1) % PACKET_SIZE, p + 1 # PACKET_SIZE => f2 = fs[k]
  PROVE  OneMore(fs, k, p, f2, p2)
<1>1. CASE p + 1 # PACKET_SIZE
  <2>1. p2 = p + 1 /\ p2 < PACKET_SIZE
    BY <1>1 DEF PACKET_SIZE
  <2>2. PACKET_SIZE * k + p2 = PACKET_SIZE * k + p + 1
    BY <2>1 DEF PACKET_SIZE
  <2> QED BY <1>1, <2>1, <2>2 DEF OneMore
<1>2. CASE p + 1 = PACKET_SIZE
  <2> DEFINE fs2 == [fs EXCEPT ![k + 1] = f2]
  <2>1. p2 = 0 /\ PACKET_SIZE * (k + 1) + p2 = PACKET_SIZE * k + p + 1 /\ p2 < PACKET_SIZE
    BY <1>2 DEF PACKET_SIZE
  <2>2. fs2 \in [Nat -> Frames] /\ fs2[k + 1] = f2
    OBVIOUS
  <2>3. ASSUME NEW q \in Nat, q < PACKET_SIZE * k + p + 1
        PROVE  Sent(fs2, q) = Sent(fs, q)
    <3>1. PICK j, r \in Nat : r < PACKET_SIZE /\ q = PACKET_SIZE * j + r
      BY Position
    <3>2. j # k + 1
      BY <1>2, <2>3, <3>1 DEF PACKET_SIZE
    <3>3. fs2[j] = fs[j]
      BY <3>2
    <3> HIDE DEF fs2
    <3> QED BY <3>1, <3>3, SentAt
  <2> HIDE DEF fs2
  <2>4. k + 1 \in Nat /\ p2 \in Nat
    BY <2>1
  <2> QED BY <2>1, <2>2, <2>3, <2>4 DEF OneMore
<1> QED BY <1>1, <1>2

\* A byte that is received.
LEMMA Grow ==
  ASSUME NEW b \in Seq(Byte), NEW f, NEW p, NEW fs, NEW k, NEW start, NEW l, NEW lost,
         Taken(b, f, p, fs, k, start, l, lost),
         NEW f2 \in Frames, NEW p2,
         p2 = (p + 1) % PACKET_SIZE, p + 1 # PACKET_SIZE => f2 = f, f[p + 1] \in Byte
  PROVE  \E fs2, k2 : Taken(Append(b, f[p + 1]), f2, p2, fs2, k2, start, l, lost)
<1>1. /\ fs \in [Nat -> Frames] /\ k \in Nat /\ fs[k] = f /\ p \in Nat /\ p < PACKET_SIZE
      /\ start \in Nat /\ lost \in {0, 1} /\ l \in 0 .. Len(b)
      /\ start + Len(b) + lost = PACKET_SIZE * k + p
      /\ \A i \in 1 .. Len(b) : b[i] = Sent(fs, Origin(i, start, l, lost))
  BY DEF Taken
<1>2. PICK fs2 \in [Nat -> Frames], k2 \in Nat :
           /\ fs2[k2] = f2 /\ p2 \in Nat /\ p2 < PACKET_SIZE
           /\ PACKET_SIZE * k2 + p2 = PACKET_SIZE * k + p + 1
           /\ \A q \in Nat : q < PACKET_SIZE * k + p + 1 => Sent(fs2, q) = Sent(fs, q)
  <2>1. OneMore(fs, k, p, f2, p2)
    BY <1>1, Advance
  <2> QED BY <2>1 DEF OneMore
<1>3. PICK c \in Seq(Byte) : c = Append(b, f[p + 1])
  <2>1. Append(b, f[p + 1]) \in Seq(Byte)
    BY AppendProperties
  <2> QED BY <2>1
<1>4. /\ Len(c) = Len(b) + 1 /\ Len(b) \in Nat /\ c[Len(b) + 1] = f[p + 1]
      /\ \A i \in 1 .. Len(b) : c[i] = b[i]
  BY <1>3
<1>5. PICK t \in Nat : t = PACKET_SIZE * k + p
  BY <1>1 DEF PACKET_SIZE
<1>6. ASSUME NEW i \in 1 .. Len(c)
      PROVE  c[i] = Sent(fs2, Origin(i, start, l, lost))
  <2>1. Origin(i, start, l, lost) \in Nat /\ Origin(i, start, l, lost) < t + 1
    BY <1>1, <1>4, <1>5 DEF Origin
  <2>2. Sent(fs2, Origin(i, start, l, lost)) = Sent(fs, Origin(i, start, l, lost))
    BY <1>2, <1>5, <2>1
  <2>3. CASE i \in 1 .. Len(b)
    BY <1>1, <1>4, <2>2, <2>3
  <2>4. CASE i = Len(b) + 1
    <3>0. start + Len(b) + lost = t
      BY <1>1, <1>5
    <3>1. start \in Nat /\ lost \in Nat /\ l \in Nat /\ l <= Len(b) /\ Len(b) \in Nat
      BY <1>1, <1>4
    <3>2. Origin(i, start, l, lost) = start + Len(b) + lost
      BY <2>4, <3>1 DEF Origin
    <3>3. Origin(i, start, l, lost) = t
      BY <3>0, <3>2
    <3>4. Sent(fs, t) = f[p + 1]
      BY <1>1, <1>5, SentAt
    <3> QED BY <1>4, <2>2, <2>4, <3>3, <3>4
  <2> QED BY <1>4, <2>3, <2>4
<1>7. start + Len(c) + lost = PACKET_SIZE * k2 + p2
  BY <1>1, <1>2, <1>4, <1>5
<1>8. l \in 0 .. Len(c)
  BY <1>1, <1>4
<1> QED BY <1>1, <1>2, <1>3, <1>6, <1>7, <1>8 DEF Taken

\* A byte that is lost: it would have been the next.
LEMMA Lose ==
  ASSUME NEW b \in Seq(Byte), NEW f, NEW p, NEW fs, NEW k, NEW start, NEW l,
         Taken(b, f, p, fs, k, start, l, 0),
         NEW f2 \in Frames, NEW p2,
         p2 = (p + 1) % PACKET_SIZE, p + 1 # PACKET_SIZE => f2 = f
  PROVE  \E fs2, k2 : Taken(b, f2, p2, fs2, k2, start, Len(b), 1)
<1>1. /\ fs \in [Nat -> Frames] /\ k \in Nat /\ fs[k] = f /\ p \in Nat /\ p < PACKET_SIZE
      /\ start \in Nat /\ l \in 0 .. Len(b)
      /\ start + Len(b) + 0 = PACKET_SIZE * k + p
      /\ \A i \in 1 .. Len(b) : b[i] = Sent(fs, Origin(i, start, l, 0))
  BY DEF Taken
<1>2. PICK fs2 \in [Nat -> Frames], k2 \in Nat :
           /\ fs2[k2] = f2 /\ p2 \in Nat /\ p2 < PACKET_SIZE
           /\ PACKET_SIZE * k2 + p2 = PACKET_SIZE * k + p + 1
           /\ \A q \in Nat : q < PACKET_SIZE * k + p + 1 => Sent(fs2, q) = Sent(fs, q)
  <2>1. OneMore(fs, k, p, f2, p2)
    BY <1>1, Advance
  <2> QED BY <2>1 DEF OneMore
<1>3. PICK t \in Nat : t = PACKET_SIZE * k + p
  BY <1>1 DEF PACKET_SIZE
<1>4. Len(b) \in Nat
  OBVIOUS
<1>5. ASSUME NEW i \in 1 .. Len(b)
      PROVE  b[i] = Sent(fs2, Origin(i, start, Len(b), 1))
  <2>1. Origin(i, start, l, 0) \in Nat /\ Origin(i, start, l, 0) < t + 1
    BY <1>1, <1>3, <1>4 DEF Origin
  <2>2. Origin(i, start, Len(b), 1) = Origin(i, start, l, 0)
    BY <1>1, <1>4 DEF Origin
  <2> QED BY <1>1, <1>2, <1>3, <2>1, <2>2
<1>6. start + Len(b) + 1 = PACKET_SIZE * k2 + p2 /\ Len(b) \in 0 .. Len(b) /\ 1 \in {0, 1}
  BY <1>1, <1>2, <1>3, <1>4
<1> QED BY <1>1, <1>2, <1>5, <1>6 DEF Taken

\* The d oldest bytes are dropped.
LEMMA Drop ==
  ASSUME NEW b \in Seq(Byte), NEW f, NEW p, NEW fs, NEW k, NEW start, NEW l, NEW lost,
         Taken(b, f, p, fs, k, start, l, lost),
         NEW c \in Seq(Byte), NEW d \in Nat, Len(b) = d + Len(c),
         \A i \in 1 .. Len(c) : c[i] = b[d + i]
  PROVE  \/ d < l /\ Taken(c, f, p, fs, k, start + d, l - d, lost)
         \/ d >= l /\ Taken(c, f, p, fs, k, start + d + lost, 0, 0)
<1>1. /\ fs \in [Nat -> Frames] /\ k \in Nat /\ fs[k] = f /\ p \in Nat /\ p < PACKET_SIZE
      /\ start \in Nat /\ lost \in {0, 1} /\ l \in 0 .. Len(b)
      /\ start + Len(b) + lost = PACKET_SIZE * k + p
      /\ \A i \in 1 .. Len(b) : b[i] = Sent(fs, Origin(i, start, l, lost))
  BY DEF Taken
<1>2. Len(b) \in Nat /\ Len(c) \in Nat
  OBVIOUS
<1>3. PICK t \in Nat : t = PACKET_SIZE * k + p
  BY <1>1 DEF PACKET_SIZE
<1>4. CASE d < l
  <2>1. start + d \in Nat /\ l - d \in 0 .. Len(c) /\ start + d + Len(c) + lost = t
    BY <1>1, <1>2, <1>3, <1>4
  <2>2. ASSUME NEW i \in 1 .. Len(c)
        PROVE  c[i] = Sent(fs, Origin(i, start + d, l - d, lost))
    <3>1. d + i \in 1 .. Len(b) /\ Origin(i, start + d, l - d, lost) = Origin(d + i, start, l, lost)
      BY <1>1, <1>2, <1>4 DEF Origin
    <3> QED BY <1>1, <3>1
  <2> QED BY <1>1, <1>3, <1>4, <2>1, <2>2 DEF Taken
<1>5. CASE d >= l
  <2>1. start + d + lost \in Nat /\ 0 \in 0 .. Len(c) /\ start + d + lost + Len(c) + 0 = t
    BY <1>1, <1>2, <1>3, <1>5
  <2>2. ASSUME NEW i \in 1 .. Len(c)
        PROVE  c[i] = Sent(fs, Origin(i, start + d + lost, 0, 0))
    <3>1. d + i \in 1 .. Len(b) /\ Origin(i, start + d + lost, 0, 0) = Origin(d + i, start, l, lost)
      BY <1>1, <1>2, <1>5 DEF Origin
    <3> QED BY <1>1, <3>1
  <2> QED BY <1>1, <1>3, <1>5, <2>1, <2>2 DEF Taken
<1> QED BY <1>1, <1>2, <1>4, <1>5

\* c is b without its d oldest bytes.
Dropped(b, c, d) ==
  c \in Seq(Byte) /\ Len(b) = d + Len(c) /\ \A i \in 1 .. Len(c) : c[i] = b[d + i]

\* What stands behind s without s.
LEMMA DropConcat ==
  ASSUME NEW s \in Seq(Byte), NEW t \in Seq(Byte)
  PROVE  s \o t \in Seq(Byte) /\ Len(s) \in Nat /\ Dropped(s \o t, t, Len(s))
<1>1. /\ s \o t \in Seq(Byte) /\ Len(s \o t) = Len(s) + Len(t) /\ Len(s) \in Nat /\ Len(t) \in Nat
      /\ \A i \in 1 .. Len(s) + Len(t) : (s \o t)[i] = IF i <= Len(s) THEN s[i] ELSE t[i - Len(s)]
  BY ConcatProperties
<1>2. PICK c \in Seq(Byte) : c = s \o t
  BY <1>1
<1>3. ASSUME NEW i \in 1 .. Len(t)
      PROVE  t[i] = c[Len(s) + i]
  BY <1>1, <1>2
<1> QED BY <1>1, <1>2, <1>3 DEF Dropped

\* A byte moves from the front of t to the end of s.
LEMMA MoveByte ==
  ASSUME NEW s \in Seq(Byte), NEW t \in Seq(Byte), t # <<>>
  PROVE  /\ Append(s, Head(t)) \in Seq(Byte) /\ Tail(t) \in Seq(Byte)
         /\ Len(Append(s, Head(t))) = Len(s) + 1
         /\ Append(s, Head(t)) \o Tail(t) = s \o t
<1>1. Head(t) \in Byte /\ Tail(t) \in Seq(Byte) /\ Len(Tail(t)) = Len(t) - 1
        /\ Head(t) = t[1] /\ \A i \in 1 .. Len(Tail(t)) : Tail(t)[i] = t[i + 1]
  BY HeadTailProperties
<1>2. PICK h \in Byte, u \in Seq(Byte) : h = Head(t) /\ u = Tail(t)
  BY <1>1
<1>3. PICK r \in Seq(Byte) : r = Append(s, h)
  BY AppendProperties
<1>4. /\ Len(r) = Len(s) + 1 /\ Len(s) \in Nat /\ r[Len(s) + 1] = h
      /\ \A i \in 1 .. Len(s) : r[i] = s[i]
  BY <1>3
<1>5. Len(t) \in Nat /\ Len(t) >= 1 /\ Len(u) \in Nat /\ Len(u) = Len(t) - 1
        /\ h = t[1] /\ \A i \in 1 .. Len(u) : u[i] = t[i + 1]
  BY <1>1, <1>2
<1>6. /\ r \o u \in Seq(Byte) /\ Len(r \o u) = Len(r) + Len(u)
      /\ \A i \in 1 .. Len(r) + Len(u) : (r \o u)[i] = IF i <= Len(r) THEN r[i] ELSE u[i - Len(r)]
  BY ConcatProperties
<1>7. /\ s \o t \in Seq(Byte) /\ Len(s \o t) = Len(s) + Len(t)
      /\ \A i \in 1 .. Len(s) + Len(t) : (s \o t)[i] = IF i <= Len(s) THEN s[i] ELSE t[i - Len(s)]
  BY ConcatProperties
<1>8. PICK v, w \in Seq(Byte) : v = r \o u /\ w = s \o t
  BY <1>6, <1>7
<1>9. Len(v) = Len(w) /\ Len(w) = Len(s) + Len(t) /\ Len(v) = Len(r) + Len(u)
  <2>1. Len(w) = Len(s) + Len(t) /\ Len(v) = Len(r) + Len(u)
    BY <1>6, <1>7, <1>8, Zenon
  <2> QED BY <1>4, <1>5, <2>1
<1>10. ASSUME NEW i \in 1 .. Len(w)
       PROVE  v[i] = w[i]
  <2>1. v[i] = (IF i <= Len(r) THEN r[i] ELSE u[i - Len(r)])
          /\ w[i] = (IF i <= Len(s) THEN s[i] ELSE t[i - Len(s)])
    BY <1>6, <1>7, <1>8, <1>9
  <2>2. CASE i <= Len(s)
    BY <1>4, <2>1, <2>2
  <2>3. CASE i = Len(s) + 1
    BY <1>4, <1>5, <2>1, <2>3
  <2>4. CASE i > Len(s) + 1
    <3>0. i - Len(r) \in 1 .. Len(u) /\ i - Len(s) = (i - Len(r)) + 1
      BY <1>4, <1>5, <1>9, <2>4
    <3>1. PICK j \in 1 .. Len(u) : i - Len(r) = j /\ i - Len(s) = j + 1
      BY <3>0
    <3>2. v[i] = u[j] /\ w[i] = t[j + 1]
      BY <1>4, <2>1, <2>4, <3>1
    <3> QED BY <1>5, <3>1, <3>2
  <2> QED BY <1>4, <1>9, <2>2, <2>3, <2>4
<1>11. v = w
  BY <1>9, <1>10, SeqEqual
<1> QED BY <1>2, <1>3, <1>4, <1>8, <1>11

\* A reader with the bytes s takes the next and keeps it;
KeepsByte(s, s2) ==
  s2 \o fifo' = s \o fifo /\ Len(s2) = Len(s) + 1 /\ UNCHANGED dataVars

\* it looks for a header, has not found one and drops what it has;
DropsHeader(s, s2) ==
  /\ s2 = <<>> /\ Dropped(s \o fifo, s2 \o fifo', Len(s) + 1) /\ UNCHANGED dataVars
  /\ Len(s) < 2 /\ fifo # <<>> /\ (s \o fifo)[Len(s) + 1] # 172

\* or it has a frame, checks it and drops it.
ChecksFrame(s, s2) ==
  /\ s2 = <<>> /\ Dropped(s \o fifo, s2 \o fifo', PACKET_SIZE)
  /\ \E c \in Seq(Byte) : /\ Len(c) = PACKET_SIZE /\ FrameCheck(c)
                          /\ \A i \in 1 .. PACKET_SIZE : c[i] = (s \o fifo)[i]

\* There is nothing else a reader does with a byte.
LEMMA TakeCases ==
  ASSUME NEW s \in Seq(Byte), Len(s) < PACKET_SIZE, fifo \in Seq(Byte), NEW s2, TakeByte(s, s2)
  PROVE  KeepsByte(s, s2) \/ DropsHeader(s, s2) \/ ChecksFrame(s, s2)
<1>1. fifo # <<>> /\ fifo' = Tail(fifo)
  BY DEF TakeByte
<1>2. PICK t : t = fifo
  OBVIOUS
<1>3. PICK c, u \in Seq(Byte) : c = Append(s, Head(t)) /\ u = Tail(t)
  BY <1>1, <1>2, MoveByte
<1>4. Len(c) = Len(s) + 1 /\ c \o u = s \o t
  BY <1>1, <1>2, <1>3, MoveByte
<1>5. c \o u \in Seq(Byte) /\ Dropped(c \o u, u, Len(c))
  BY DropConcat
<1>6. <<>> \o u = u
  BY ConcatEmptySeq
<1>7. \A i \in 1 .. Len(c) : (c \o u)[i] = c[i]
  BY ConcatProperties
<1>8. CASE Len(s) >= 2 \/ Head(t) = 172
  <2>1. Collect(s, Head(t)) = c
    BY <1>3, <1>8 DEF Collect
  <2>2. CASE Len(c) < PACKET_SIZE /\ s2 = c /\ UNCHANGED dataVars
    BY <1>1, <1>2, <1>3, <1>4, <2>2 DEF KeepsByte
  <2>3. CASE Len(c) = PACKET_SIZE /\ s2 = <<>> /\ FrameCheck(c)
    <3>1. Dropped(s \o t, <<>> \o u, PACKET_SIZE)
      BY <1>4, <1>5, <1>6, <2>3
    <3>2. \A i \in 1 .. PACKET_SIZE : c[i] = (s \o t)[i]
      BY <1>4, <1>7, <2>3
    <3> QED BY <1>1, <1>2, <1>3, <2>3, <3>1, <3>2 DEF ChecksFrame
  <2> QED BY <1>2, <2>1, <2>2, <2>3 DEF TakeByte
<1>9. CASE ~(Len(s) >= 2 \/ Head(t) = 172)
  <2>1. Collect(s, Head(t)) = <<>> /\ Len(s) < 2 /\ Head(t) # 172
    BY <1>9 DEF Collect
  <2>2. s2 = <<>> /\ UNCHANGED dataVars
    <3>1. Len(<<>>) # PACKET_SIZE
      BY DEF PACKET_SIZE
    <3> QED BY <1>2, <2>1, <3>1 DEF TakeByte
  <2>3. Dropped(s \o t, <<>> \o u, Len(s) + 1)
    BY <1>4, <1>5, <1>6
  <2>4. c[Len(s) + 1] = Head(t)
    BY <1>1, <1>2, <1>3, AppendProperties, HeadTailProperties
  <2>5. (s \o t)[Len(s) + 1] # 172
    BY <1>4, <1>7, <2>1, <2>4
  <2> QED BY <1>1, <1>2, <1>3, <2>1, <2>2, <2>3, <2>5 DEF DropsHeader
<1> QED BY <1>8, <1>9

\* A function on 1 .. n is a sequence.
LEMMA FunctionIsSeq ==
  ASSUME NEW S, NEW n \in Nat, NEW f \in [1 .. n -> S]
  PROVE  f \in Seq(S) /\ Len(f) = n
OBVIOUS

\* A byte of two frames, one behind the other.
LEMMA TwoFrames ==
  ASSUME NEW f1 \in Frames, NEW f2 \in Frames, NEW q \in Nat, q < 2 * PACKET_SIZE
  PROVE  (f1 \o f2)[q + 1] = IF q < PACKET_SIZE THEN f1[q + 1] ELSE f2[(q - PACKET_SIZE) + 1]
<1>1. PICK n \in Nat : n = PACKET_SIZE
  BY DEF PACKET_SIZE
<1>2. f1 \in [1 .. n -> Byte] /\ f2 \in [1 .. n -> Byte]
  BY <1>1, MethaneAssumption
<1>3. f1 \in Seq(Byte) /\ f2 \in Seq(Byte) /\ Len(f1) = n /\ Len(f2) = n
  BY <1>2, FunctionIsSeq
<1>4. \A i \in 1 .. n + n : (f1 \o f2)[i] = IF i <= n THEN f1[i] ELSE f2[i - n]
  <2>1. \A i \in 1 .. Len(f1) + Len(f2) :
          (f1 \o f2)[i] = IF i <= Len(f1) THEN f1[i] ELSE f2[i - Len(f1)]
    BY <1>3, ConcatProperties
  <2> QED BY <1>3, <2>1, Zenon
<1>5. q + 1 \in 1 .. n + n /\ (q + 1) - n = (q - n) + 1 /\ (q + 1 <= n <=> q < n)
  BY <1>1
<1>6. (f1 \o f2)[q + 1] = IF q + 1 <= n THEN f1[q + 1] ELSE f2[(q + 1) - n]
  BY <1>4, <1>5
<1> QED BY <1>1, <1>5, <1>6

\* A byte of the stream, from the frame and the one behind it.
LEMMA SentNear ==
  ASSUME NEW fs \in [Nat -> Frames], NEW j \in Nat, NEW q \in Nat, q < 2 * PACKET_SIZE
  PROVE  Sent(fs, PACKET_SIZE * j + q) = (fs[j] \o fs[j + 1])[q + 1]
<1>1. fs[j] \in Frames /\ fs[j + 1] \in Frames /\ j + 1 \in Nat
  OBVIOUS
<1>2. (fs[j] \o fs[j + 1])[q + 1]
         = IF q < PACKET_SIZE THEN fs[j][q + 1] ELSE fs[j + 1][(q - PACKET_SIZE) + 1]
  BY <1>1, TwoFrames
<1>3. CASE q < PACKET_SIZE
  BY <1>2, <1>3, SentAt
<1>4. CASE q >= PACKET_SIZE
  <2>1. q - PACKET_SIZE \in Nat /\ q - PACKET_SIZE < PACKET_SIZE /\ ~(q < PACKET_SIZE)
          /\ PACKET_SIZE * j + q = PACKET_SIZE * (j + 1) + (q - PACKET_SIZE)
    BY <1>4 DEF PACKET_SIZE
  <2>2. Sent(fs, PACKET_SIZE * (j + 1) + (q - PACKET_SIZE)) = fs[j + 1][(q - PACKET_SIZE) + 1]
    BY <1>1, <2>1, SentAt
  <2>3. (fs[j] \o fs[j + 1])[q + 1] = fs[j + 1][(q - PACKET_SIZE) + 1]
    BY <1>2, <2>1, Zenon
  <2>4. Sent(fs, PACKET_SIZE * j + q) = Sent(fs, PACKET_SIZE * (j + 1) + (q - PACKET_SIZE))
    BY <2>1, Zenon
  <2> QED BY <2>2, <2>3, <2>4, Zenon
<1>5. q < PACKET_SIZE \/ q >= PACKET_SIZE
  BY DEF PACKET_SIZE
<1> QED BY <1>3, <1>4, <1>5

\* The 19 oldest bytes are a window on two frames.
LEMMA FirstBytes ==
  ASSUME NEW b \in Seq(Byte), NEW f, NEW p, NEW fs, NEW k, NEW start, NEW l, NEW lost,
         Taken(b, f, p, fs, k, start, l, lost),
         NEW c \in Seq(Byte), Len(c) = PACKET_SIZE, Len(b) >= PACKET_SIZE,
         \A i \in 1 .. PACKET_SIZE : c[i] = b[i]
  PROVE  \E f1, f2 \in Frames, r \in 0 .. PACKET_SIZE - 1, m \in 0 .. PACKET_SIZE :
           c = Window(f1, f2, r, m)
<1>1. /\ fs \in [Nat -> Frames] /\ start \in Nat /\ lost \in {0, 1} /\ l \in 0 .. Len(b)
      /\ \A i \in 1 .. Len(b) : b[i] = Sent(fs, Origin(i, start, l, lost))
  BY DEF Taken
<1>2. PICK n \in Nat : n = PACKET_SIZE
  BY DEF PACKET_SIZE
<1>3. PICK j, r \in Nat : r < PACKET_SIZE /\ start = PACKET_SIZE * j + r
  BY <1>1, Position
<1>4. PICK m \in 0 .. n : m = IF lost = 1 /\ l <= n THEN l ELSE n
  <2>1. (IF lost = 1 /\ l <= n THEN l ELSE n) \in 0 .. n
    BY <1>1
  <2> QED BY <2>1
<1>5. fs[j] \in Frames /\ fs[j + 1] \in Frames
  BY <1>1
<1>6. ASSUME NEW i \in 1 .. n
      PROVE  c[i] = (fs[j] \o fs[j + 1])[r + i + (IF i > m THEN 1 ELSE 0)]
  <2>1. Len(b) \in Nat /\ i \in 1 .. Len(b) /\ i \in Nat /\ i >= 1 /\ i <= n /\ r < n
    BY <1>2, <1>3
  <2>2. PICK e \in {0, 1} : e = IF i > m THEN 1 ELSE 0
    OBVIOUS
  <2>3. PICK q \in Nat : q = r + i - 1 + e
    BY <2>1
  <2>4. q < n + n /\ q + 1 = r + i + e
    BY <2>1, <2>3
  <2>5. PICK g \in Nat : g = PACKET_SIZE * j
    BY DEF PACKET_SIZE
  <2>6. (IF i > l THEN lost ELSE 0) = e
    BY <1>1, <1>4, <2>1, <2>2
  <2>7. Origin(i, start, l, lost) = g + q
    <3>1. Origin(i, start, l, lost) = start + i - 1 + e
      BY <2>6, Zenon DEF Origin
    <3>2. start = g + r
      BY <1>3, <2>5
    <3>3. g \in Nat /\ r \in Nat /\ i \in Nat /\ e \in Nat
      BY <1>3, <2>1, <2>2, <2>5
    <3>4. (g + r) + i - 1 + e = g + q
      BY <2>3, <3>3
    <3> QED BY <3>1, <3>2, <3>4, Zenon
  <2>8. Sent(fs, g + q) = (fs[j] \o fs[j + 1])[q + 1]
    <3>1. q < 2 * PACKET_SIZE
      BY <1>2, <2>4
    <3> QED BY <1>1, <2>5, <3>1, SentNear
  <2>9. c[i] = b[i] /\ b[i] = Sent(fs, Origin(i, start, l, lost))
    BY <1>1, <1>2, <2>1
  <2> QED BY <2>2, <2>4, <2>7, <2>8, <2>9
<1>7. c = [i \in 1 .. n |-> c[i]]
  BY <1>2
<1>8. c = [i \in 1 .. n |-> (fs[j] \o fs[j + 1])[r + i + (IF i > m THEN 1 ELSE 0)]]
  BY <1>6, <1>7
<1>9. c = Window(fs[j], fs[j + 1], r, m)
  BY <1>2, <1>8 DEF Window
<1>10. r \in 0 .. PACKET_SIZE - 1 /\ m \in 0 .. PACKET_SIZE
  BY <1>2, <1>3
<1> QED BY <1>5, <1>9, <1>10

-----------------------------------------------------------------------------
(* What is pending, step by step. *)

\* Only one of the readers has something.
PendingParts ==
  /\ Pending \in Seq(Byte)
  /\ debug_frame = <<>> => Pending = uart2_received_data \o fifo
  /\ uart2_received_data = <<>> => Pending = debug_frame \o fifo

\* That follows from what the readers handle being bytes.
LEMMA PendingFacts == Bytes => PendingParts
<1> SUFFICES ASSUME Bytes PROVE PendingParts
    OBVIOUS
<1>1. fifo \in Seq(Byte) /\ uart2_received_data \in Seq(Byte) /\ debug_frame \in Seq(Byte)
  BY DEF Bytes
<1>2. Pending = (uart2_received_data \o debug_frame) \o fifo
  BY DEF Pending
<1>3. uart2_received_data \o debug_frame \in Seq(Byte)
  BY <1>1, ConcatProperties
<1>4. Pending \in Seq(Byte)
  BY <1>1, <1>2, <1>3, ConcatProperties
<1>5. uart2_received_data \o <<>> = uart2_received_data /\ <<>> \o debug_frame = debug_frame
  BY <1>1, ConcatEmptySeq
<1> QED BY <1>2, <1>4, <1>5, Zenon DEF PendingParts

\* A byte has been lost behind the first l pending ones only while uart2_debug runs,
\* which has read up to there once it has slept.
LostInDebug(l, lost) ==
  lost = 1 => /\ dpc \in {"first", "loop", "nap"}
              /\ dpc # "first" => l <= Len(debug_frame)

\* What is pending is what the sensor has sent, one byte at most excepted.
StreamInv ==
  \E fs, k, start, l, lost :
    Taken(Pending, frame, pos, fs, k, start, l, lost) /\ LostInDebug(l, lost)

\* At the start nothing is pending.
LEMMA StreamInit == Init => StreamInv
<1> SUFFICES ASSUME Init PROVE StreamInv
    OBVIOUS
<1>1. fifo = <<>> /\ uart2_received_data = <<>> /\ debug_frame = <<>> /\ frame \in Frames
        /\ pos \in Nat /\ pos < PACKET_SIZE
  BY DEF Init, PACKET_SIZE
<1>2. <<>> \o <<>> = <<>> /\ Len(<<>>) = 0
  BY ConcatEmptySeq, EmptySeq
<1>3. Pending = <<>>
  BY <1>1, <1>2 DEF Pending
<1>4. PICK fs : fs = [j \in Nat |-> frame]
  OBVIOUS
<1>5. fs \in [Nat -> Frames] /\ fs[0] = frame
  BY <1>1, <1>4
<1>6. pos + 0 + 0 = PACKET_SIZE * 0 + pos /\ 0 \in 0 .. 0
  BY <1>1 DEF PACKET_SIZE
<1>7. \A i \in 1 .. 0 : <<>>[i] = Sent(fs, Origin(i, pos, 0, 0))
  OBVIOUS
<1>8. Taken(<<>>, frame, pos, fs, 0, pos, 0, 0)
  BY <1>1, <1>2, <1>5, <1>6, <1>7 DEF Taken
<1>9. LostInDebug(0, 0)
  BY DEF LostInDebug
<1> QED BY <1>3, <1>8, <1>9 DEF StreamInv

\* A step that moves no byte but within a reader.
LEMMA StreamKept ==
  ASSUME StreamInv, Pending' = Pending, frame' = frame, pos' = pos,
         \A l, lost : l \in 0 .. Len(Pending) /\ LostInDebug(l, lost) => LostInDebug(l, lost)'
  PROVE  StreamInv'
<1>1. PICK fs, k, start, l, lost :
        Taken(Pending, frame, pos, fs, k, start, l, lost) /\ LostInDebug(l, lost)
  BY DEF StreamInv
<1>2. l \in 0 .. Len(Pending)
  BY <1>1 DEF Taken
<1>3. LostInDebug(l, lost)' /\ Taken(Pending', frame', pos', fs, k, start, l, lost)
  BY <1>1, <1>2
<1> QED BY <1>3 DEF StreamInv

\* A step that drops bytes.
LEMMA StreamDropped ==
  ASSUME StreamInv, Pending \in Seq(Byte), NEW d \in Nat, Dropped(Pending, Pending', d),
         frame' = frame, pos' = pos,
         \A l, lost : l \in 0 .. Len(Pending) /\ d < l /\ LostInDebug(l, lost)
                        => LostInDebug(l - d, lost)'
  PROVE  StreamInv'
<1>1. PICK fs, k, start, l, lost :
        Taken(Pending, frame, pos, fs, k, start, l, lost) /\ LostInDebug(l, lost)
  BY DEF StreamInv
<1>2. l \in 0 .. Len(Pending)
  BY <1>1 DEF Taken
<1>3. PICK c \in Seq(Byte) : c = Pending'
  BY DEF Dropped
<1>4. Len(Pending) = d + Len(c) /\ \A i \in 1 .. Len(c) : c[i] = Pending[d + i]
  BY <1>3 DEF Dropped
<1>5. \/ d < l /\ Taken(c, frame, pos, fs, k, start + d, l - d, lost)
      \/ d >= l /\ Taken(c, frame, pos, fs, k, start + d + lost, 0, 0)
  BY <1>1, <1>4, Drop
<1>6. CASE d < l /\ Taken(c, frame, pos, fs, k, start + d, l - d, lost)
  <2>1. LostInDebug(l - d, lost)'
    BY <1>1, <1>2, <1>6
  <2>2. Taken(Pending', frame', pos', fs, k, start + d, l - d, lost)
    BY <1>3, <1>6
  <2> QED BY <2>1, <2>2 DEF StreamInv
<1>7. CASE d >= l /\ Taken(c, frame, pos, fs, k, start + d + lost, 0, 0)
  <2>1. LostInDebug(0, 0)'
    BY DEF LostInDebug
  <2>2. Taken(Pending', frame', pos', fs, k, start + d + lost, 0, 0)
    BY <1>3, <1>7
  <2> QED BY <2>1, <2>2 DEF StreamInv
<1> QED BY <1>5, <1>6, <1>7

\* A byte that is received is the last pending one.
LEMMA PendingAppend ==
  ASSUME Bytes, NEW byte \in Byte, fifo' = Append(fifo, byte),
         UNCHANGED <<uart2_received_data, debug_frame>>
  PROVE  Pending' = Append(Pending, byte)
<1>1. fifo \in Seq(Byte) /\ uart2_received_data \in Seq(Byte) /\ debug_frame \in Seq(Byte)
  BY DEF Bytes
<1>2. PICK s \in Seq(Byte) : s = uart2_received_data \o debug_frame
  BY <1>1, ConcatProperties
<1>3. s \o Append(fifo, byte) = Append(s \o fifo, byte)
  BY <1>1
<1> QED BY <1>2, <1>3 DEF Pending

\* The sensor's byte is the next of the stream.
LEMMA StreamSensor ==
  ASSUME MethInv, MethInv', StreamInv, SensorByte
  PROVE  StreamInv'
<1>1. PICK fs, k, start, l, lost :
        Taken(Pending, frame, pos, fs, k, start, l, lost) /\ LostInDebug(l, lost)
  BY DEF StreamInv
<1>2. /\ fifo' = Append(fifo, frame[pos + 1]) /\ pos' = (pos + 1) % PACKET_SIZE
      /\ pos + 1 # PACKET_SIZE => frame' = frame
      /\ UNCHANGED <<uart2_received_data, debug_frame, dpc>>
  BY DEF SensorByte, NextByte, debugVars, commandVars
<1>3. frame[pos + 1] \in Byte /\ frame' \in Frames
  <2>1. frame' \in Frames
    BY DEF MethInv, TypeOK
  <2> QED BY <2>1, CurrentByte
<1>4. Pending \in Seq(Byte)
  BY PendingFacts DEF MethInv, PendingParts
<1>5. Pending' = Append(Pending, frame[pos + 1])
  BY <1>2, <1>3, PendingAppend DEF MethInv
<1>6. \E fs2, k2 : Taken(Append(Pending, frame[pos + 1]), frame', pos', fs2, k2, start, l, lost)
  BY <1>1, <1>2, <1>3, <1>4, Grow
<1>7. LostInDebug(l, lost)'
  BY <1>1, <1>2 DEF LostInDebug
<1> QED BY <1>5, <1>6, <1>7 DEF StreamInv

\* What a checked frame publishes was sent.
LEMMA Publication ==
  ASSUME Unambiguous, StreamInv, PublishedWasSent, Pending \in Seq(Byte),
         NEW c \in Seq(Byte), Len(c) = PACKET_SIZE, FrameCheck(c), Len(Pending) >= PACKET_SIZE,
         \A i \in 1 .. PACKET_SIZE : c[i] = Pending[i]
  PROVE  PublishedWasSent'
<1>1. CASE ~ValidFrame(c)
  <2>1. reading' = reading /\ g_methane_data_valid' = g_methane_data_valid
    BY <1>1 DEF FrameCheck
  <2> QED BY <2>1 DEF PublishedWasSent
<1>2. CASE ValidFrame(c)
  <2>1. reading' = Reading(c)
    BY <1>2 DEF FrameCheck
  <2>2. PICK fs, k, start, l, lost : Taken(Pending, frame, pos, fs, k, start, l, lost)
    BY DEF StreamInv
  <2>3. PICK f1, f2 \in Frames, r \in 0 .. PACKET_SIZE - 1, m \in 0 .. PACKET_SIZE :
          c = Window(f1, f2, r, m)
    BY <2>2, FirstBytes
  <2>4. \E f \in Frames : Reading(c) = Reading(f)
    BY <1>2, <2>3 DEF Unambiguous
  <2> QED BY <2>1, <2>4 DEF PublishedWasSent
<1> QED BY <1>1, <1>2

\* Steps that check no frame.
LEMMA NotPublished ==
  ASSUME PublishedWasSent, UNCHANGED dataVars
  PROVE  PublishedWasSent'
BY DEF PublishedWasSent, dataVars

\* A reader with the bytes s takes one.
LEMMA StreamTake ==
  ASSUME MethInv, MethInv', StreamInv, Unambiguous, PublishedWasSent,
         NEW s \in Seq(Byte), Len(s) < PACKET_SIZE, NEW s2, TakeByte(s, s2),
         Pending = s \o fifo, Pending' = s2 \o fifo', frame' = frame, pos' = pos,
         Len(s2) = Len(s) + 1 =>
           \A l, lost : l \in 0 .. Len(Pending) /\ LostInDebug(l, lost) => LostInDebug(l, lost)',
         \A d, l, lost : /\ d \in Nat /\ d >= Len(s) + 1
                         /\ l \in 0 .. Len(Pending) /\ d < l /\ LostInDebug(l, lost)
                         => LostInDebug(l - d, lost)'
  PROVE  StreamInv' /\ PublishedWasSent'
<1>1. fifo \in Seq(Byte) /\ Pending \in Seq(Byte)
  BY PendingFacts DEF MethInv, Bytes, PendingParts
<1>2. CASE KeepsByte(s, s2)
  <2>1. StreamInv'
    BY <1>2, StreamKept DEF KeepsByte
  <2> QED BY <1>2, <2>1, NotPublished DEF KeepsByte
<1>3. CASE DropsHeader(s, s2)
  <2>1. PICK d \in Nat : d = Len(s) + 1
    OBVIOUS
  <2>2. Dropped(Pending, Pending', d)
    BY <1>3, <2>1 DEF DropsHeader
  <2>3. \A l, lost : l \in 0 .. Len(Pending) /\ d < l /\ LostInDebug(l, lost)
                       => LostInDebug(l - d, lost)'
    <3>1. d >= Len(s) + 1
      BY <2>1
    <3> QED BY <3>1
  <2>4. StreamInv'
    BY <1>1, <2>2, <2>3, StreamDropped
  <2> QED BY <1>3, <2>4, NotPublished DEF DropsHeader
<1>4. CASE ChecksFrame(s, s2)
  <2>1. PICK d \in Nat : d = PACKET_SIZE
    BY DEF PACKET_SIZE
  <2>2. Dropped(Pending, Pending', d)
    BY <1>4, <2>1 DEF ChecksFrame
  <2>3. \A l, lost : l \in 0 .. Len(Pending) /\ d < l /\ LostInDebug(l, lost)
                       => LostInDebug(l - d, lost)'
    <3>1. d >= Len(s) + 1
      BY <2>1
    <3> QED BY <3>1
  <2>4. StreamInv'
    BY <1>1, <2>2, <2>3, StreamDropped
  <2>5. PICK c \in Seq(Byte) : /\ Len(c) = PACKET_SIZE /\ FrameCheck(c)
                               /\ \A i \in 1 .. PACKET_SIZE : c[i] = Pending[i]
    BY <1>4 DEF ChecksFrame
  <2>6. Len(Pending) >= PACKET_SIZE
    <3>1. PICK n : n = Len(Pending') /\ n \in Nat
      BY <2>2 DEF Dropped
    <3>2. Len(Pending) = d + n
      BY <2>2, <3>1 DEF Dropped
    <3> QED BY <2>1, <3>1, <3>2
  <2>7. PublishedWasSent'
    BY <1>1, <2>5, <2>6, Publication
  <2> QED BY <2>4, <2>7
<1> QED BY <1>1, <1>2, <1>3, <1>4, TakeCases

\* The thread.
LEMMA StreamThread ==
  ASSUME MethInv, MethInv', StreamInv, Unambiguous, PublishedWasSent, Thread
  PROVE  StreamInv' /\ PublishedWasSent'
<1>1. PendingParts /\ PendingParts'
  BY PendingFacts, PTL DEF MethInv
<1>2. CASE Top /\ methane_debug_active
  <2>1. /\ uart2_received_data' = <<>>
        /\ UNCHANGED <<frame, pos, fifo, debug_frame, dpc>> /\ UNCHANGED dataVars
    BY <1>2 DEF Top, sensorVars, commandVars
  <2>2. CASE debug_frame = <<>>
    <3>1. fifo \in Seq(Byte) /\ uart2_received_data \in Seq(Byte)
      BY DEF MethInv, Bytes
    <3>2. PICK d \in Nat : d = Len(uart2_received_data)
      BY <3>1
    <3>3. Dropped(uart2_received_data \o fifo, fifo, d)
      BY <3>1, <3>2, DropConcat
    <3>4. Pending = uart2_received_data \o fifo /\ Pending' = <<>> \o fifo
      BY <1>1, <2>1, <2>2 DEF PendingParts
    <3>5. <<>> \o fifo = fifo
      BY <3>1, ConcatEmptySeq
    <3>6. Dropped(Pending, Pending', d)
      BY <3>3, <3>4, <3>5
    <3>7. ASSUME NEW l, NEW lost, l \in 0 .. Len(Pending), d < l, LostInDebug(l, lost)
          PROVE  LostInDebug(l - d, lost)'
      <4>1. CASE dpc \in {"first", "loop", "nap"} /\ dpc # "first" /\ lost = 1
        <5>1. l <= 0
          BY <2>2, <3>7, <4>1, EmptySeq DEF LostInDebug
        <5>2. d >= 0 /\ d \in Nat /\ l \in Nat
          BY <1>1, <3>7 DEF PendingParts
        <5> QED BY <3>7, <5>1, <5>2
      <4>2. CASE ~(dpc \in {"first", "loop", "nap"} /\ dpc # "first" /\ lost = 1)
        BY <2>1, <3>7, <4>2 DEF LostInDebug
      <4> QED BY <4>1, <4>2
    <3>8. StreamInv'
      BY <1>1, <2>1, <3>6, <3>7, StreamDropped DEF PendingParts
    <3> QED BY <2>1, <3>8, NotPublished
  <2>3. CASE debug_frame # <<>>
    <3>1. uart2_received_data = <<>>
      BY <1>2, <2>3 DEF MethInv, FlagHeld, ThreadOut
    <3>2. Pending' = Pending
      BY <2>1, <3>1 DEF Pending
    <3>3. \A l, lost : l \in 0 .. Len(Pending) /\ LostInDebug(l, lost) => LostInDebug(l, lost)'
      BY <2>1 DEF LostInDebug
    <3>4. StreamInv'
      BY <2>1, <3>2, <3>3, StreamKept
    <3> QED BY <2>1, <3>4, NotPublished
  <2> QED BY <2>2, <2>3
<1>3. CASE \/ Top /\ ~methane_debug_active
           \/ Read /\ UNCHANGED <<fifo, uart2_received_data, dataVars>>
           \/ Wake
  <2>1. /\ UNCHANGED <<uart2_received_data, frame, pos, fifo, debug_frame, dpc>>
        /\ UNCHANGED dataVars
    BY <1>3 DEF Top, Read, Wake, sensorVars, debugVars, commandVars
  <2>2. Pending' = Pending
    BY <2>1 DEF Pending
  <2>3. \A l, lost : l \in 0 .. Len(Pending) /\ LostInDebug(l, lost) => LostInDebug(l, lost)'
    BY <2>1 DEF LostInDebug
  <2>4. StreamInv'
    BY <2>1, <2>2, <2>3, StreamKept
  <2> QED BY <2>1, <2>4, NotPublished
<1>4. CASE Read /\ TakeByte(uart2_received_data, uart2_received_data')
  <2>1. pc = "read" /\ UNCHANGED <<frame, pos, debug_frame, dpc>>
    BY <1>4 DEF Read, sensorVars, debugVars, commandVars
  <2>2. dpc \notin {"first", "loop", "nap"} /\ debug_frame = <<>>
    BY <2>1 DEF MethInv, ThreadOut, FlagHeld
  <2>3. /\ Pending = uart2_received_data \o fifo /\ Pending' = uart2_received_data' \o fifo'
    BY <1>1, <2>1, <2>2 DEF PendingParts
  <2>4. uart2_received_data \in Seq(Byte) /\ Len(uart2_received_data) < PACKET_SIZE
    BY DEF MethInv, TypeOK, Bytes, Partial
  <2>5. \A l, l2, lost : LostInDebug(l, lost) => LostInDebug(l2, lost)'
    BY <2>1, <2>2 DEF LostInDebug
  <2> QED BY <1>4, <2>1, <2>3, <2>4, <2>5, StreamTake
<1> QED BY <1>2, <1>3, <1>4 DEF Thread, Read

\* uart2_debug begins to read: the byte on the line may be lost.
LEMMA StreamDebugStart ==
  ASSUME MethInv, MethInv', StreamInv, DebugStart
  PROVE  StreamInv'
<1>1. /\ dpc = "settle" /\ dpc' = "first" /\ debug_frame' = <<>>
      /\ UNCHANGED <<fifo, uart2_received_data>>
  BY DEF DebugStart
<1>2. debug_frame = <<>>
  BY <1>1 DEF MethInv, FlagHeld
<1>3. Pending' = Pending
  BY <1>1, <1>2 DEF Pending
<1>4. PICK fs, k, start, l, lost :
        Taken(Pending, frame, pos, fs, k, start, l, lost) /\ LostInDebug(l, lost)
  BY DEF StreamInv
<1>5. lost = 0
  BY <1>1, <1>4 DEF LostInDebug, Taken
<1>6. CASE NextByte
  <2>1. pos' = (pos + 1) % PACKET_SIZE /\ (pos + 1 # PACKET_SIZE => frame' = frame)
    BY <1>6 DEF NextByte
  <2>2. frame' \in Frames /\ Pending \in Seq(Byte)
    BY PendingFacts DEF MethInv, TypeOK, PendingParts
  <2>3. PICK fs2, k2 : Taken(Pending, frame', pos', fs2, k2, start, Len(Pending), 1)
    BY <1>4, <1>5, <2>1, <2>2, Lose
  <2>4. LostInDebug(Len(Pending), 1)'
    BY <1>1 DEF LostInDebug
  <2>5. Taken(Pending', frame', pos', fs2, k2, start, Len(Pending'), 1)
    BY <1>3, <2>3
  <2> QED BY <2>4, <2>5 DEF StreamInv
<1>7. CASE UNCHANGED sensorVars
  <2>1. Taken(Pending', frame', pos', fs, k, start, l, 0)
    BY <1>3, <1>4, <1>5, <1>7 DEF sensorVars
  <2>2. LostInDebug(l, 0)'
    BY DEF LostInDebug
  <2> QED BY <2>1, <2>2 DEF StreamInv
<1> QED BY <1>6, <1>7 DEF DebugStart

\* uart2_debug takes a byte or, when there is none, a nap.
LEMMA StreamDebugRead ==
  ASSUME MethInv, MethInv', StreamInv, Unambiguous, PublishedWasSent, DebugRead
  PROVE  StreamInv' /\ PublishedWasSent'
<1>1. dpc \in {"first", "loop"} /\ UNCHANGED <<frame, pos, uart2_received_data>>
  BY DEF DebugRead, sensorVars
<1>2. uart2_received_data = <<>>
  BY <1>1 DEF MethInv, FlagHeld, ThreadOut
<1>3. PendingParts /\ PendingParts'
  BY PendingFacts, PTL DEF MethInv
<1>4. Pending = debug_frame \o fifo /\ Pending' = debug_frame' \o fifo' /\ Pending \in Seq(Byte)
  BY <1>1, <1>2, <1>3 DEF PendingParts
<1>5. debug_frame \in Seq(Byte) /\ Len(debug_frame) < PACKET_SIZE /\ Len(debug_frame) \in Nat
  BY DEF MethInv, TypeOK, Bytes, Partial
<1>6. CASE TakeByte(debug_frame, debug_frame') /\ dpc' = dpc
  <2>1. ASSUME Len(debug_frame') = Len(debug_frame) + 1, NEW l, NEW lost,
               l \in 0 .. Len(Pending), LostInDebug(l, lost)
        PROVE  LostInDebug(l, lost)'
    <3>1. Len(debug_frame') >= Len(debug_frame) /\ l \in Nat
      BY <1>4, <1>5, <2>1
    <3>2. l <= Len(debug_frame) => l <= Len(debug_frame')
      BY <1>5, <2>1, <3>1
    <3> QED BY <1>6, <2>1, <3>2 DEF LostInDebug
  <2>2. ASSUME NEW d, NEW l, NEW lost, d \in Nat, d >= Len(debug_frame) + 1,
               l \in 0 .. Len(Pending), d < l, LostInDebug(l, lost)
        PROVE  LostInDebug(l - d, lost)'
    <3>1. ~(l <= Len(debug_frame))
      BY <1>4, <1>5, <2>2
    <3> QED BY <1>1, <1>6, <2>2, <3>1 DEF LostInDebug
  <2> QED BY <1>1, <1>4, <1>5, <1>6, <2>1, <2>2, StreamTake
<1>7. CASE fifo = <<>> /\ dpc' = "nap" /\ UNCHANGED <<fifo, debug_frame, dataVars>>
  <2>1. Pending' = Pending
    BY <1>1, <1>7 DEF Pending
  <2>2. Pending = debug_frame
    BY <1>4, <1>5, <1>7, ConcatEmptySeq
  <2>3. ASSUME NEW l, NEW lost, l \in 0 .. Len(Pending), LostInDebug(l, lost)
        PROVE  LostInDebug(l, lost)'
    <3>1. l <= Len(debug_frame')
      BY <1>5, <1>7, <2>2, <2>3
    <3> QED BY <1>7, <3>1 DEF LostInDebug
  <2>4. StreamInv'
    BY <1>1, <2>1, <2>3, StreamKept
  <2> QED BY <1>7, <2>4, NotPublished
<1> QED BY <1>6, <1>7 DEF DebugRead

\* uart2_debug ends: the lost byte has gone by.
LEMMA StreamDebugEnd ==
  ASSUME MethInv, MethInv', StreamInv, DebugEnd
  PROVE  StreamInv'
<1>1. /\ dpc = "loop" /\ debug_frame' = <<>> /\ UNCHANGED <<frame, pos, fifo, uart2_received_data>>
  BY DEF DebugEnd, sensorVars
<1>2. uart2_received_data = <<>>
  BY <1>1 DEF MethInv, FlagHeld, ThreadOut
<1>3. PendingParts /\ PendingParts'
  BY PendingFacts, PTL DEF MethInv
<1>4. fifo \in Seq(Byte) /\ debug_frame \in Seq(Byte)
  BY DEF MethInv, Bytes
<1>5. Pending = debug_frame \o fifo /\ Pending' = <<>> \o fifo /\ Pending \in Seq(Byte)
  BY <1>1, <1>2, <1>3 DEF PendingParts
<1>6. PICK d \in Nat : d = Len(debug_frame)
  BY <1>4
<1>7. Dropped(Pending, Pending', d)
  <2>1. Dropped(debug_frame \o fifo, fifo, d) /\ <<>> \o fifo = fifo
    BY <1>4, <1>6, DropConcat, ConcatEmptySeq
  <2> QED BY <1>5, <2>1
<1>8. ASSUME NEW l, NEW lost, l \in 0 .. Len(Pending), d < l, LostInDebug(l, lost)
      PROVE  LostInDebug(l - d, lost)'
  <2>1. ~(l <= Len(debug_frame))
    BY <1>5, <1>6, <1>8
  <2> QED BY <1>1, <1>8, <2>1 DEF LostInDebug
<1> QED BY <1>1, <1>5, <1>7, <1>8, StreamDropped

\* The relation to the stream, and what is published was sent.
StreamPublished == StreamInv /\ PublishedWasSent

\* No step breaks that.
LEMMA StreamNext ==
  Unambiguous /\ MethInv /\ MethInv' /\ StreamPublished /\ [Next]_vars => StreamPublished'
<1> SUFFICES ASSUME Unambiguous, MethInv, MethInv', StreamInv, PublishedWasSent, [Next]_vars
             PROVE  StreamInv' /\ PublishedWasSent'
    BY DEF StreamPublished
<1>1. CASE SensorByte
  <2>1. UNCHANGED dataVars
    BY <1>1 DEF SensorByte
  <2> QED BY <1>1, <2>1, StreamSensor, NotPublished
<1>2. CASE Thread
  BY <1>2, StreamThread
<1>3. CASE DebugStart
  <2>1. UNCHANGED dataVars
    BY <1>3 DEF DebugStart
  <2> QED BY <1>3, <2>1, StreamDebugStart, NotPublished
<1>4. CASE DebugRead
  BY <1>4, StreamDebugRead
<1>5. CASE DebugEnd
  <2>1. UNCHANGED dataVars
    BY <1>5 DEF DebugEnd
  <2> QED BY <1>5, <2>1, StreamDebugEnd, NotPublished
<1>6. CASE DebugBegin \/ DebugFails \/ DebugWake \/ UNCHANGED vars
  <2>0. dpc \in {"first", "loop", "nap"} => dpc' = dpc \/ (dpc = "nap" /\ dpc' = "loop")
    BY <1>6 DEF DebugBegin, DebugFails, DebugWake, vars
  <2>1. /\ UNCHANGED <<uart2_received_data, frame, pos, fifo, debug_frame>>
        /\ UNCHANGED dataVars
    BY <1>6 DEF DebugBegin, DebugFails, DebugWake, vars, sensorVars, dataVars
  <2>2. Pending' = Pending
    BY <2>1 DEF Pending
  <2>3. \A l, lost : l \in 0 .. Len(Pending) /\ LostInDebug(l, lost) => LostInDebug(l, lost)'
    BY <2>0, <2>1 DEF LostInDebug
  <2>4. StreamInv'
    BY <2>1, <2>2, <2>3, StreamKept
  <2> QED BY <2>1, <2>4, NotPublished
<1> QED BY <1>1, <1>2, <1>3, <1>4, <1>5, <1>6 DEF Next, Debug

-----------------------------------------------------------------------------
(* A reader in step. *)

\* What is pending begins with a frame, and no byte of it is lost.
FromFrame == \E fs, k : \E j \in Nat : Taken(Pending, frame, pos, fs, k, PACKET_SIZE * j, 0, 0)

\* The byte of a frame at i.
LEMMA OriginInStep ==
  ASSUME NEW g \in Nat, NEW i \in Nat, i >= 1
  PROVE  Origin(i, g, 0, 0) = g + (i - 1)
BY DEF Origin

\* A reader in step has such bytes;
LEMMA InStepIsFrom == TypeOK /\ Bytes => (InStep => FromFrame)
<1> SUFFICES ASSUME TypeOK, Bytes, InStep PROVE FromFrame
    OBVIOUS
<1>1. PICK n : n = Len(Pending)
  OBVIOUS
<1>2. Pending \in Seq(Byte) /\ n \in Nat
  BY <1>1, PendingFacts DEF PendingParts
<1>3. PICK k, r \in Nat : r < PACKET_SIZE /\ n = PACKET_SIZE * k + r
  BY <1>2, Position
<1>4. n \div PACKET_SIZE = k /\ n % PACKET_SIZE = r
  BY <1>3 DEF PACKET_SIZE
<1>5. pos = r /\ \E gs \in [0 .. k -> Frames] :
                    gs[k] = frame /\ \A i \in 1 .. n : Pending[i] = Sent(gs, i - 1)
  BY <1>1, <1>4 DEF InStep
<1>6. PICK gs \in [0 .. k -> Frames] :
        gs[k] = frame /\ \A i \in 1 .. n : Pending[i] = Sent(gs, i - 1)
  BY <1>5
<1>7. PICK fs : fs = [m \in Nat |-> IF m \in 0 .. k THEN gs[m] ELSE frame]
  OBVIOUS
<1>8. fs \in [Nat -> Frames] /\ fs[k] = frame /\ \A m \in 0 .. k : fs[m] = gs[m]
  BY <1>6, <1>7 DEF TypeOK
<1>9. ASSUME NEW i \in 1 .. n
      PROVE  Pending[i] = Sent(fs, Origin(i, PACKET_SIZE * 0, 0, 0))
  <2>1. PICK q \in Nat : q = i - 1 /\ q < n
    <3>1. i - 1 \in Nat /\ i - 1 < n
      BY <1>2
    <3> QED BY <3>1
  <2>2. PICK m, u \in Nat : u < PACKET_SIZE /\ q = PACKET_SIZE * m + u
    BY Position
  <2>3. m \in 0 .. k
    BY <1>3, <2>1, <2>2 DEF PACKET_SIZE
  <2>4. Sent(fs, q) = Sent(gs, q)
    <3>1. Sent(fs, q) = fs[m][u + 1] /\ Sent(gs, q) = gs[m][u + 1]
      BY <2>2, SentAt
    <3> QED BY <1>8, <2>3, <3>1
  <2>5. Origin(i, PACKET_SIZE * 0, 0, 0) = q
    BY <1>2, <2>1 DEF Origin, PACKET_SIZE
  <2> QED BY <1>6, <2>1, <2>4, <2>5
<1>10. /\ PACKET_SIZE * 0 \in Nat /\ 0 \in {0, 1} /\ 0 \in 0 .. n
       /\ PACKET_SIZE * 0 + n + 0 = PACKET_SIZE * k + pos /\ pos \in Nat /\ pos < PACKET_SIZE
  BY <1>2, <1>3, <1>5 DEF PACKET_SIZE
<1>11. Taken(Pending, frame, pos, fs, k, PACKET_SIZE * 0, 0, 0)
  BY <1>1, <1>8, <1>9, <1>10 DEF Taken
<1> QED BY <1>11 DEF FromFrame

\* and one that has such bytes is in step.
LEMMA FromIsInStep == Bytes => (FromFrame => InStep)
<1> SUFFICES ASSUME Bytes, FromFrame PROVE InStep
    OBVIOUS
<1>1. PICK n : n = Len(Pending)
  OBVIOUS
<1>2. Pending \in Seq(Byte) /\ n \in Nat
  BY <1>1, PendingFacts DEF PendingParts
<1>3. PICK fs, k : \E j \in Nat : Taken(Pending, frame, pos, fs, k, PACKET_SIZE * j, 0, 0)
  BY DEF FromFrame
<1>4. PICK j \in Nat : Taken(Pending, frame, pos, fs, k, PACKET_SIZE * j, 0, 0)
  BY <1>3
<1>5. /\ fs \in [Nat -> Frames] /\ k \in Nat /\ fs[k] = frame /\ pos \in Nat /\ pos < PACKET_SIZE
      /\ PACKET_SIZE * j + n + 0 = PACKET_SIZE * k + pos
      /\ \A i \in 1 .. n : Pending[i] = Sent(fs, Origin(i, PACKET_SIZE * j, 0, 0))
  BY <1>1, <1>4 DEF Taken
<1>6. PICK h \in Nat : k = j + h /\ n = PACKET_SIZE * h + pos
  <2>1. k - j \in Nat /\ k = j + (k - j) /\ n = PACKET_SIZE * (k - j) + pos
    BY <1>2, <1>5 DEF PACKET_SIZE
  <2> QED BY <2>1
<1>7. n \div PACKET_SIZE = h /\ n % PACKET_SIZE = pos
  BY <1>5, <1>6 DEF PACKET_SIZE
<1>8. PICK gs : gs = [m \in 0 .. h |-> fs[j + m]]
  OBVIOUS
<1>9. gs \in [0 .. h -> Frames] /\ gs[h] = frame /\ \A m \in 0 .. h : gs[m] = fs[j + m]
  BY <1>5, <1>6, <1>8
<1>10. ASSUME NEW i \in 1 .. n
       PROVE  Pending[i] = Sent(gs, i - 1)
  <2>1. PICK q \in Nat : q = i - 1 /\ q < n
    <3>1. i - 1 \in Nat /\ i - 1 < n
      BY <1>2
    <3> QED BY <3>1
  <2>2. PICK m, u \in Nat : u < PACKET_SIZE /\ q = PACKET_SIZE * m + u
    BY Position
  <2>3. m \in 0 .. h
    BY <1>5, <1>6, <2>1, <2>2 DEF PACKET_SIZE
  <2>4. PICK g \in Nat : g = PACKET_SIZE * j
    BY DEF PACKET_SIZE
  <2>5. Origin(i, g, 0, 0) = g + q
    BY <1>2, <2>1, OriginInStep
  <2>6. g + q = PACKET_SIZE * (j + m) + u
    BY <2>2, <2>4 DEF PACKET_SIZE
  <2>7. Sent(fs, PACKET_SIZE * (j + m) + u) = fs[j + m][u + 1]
    <3>1. j + m \in Nat
      OBVIOUS
    <3> QED BY <2>2, <3>1, SentAt
  <2>8. Sent(gs, q) = gs[m][u + 1]
    BY <2>2, SentAt
  <2>9. Pending[i] = Sent(fs, g + q)
    BY <1>5, <2>4, <2>5
  <2> QED BY <1>9, <2>1, <2>3, <2>6, <2>7, <2>8, <2>9
<1> QED BY <1>1, <1>7, <1>9, <1>10 DEF InStep

\* A header has two bytes.
LEMMA BelowTwo ==
  ASSUME NEW n \in Nat, n < 2
  PROVE  n \in {0, 1}
OBVIOUS

\* b begins with the frame f, as far as it goes.
BeginsWith(b, f) == \A i \in 1 .. Len(b) : i <= PACKET_SIZE => b[i] = f[i]

\* In step, the pending bytes of the oldest frame are that frame's.
LEMMA OldestFrame ==
  ASSUME NEW b \in Seq(Byte), NEW f, NEW p, NEW fs, NEW k, NEW j \in Nat,
         Taken(b, f, p, fs, k, PACKET_SIZE * j, 0, 0)
  PROVE  BeginsWith(b, fs[j])
<1> SUFFICES ASSUME NEW i \in 1 .. Len(b), i <= PACKET_SIZE PROVE b[i] = fs[j][i]
    BY DEF BeginsWith
<1>1. PICK g \in Nat : g = PACKET_SIZE * j
  BY DEF PACKET_SIZE
<1>2. PICK q \in Nat : q + 1 = i /\ q = i - 1 /\ q < PACKET_SIZE
  <2>1. i - 1 \in Nat /\ (i - 1) + 1 = i /\ i - 1 < PACKET_SIZE
    BY DEF PACKET_SIZE
  <2> QED BY <2>1
<1>3. Origin(i, g, 0, 0) = g + q
  BY <1>2, OriginInStep
<1>4. b[i] = Sent(fs, Origin(i, PACKET_SIZE * j, 0, 0))
  BY DEF Taken
<1>5. Sent(fs, PACKET_SIZE * j + q) = fs[j][q + 1]
  BY <1>2, SentAt
<1> QED BY <1>1, <1>2, <1>3, <1>4, <1>5

\* What a step of a reader in step does: it stays in step, and a frame it has
\* collected is accepted and published.
Accepted ==
  /\ UNCHANGED methane_invalid_frames
  /\ methane_valid_frames' # methane_valid_frames => \E f \in Frames : reading' = Reading(f)

\* A reader in step takes a byte: it finds the header where it is, and the frame valid.
LEMMA InStepTake ==
  ASSUME MethInv, FromFrame,
         NEW s \in Seq(Byte), Len(s) < PACKET_SIZE, NEW s2, TakeByte(s, s2),
         Pending = s \o fifo, Pending' = s2 \o fifo', frame' = frame, pos' = pos
  PROVE  FromFrame' /\ Accepted
<1>1. fifo \in Seq(Byte) /\ Pending \in Seq(Byte)
  BY PendingFacts DEF MethInv, Bytes, PendingParts
<1>2. PICK fs, k : \E j \in Nat : Taken(Pending, frame, pos, fs, k, PACKET_SIZE * j, 0, 0)
  BY DEF FromFrame
<1>3. PICK j \in Nat : Taken(Pending, frame, pos, fs, k, PACKET_SIZE * j, 0, 0)
  BY <1>2
<1>4. fs[j] \in Frames
  BY <1>3 DEF Taken
<1>5. ValidFrame(fs[j])
  BY <1>4, SensorAssumption
<1>6. \A i \in 1 .. Len(Pending) : i <= PACKET_SIZE => Pending[i] = fs[j][i]
  <2>1. BeginsWith(Pending, fs[j])
    BY <1>1, <1>3, OldestFrame
  <2> QED BY <2>1, Zenon DEF BeginsWith
<1>7. CASE KeepsByte(s, s2)
  <2>1. Taken(Pending', frame', pos', fs, k, PACKET_SIZE * j, 0, 0)
    BY <1>3, <1>7 DEF KeepsByte
  <2>2. Accepted
    BY <1>7 DEF KeepsByte, Accepted, dataVars
  <2> QED BY <2>1, <2>2 DEF FromFrame
<1>8. CASE DropsHeader(s, s2)
  <2>0. Len(s) < 2 /\ fifo # <<>> /\ Pending[Len(s) + 1] # 172
    BY <1>8, Zenon DEF DropsHeader
  <2>1. Len(s) \in {0, 1} /\ fifo # <<>> /\ Pending[Len(s) + 1] # 172
    <3>1. Len(s) \in Nat
      OBVIOUS
    <3>2. Len(s) < 2
      BY <2>0
    <3>3. Len(s) \in {0, 1}
      BY <3>1, <3>2, BelowTwo, Zenon
    <3> QED BY <2>0, <3>3, Zenon
  <2>2. Len(s) + 1 \in 1 .. Len(Pending) /\ Len(s) + 1 <= PACKET_SIZE /\ Len(s) + 1 \in {1, 2}
    <3>1. Len(Pending) = Len(s) + Len(fifo)
      BY <1>1, ConcatProperties
    <3>2. Len(fifo) \in Nat /\ Len(fifo) # 0
      BY <1>1, <2>1, EmptySeq
    <3> QED BY <2>1, <3>1, <3>2 DEF PACKET_SIZE
  <2>3. Pending[Len(s) + 1] = fs[j][Len(s) + 1]
    BY <1>6, <2>2
  <2>4. fs[j][1] = 172 /\ fs[j][2] = 172
    BY <1>5 DEF ValidFrame
  <2> QED BY <2>1, <2>2, <2>3, <2>4
<1>9. CASE ChecksFrame(s, s2)
  <2>1. PICK c \in Seq(Byte) : /\ Len(c) = PACKET_SIZE /\ FrameCheck(c)
                               /\ \A i \in 1 .. PACKET_SIZE : c[i] = Pending[i]
    BY <1>9 DEF ChecksFrame
  <2>2. PICK d \in Nat : d = PACKET_SIZE
    BY DEF PACKET_SIZE
  <2>3. PICK b \in Seq(Byte) : b = Pending'
    BY <1>9 DEF ChecksFrame, Dropped
  <2>4. Len(Pending) = d + Len(b) /\ \A i \in 1 .. Len(b) : b[i] = Pending[d + i]
    BY <1>9, <2>2, <2>3 DEF ChecksFrame, Dropped
  <2>5. c = fs[j]
    <3>1. fs[j] \in [1 .. d -> Byte]
      BY <1>4, <2>2, MethaneAssumption
    <3>2. fs[j] \in Seq(Byte) /\ Len(fs[j]) = d
      BY <3>1, FunctionIsSeq
    <3>3. ASSUME NEW i \in 1 .. d
          PROVE  c[i] = fs[j][i]
      <4>1. i \in 1 .. Len(Pending) /\ i <= PACKET_SIZE
        BY <2>2, <2>3, <2>4
      <4>2. Pending[i] = fs[j][i]
        BY <1>6, <4>1
      <4> QED BY <2>1, <2>2, <4>2
    <3> QED BY <2>1, <2>2, <3>2, <3>3, SeqEqual
  <2>6. Accepted
    BY <1>4, <1>5, <2>1, <2>5 DEF FrameCheck, Accepted
  <2>7. PICK g \in Nat : g = PACKET_SIZE * j
    BY DEF PACKET_SIZE
  <2>8. Taken(b, frame, pos, fs, k, g + d + 0, 0, 0)
    <3>1. ~(d < 0)
      OBVIOUS
    <3>2. Taken(Pending, frame, pos, fs, k, g, 0, 0)
      BY <1>3, <2>7
    <3> QED BY <1>1, <2>4, <3>1, <3>2, Drop
  <2>9. g + d + 0 = PACKET_SIZE * (j + 1)
    BY <2>2, <2>7 DEF PACKET_SIZE
  <2>10. Taken(Pending', frame', pos', fs, k, PACKET_SIZE * (j + 1), 0, 0)
    BY <2>3, <2>8, <2>9
  <2> QED BY <2>6, <2>10 DEF FromFrame
<1> QED BY <1>1, <1>7, <1>8, <1>9, TakeCases

\* A step that moves nothing.
LEMMA InStepKept ==
  ASSUME FromFrame, Pending' = Pending, frame' = frame, pos' = pos, UNCHANGED dataVars
  PROVE  FromFrame' /\ Accepted
<1>1. FromFrame'
  BY DEF FromFrame
<1>2. Accepted
  BY DEF Accepted, dataVars
<1> QED BY <1>1, <1>2

\* The sensor's next byte.
LEMMA InStepSensor ==
  ASSUME MethInv, MethInv', FromFrame, SensorByte
  PROVE  FromFrame' /\ Accepted
<1>1. PICK fs, k : \E j \in Nat : Taken(Pending, frame, pos, fs, k, PACKET_SIZE * j, 0, 0)
  BY DEF FromFrame
<1>2. PICK j \in Nat : Taken(Pending, frame, pos, fs, k, PACKET_SIZE * j, 0, 0)
  BY <1>1
<1>3. /\ fifo' = Append(fifo, frame[pos + 1]) /\ pos' = (pos + 1) % PACKET_SIZE
      /\ pos + 1 # PACKET_SIZE => frame' = frame
      /\ UNCHANGED <<uart2_received_data, debug_frame>>
  BY DEF SensorByte, NextByte, debugVars, commandVars
<1>4. frame[pos + 1] \in Byte /\ frame' \in Frames /\ Pending \in Seq(Byte)
  <2>1. frame[pos + 1] \in Byte
    BY CurrentByte
  <2>2. frame' \in Frames
    BY DEF MethInv, TypeOK
  <2>3. Pending \in Seq(Byte)
    BY PendingFacts DEF MethInv, PendingParts
  <2> QED BY <2>1, <2>2, <2>3
<1>5. Pending' = Append(Pending, frame[pos + 1])
  BY <1>3, <1>4, PendingAppend DEF MethInv
<1>6. \E fs2, k2 :
        Taken(Append(Pending, frame[pos + 1]), frame', pos', fs2, k2, PACKET_SIZE * j, 0, 0)
  BY <1>2, <1>3, <1>4, Grow
<1>7. Accepted
  BY DEF SensorByte, Accepted, dataVars
<1> QED BY <1>5, <1>6, <1>7 DEF FromFrame

\* The steps of a reader in step that is left alone.
LEMMA InStepNext ==
  ASSUME MethInv, MethInv', [Next]_vars, FromFrame, ~HandedOver
  PROVE  FromFrame' /\ Accepted
<1>1. PendingParts /\ PendingParts'
  BY PendingFacts, PTL DEF MethInv
<1>2. CASE SensorByte
  BY <1>2, InStepSensor
<1>3. CASE Read /\ TakeByte(uart2_received_data, uart2_received_data')
  <2>1. pc = "read" /\ UNCHANGED <<frame, pos, debug_frame>>
    BY <1>3 DEF Read, sensorVars, debugVars, commandVars
  <2>2. debug_frame = <<>>
    BY <2>1 DEF MethInv, ThreadOut, FlagHeld
  <2>3. /\ Pending = uart2_received_data \o fifo /\ Pending' = uart2_received_data' \o fifo'
    BY <1>1, <2>1, <2>2 DEF PendingParts
  <2>4. uart2_received_data \in Seq(Byte) /\ Len(uart2_received_data) < PACKET_SIZE
    BY DEF MethInv, TypeOK, Bytes, Partial
  <2> QED BY <1>3, <2>1, <2>3, <2>4, InStepTake
<1>4. CASE DebugRead /\ TakeByte(debug_frame, debug_frame')
  <2>1. dpc \in {"first", "loop"} /\ UNCHANGED <<frame, pos, uart2_received_data>>
    BY <1>4 DEF DebugRead, sensorVars
  <2>2. uart2_received_data = <<>>
    BY <2>1 DEF MethInv, FlagHeld, ThreadOut
  <2>3. Pending = debug_frame \o fifo /\ Pending' = debug_frame' \o fifo'
    BY <1>1, <2>1, <2>2 DEF PendingParts
  <2>4. debug_frame \in Seq(Byte) /\ Len(debug_frame) < PACKET_SIZE
    BY DEF MethInv, TypeOK, Bytes, Partial
  <2> QED BY <1>4, <2>1, <2>3, <2>4, InStepTake
<1>5. CASE \/ Top /\ ~methane_debug_active
           \/ Read /\ UNCHANGED <<fifo, uart2_received_data, dataVars>>
           \/ DebugRead /\ UNCHANGED <<fifo, debug_frame, dataVars>>
           \/ Wake \/ DebugBegin \/ DebugFails \/ DebugWake
  <2>1. /\ UNCHANGED <<uart2_received_data, frame, pos, fifo, debug_frame>>
        /\ UNCHANGED dataVars
    BY <1>5 DEF Top, Read, DebugRead, Wake, DebugBegin, DebugFails, DebugWake,
                sensorVars, debugVars, commandVars
  <2>2. Pending' = Pending
    BY <2>1 DEF Pending
  <2> QED BY <2>1, <2>2, InStepKept
<1>6. CASE UNCHANGED vars
  <2>1. Pending' = Pending /\ frame' = frame /\ pos' = pos /\ UNCHANGED dataVars
    BY <1>6 DEF vars, dataVars, Pending
  <2> QED BY <2>1, InStepKept
<1> QED BY <1>2, <1>3, <1>4, <1>5, <1>6 DEF HandedOver, Next, Thread, Debug, Read, DebugRead

-----------------------------------------------------------------------------
(* The theorems. *)

\* The state of the receiver and of uart2_debug stays well typed: no frame buffer
\* holds more than 18 bytes between two accesses, so data_index and frame_index
\* never leave the arrays of 19 bytes in uart2_receive_and_print and uart2_debug.
THEOREM TypeCorrect == Spec => []TypeOK
<1>1. MethInv => TypeOK
  BY DEF MethInv
<1> QED BY <1>1, InvHolds, PTL

\* The flag methane_debug_active and the 20 ms of uart2_debug keep the two readers
\* of UART2 apart: no frame is divided between them.
THEOREM NeverSplit == Spec => []NoSplitFrame
<1>1. MethInv => NoSplitFrame
  BY DEF MethInv, FlagHeld, ThreadOut, NoSplitFrame
<1> QED BY <1>1, InvHolds, PTL

\* The number of valid frames uart2_debug prints, a difference of a counter that
\* both readers advance and that wraps, is the number it has collected itself.
THEOREM CountsOwn == Spec => []CountsAreItsOwn
<1>1. MethInv => CountsAreItsOwn
  BY DEF MethInv
<1> QED BY <1>1, InvHolds, PTL

\* Whatever MethaneSensorApp.c publishes was measured: no reading is put together
\* from two frames, wherever in the stream a reader starts, is interrupted by
\* uart2_debug, loses the byte on the line to rt_device_control() or resumes, if
\* no 19 bytes of two frames, a lost byte excepted, pass for a frame by chance.
THEOREM Published == Unambiguous => (Spec => []PublishedWasSent)
<1> SUFFICES ASSUME Unambiguous PROVE Spec => []PublishedWasSent
    OBVIOUS
<1>1. Init => StreamPublished
  BY StreamInit DEF Init, StreamPublished, PublishedWasSent
<1>2. MethInv /\ MethInv' /\ StreamPublished /\ [Next]_vars => StreamPublished'
  BY StreamNext
<1>3. StreamPublished => PublishedWasSent
  BY DEF StreamPublished
<1> QED BY <1>1, <1>2, <1>3, InvHolds, PTL DEF Spec

\* A reader that is in step with the sensor finds every header where it is, accepts
\* every frame and publishes what it says until uart2_debug takes the stream over
\* or gives it back, whatever the frames' data looks like.
THEOREM InStepForGood == Spec => StaysInStep
<1>1. MethInv /\ MethInv' /\ [Next]_vars =>
        [InStep /\ ~HandedOver =>
           /\ InStep'
           /\ UNCHANGED methane_invalid_frames
           /\ methane_valid_frames' # methane_valid_frames =>
                \E f \in Frames : reading' = Reading(f)]_vars
  <2> SUFFICES ASSUME MethInv, MethInv', [Next]_vars, InStep, ~HandedOver
               PROVE  InStep' /\ Accepted
      BY DEF Accepted
  <2>1. FromFrame
    BY InStepIsFrom DEF MethInv
  <2>2. FromFrame' /\ Accepted
    BY <2>1, InStepNext
  <2>3. Bytes' /\ (Bytes' => (FromFrame' => InStep'))
    BY FromIsInStep, PTL DEF MethInv
  <2> QED BY <2>2, <2>3
<1> QED BY <1>1, InvHolds, PTL DEF Spec, StaysInStep
=============================================================================
