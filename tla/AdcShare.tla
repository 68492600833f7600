------------------------------ MODULE AdcShare ------------------------------
(***************************************************************************)
(* ADC1 and its users: the flame thread (linesensor.c), which drives the   *)
(* converter through hal_adc.c, and the oxygen thread (o2SensorApp.c) and  *)
(* the shell command o2_debug (debugCommands.c), which use RT-Thread's ADC *)
(* device (drv_adc.c).  The two paths have a HAL handle each, so the       *)
(* handles' locks protect nothing: the paths meet in the registers of the  *)
(* one converter.                                                          *)
(*                                                                         *)
(* A step is one call of the HAL, or one delay.  A sampled value is known  *)
(* by the channel it was converted from; Zero is the value that            *)
(* adc_read_channel() returns after a failure and Junk the uninitialised   *)
(* variable that rt_adc_read() returns after one.                          *)
(*                                                                         *)
(* Scheduling.  The flame and the oxygen thread have the same priority     *)
(* (25) and take turns anywhere; the shell (20) runs until it sleeps.      *)
(***************************************************************************)
EXTENDS Integers, FiniteSets

CONSTANTS
  N,            \* number of flame inputs; 5 in the code
  FIRE_MIN,     \* how many of them make a fire; 4 in the code
  FlameChannel, \* input -> ADC1 channel; hal_adc.c: 0, 15, 3, 19 and 5
  HotSets,      \* the sets of flame channels that can be above 60000
  ShellReads    \* bound: how often o2_debug is run

O2_ADC_CHANNEL == 18
Inputs == 1 .. N
FlameChannels == {FlameChannel[i] : i \in Inputs}

ASSUME AdcAssumption ==
  /\ N \in Nat /\ N >= 1 /\ FIRE_MIN \in Nat
  /\ FlameChannel \in [Inputs -> Nat \ {O2_ADC_CHANNEL}]
  /\ \A i, j \in Inputs : FlameChannel[i] = FlameChannel[j] => i = j
  /\ HotSets \subseteq SUBSET FlameChannels /\ HotSets # {}
  /\ ShellReads \in Nat

None == -1
Zero == -2
Junk == -3
Channels == FlameChannels \cup {O2_ADC_CHANNEL}
Samples == Channels \cup {Zero}
Sources == Samples \cup {Junk}

\* The users of the ADC device.
Readers == {"o2_rd", "o2_debug"}

VARIABLES
  chan, aden, conv, eoc, dr, \* ADC1: SQR1, ADEN, the channel in conversion, EOC, DR
  fpc, k, adc,               \* the flame thread: next call, channel, the locals adc_chN
  g_adc, Flame,              \* what it publishes
  rpc, value,                \* each reader: next call, rt_adc_read()'s value
  o2_source,                 \* what g_o2_concentration was computed from
  hot,                       \* the flame channels above 60000 at present
  shell_reads                \* runs of o2_debug so far

adcVars == <<chan, aden, conv, eoc, dr>>
flameVars == <<fpc, k, adc, g_adc, Flame>>
readerVars == <<rpc, value, o2_source, shell_reads>>
vars == <<chan, aden, conv, eoc, dr, fpc, k, adc, g_adc, Flame, rpc, value,
          o2_source, hot, shell_reads>>

FlamePcs == {"sleep", "config", "start", "poll", "get", "stop", "publish"}
ReaderPcs == {"sleep", "on", "stop", "disable", "delay3", "config", "enable",
              "delay2", "start", "poll", "get", "stop2", "off", "done"}

TypeOK ==
  /\ chan \in Channels
  /\ aden \in BOOLEAN /\ eoc \in BOOLEAN
  /\ conv \in Channels \cup {None}
  /\ dr \in Samples
  /\ fpc \in FlamePcs /\ k \in Inputs
  /\ adc \in [Inputs -> Samples] /\ g_adc \in [Inputs -> Samples]
  /\ Flame \in BOOLEAN
  /\ rpc \in [Readers -> ReaderPcs]
  /\ value \in [Readers -> Sources]
  /\ o2_source \in Sources
  /\ hot \in HotSets
  /\ shell_reads \in 0 .. ShellReads

\* line_sensor_init and o2_sensor_init are done; ADC1 is enabled.
Init ==
  /\ chan = FlameChannel[1] /\ aden = TRUE /\ conv = None /\ eoc = FALSE /\ dr = Zero
  /\ fpc = "sleep" /\ k = 1
  /\ adc = [i \in Inputs |-> Zero] /\ g_adc = adc /\ Flame = FALSE
  /\ rpc = [r \in Readers |-> "sleep"]
  /\ value = [r \in Readers |-> Zero]
  /\ o2_source = Zero
  /\ hot \in HotSets
  /\ shell_reads = 0

-----------------------------------------------------------------------------
(* The HAL calls, on the registers. *)

HAL_ADC_ConfigChannel(c) == conv = None /\ chan' = c /\ UNCHANGED <<aden, conv, eoc, dr>>
HAL_ADC_Start ==
  /\ conv = None
  /\ aden' = TRUE /\ eoc' = FALSE /\ conv' = chan
  /\ UNCHANGED <<chan, dr>>
Busy == conv # None /\ UNCHANGED adcVars

\* HAL_ADC_PollForConversion sees EOC, or its 100 ms pass: a running conversion
\* takes microseconds, so only without one.
PollSeesEoc == eoc /\ eoc' = FALSE /\ UNCHANGED <<chan, aden, conv, dr>>
PollTimesOut == ~eoc /\ conv = None /\ UNCHANGED adcVars

\* Reading the data register clears EOC.
HAL_ADC_GetValue == eoc' = FALSE /\ UNCHANGED <<chan, aden, conv, dr>>
HAL_ADC_Stop == conv' = None /\ aden' = FALSE /\ UNCHANGED <<chan, eoc, dr>>
ADC_Enable == aden' = TRUE /\ UNCHANGED <<chan, conv, eoc, dr>>
ADC_Disable == aden' = (conv # None /\ aden) /\ UNCHANGED <<chan, conv, eoc, dr>>

ConversionEnds ==
  /\ conv # None
  /\ dr' = conv /\ eoc' = TRUE /\ conv' = None
  /\ UNCHANGED <<chan, aden, flameVars, readerVars, hot>>

-----------------------------------------------------------------------------
(* The flame thread. *)

\* Also after a stop: the handle's state keeps HAL_ADC_STATE_REG_EOC, so it is
\* not HAL_ADC_STATE_READY alone and the driver waits for it, 100 times 1 ms.
ShellSleeps == rpc["o2_debug"] \in {"sleep", "disable", "delay3", "delay2", "done"}

\* adc_read_channel() returns v; on to the next channel, or to the verdict.
NextChannel(v) ==
  /\ adc' = [adc EXCEPT ![k] = v]
  /\ k' = IF k < N THEN k + 1 ELSE 1
  /\ fpc' = IF k < N THEN "config" ELSE "publish"
  /\ UNCHANGED <<g_adc, Flame>>
Go(pc) == fpc' = pc /\ UNCHANGED <<k, adc, g_adc, Flame>>

FlameWake == fpc = "sleep" /\ Go("config") /\ UNCHANGED adcVars

ConfigUnchecked ==  \* mutant of FlameConfig
  /\ fpc = "config"
  /\ \/ HAL_ADC_ConfigChannel(FlameChannel[k]) /\ Go("start")
     \/ Busy /\ Go("start")
FlameConfig ==
  /\ fpc = "config"
  /\ \/ HAL_ADC_ConfigChannel(FlameChannel[k]) /\ Go("start")
     \/ Busy /\ NextChannel(Zero)

FlameStart ==
  /\ fpc = "start"
  /\ \/ HAL_ADC_Start /\ Go("poll")
     \/ Busy /\ NextChannel(Zero)

ValueNotZeroed ==  \* mutant of FlamePoll: adc_value has no initial value
  /\ fpc = "poll"
  /\ \/ PollSeesEoc /\ Go("get")
     \/ /\ PollTimesOut
        /\ adc' = [adc EXCEPT ![k] = Junk]
        /\ fpc' = "stop"
        /\ UNCHANGED <<k, g_adc, Flame>>

\* A timeout leaves adc_value 0; both ways lead to HAL_ADC_Stop.
FlamePoll ==
  /\ fpc = "poll"
  /\ \/ PollSeesEoc /\ Go("get")
     \/ /\ PollTimesOut
        /\ adc' = [adc EXCEPT ![k] = Zero]
        /\ fpc' = "stop"
        /\ UNCHANGED <<k, g_adc, Flame>>

FlameGet ==
  /\ fpc = "get"
  /\ HAL_ADC_GetValue
  /\ adc' = [adc EXCEPT ![k] = dr]
  /\ fpc' = "stop"
  /\ UNCHANGED <<k, g_adc, Flame>>

FlameStop == fpc = "stop" /\ HAL_ADC_Stop /\ NextChannel(adc[k])

\* fire_count, the number of values above 60000, decides.
FireCount == Cardinality({i \in Inputs : adc[i] \in hot})
FlameOffByOne == FireCount >= FIRE_MIN - 1  \* mutant of FlameVerdict
FlameVerdict == FireCount >= FIRE_MIN

FlamePublish ==
  /\ fpc = "publish"
  /\ g_adc' = adc
  /\ Flame' = FlameVerdict
  /\ fpc' = "sleep"
  /\ adc' = [i \in Inputs |-> Zero]  \* the locals are dead until the next round
  /\ UNCHANGED <<adcVars, k>>

FlameThread ==
  /\ ShellSleeps
  /\ \/ FlameWake \/ FlameConfig \/ FlameStart \/ FlamePoll \/ FlameGet
     \/ FlameStop \/ FlamePublish
  /\ UNCHANGED <<readerVars, hot>>

-----------------------------------------------------------------------------
(* rt_adc_read(adc_dev, 18), in the oxygen thread and in the shell. *)

Runs(r) == r = "o2_debug" \/ ShellSleeps

Step(r, from, to) ==
  /\ Runs(r) /\ rpc[r] = from
  /\ rpc' = [rpc EXCEPT ![r] = to]

\* Wake up and read; o2_debug enables the converter first.
ReaderWake(r) ==
  /\ UNCHANGED <<adcVars, value, o2_source>>
  /\ \/ r = "o2_rd" /\ Step(r, "sleep", "stop") /\ UNCHANGED shell_reads
     \/ /\ r = "o2_debug" /\ Step(r, "sleep", "on")
        /\ shell_reads < ShellReads /\ shell_reads' = shell_reads + 1

\* The calls whose result stm32_get_adc_value ignores, with its delays.
ReaderCall(r) ==
  /\ \/ Step(r, "on", "stop") /\ ADC_Enable
     \/ Step(r, "stop", "disable") /\ HAL_ADC_Stop
     \/ Step(r, "disable", "delay3") /\ ADC_Disable
     \/ Step(r, "delay3", "config") /\ UNCHANGED adcVars
     \/ Step(r, "enable", "delay2") /\ ADC_Enable
     \/ Step(r, "delay2", "start") /\ UNCHANGED adcVars
     \/ Step(r, "start", "poll") /\ (HAL_ADC_Start \/ Busy)
     \/ Step(r, "poll", "get") /\ (PollSeesEoc \/ PollTimesOut)
     \/ Step(r, "stop2", "done") /\ HAL_ADC_Stop
  /\ UNCHANGED <<value, o2_source, shell_reads>>

\* A failed configuration returns before *value is written.
ReaderConfig(r) ==
  /\ \/ /\ Step(r, "config", "enable")
        /\ HAL_ADC_ConfigChannel(O2_ADC_CHANNEL)
        /\ UNCHANGED value
     \/ /\ Step(r, "config", "done")
        /\ Busy
        /\ value' = [value EXCEPT ![r] = Junk]
  /\ UNCHANGED <<o2_source, shell_reads>>

ReaderGet(r) ==
  /\ Step(r, "get", "stop2")
  /\ HAL_ADC_GetValue
  /\ value' = [value EXCEPT ![r] = dr]
  /\ UNCHANGED <<o2_source, shell_reads>>

\* o2_read_once: g_o2_concentration is computed from the value; o2_debug only
\* prints it, and disables the converter.
ReaderDone(r) ==
  /\ UNCHANGED shell_reads
  /\ value' = [value EXCEPT ![r] = Zero]  \* a dead local
  /\ \/ /\ r = "o2_rd" /\ Step(r, "done", "sleep")
        /\ o2_source' = value[r]
        /\ UNCHANGED adcVars
     \/ r = "o2_debug" /\ Step(r, "done", "off") /\ UNCHANGED <<adcVars, o2_source>>
     \/ Step(r, "off", "sleep") /\ ADC_Disable /\ UNCHANGED o2_source

Reader(r) ==
  /\ ReaderWake(r) \/ ReaderCall(r) \/ ReaderConfig(r) \/ ReaderGet(r) \/ ReaderDone(r)
  /\ UNCHANGED <<flameVars, hot>>

-----------------------------------------------------------------------------
\* The flames change between two rounds of the flame thread.
HotChanges ==
  /\ fpc = "sleep"
  /\ hot' \in HotSets
  /\ UNCHANGED <<adcVars, flameVars, readerVars>>

Next ==
  \/ FlameThread
  \/ \E r \in Readers : Reader(r)
  \/ ConversionEnds
  \/ HotChanges

Spec == Init /\ [][Next]_vars

-----------------------------------------------------------------------------
(* Properties. *)

\* However the oxygen readers disturb its conversions, the flame thread raises
\* no false alarm: it sets Flame only when as many inputs as it takes really are
\* above the threshold (an oxygen cell's signal is far below it).
NoFalseAlarm == [][Flame' /\ ~Flame => Cardinality(hot) >= FIRE_MIN]_vars

\* What makes it so: a value the flame thread samples is its own channel's, the
\* oxygen cell's or zero, never another flame channel's counted twice.
OwnChannelOrHarmless ==
  /\ \A i \in Inputs : adc[i] \in {FlameChannel[i], O2_ADC_CHANNEL, Zero}
  /\ \A i \in Inputs : g_adc[i] \in {FlameChannel[i], O2_ADC_CHANNEL, Zero}

\* "rt_adc_read(dev, 18)" reads channel 18 (openspec/specs/sensor-acquisition/
\* spec.md): the value it reads for the oxygen concentration is never another
\* channel's, although the driver sleeps between selecting and converting it.
\* (If it reads none, because it cannot select its channel, rt_adc_read() returns an
\* uninitialised variable: Junk, which is not what this is about.)
O2FromItsChannel == o2_source \in {O2_ADC_CHANNEL, Zero, Junk}
=============================================================================
