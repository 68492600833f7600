--------------------------- MODULE AdcShareProofs ---------------------------
(***************************************************************************)
(* The flame thread's samples and its alarm, for any number of inputs,     *)
(* any threshold and any number of runs of o2_debug.                       *)
(***************************************************************************)
EXTENDS AdcShare, FiniteSetTheorems, TLAPS

\* What may be converted while the flame thread samples input k: every other
\* reader only ever configures the oxygen cell's channel.
Own == {FlameChannel[k], O2_ADC_CHANNEL}

\* The registers at each point of adc_read_channel().
SamplingInv ==
  /\ fpc = "start" => chan \in Own
  /\ fpc \in {"poll", "get"} => chan \in Own /\ conv \in Own \cup {None}
  /\ fpc = "poll" /\ eoc => dr \in Own
  /\ fpc = "get" => dr \in Own

AdcInv == TypeOK /\ OwnChannelOrHarmless /\ SamplingInv

USE DEF O2_ADC_CHANNEL, None, Zero, Junk

-----------------------------------------------------------------------------
\* No sample has been taken when the threads start.
LEMMA InitInv == Init => AdcInv
<1> SUFFICES ASSUME Init PROVE AdcInv
    OBVIOUS
<1>1. 1 \in Inputs
  BY AdcAssumption DEF Inputs
<1>2. TypeOK
  <2>1. FlameChannel[1] \in Channels
    BY <1>1 DEF Channels, FlameChannels
  <2>2. Zero \in Samples /\ Zero \in Sources /\ 0 \in 0 .. ShellReads
    BY AdcAssumption DEF Samples, Sources
  <2> QED
    BY <1>1, <2>1, <2>2 DEF Init, TypeOK, FlamePcs, ReaderPcs
<1>3. OwnChannelOrHarmless /\ SamplingInv
  BY DEF Init, OwnChannelOrHarmless, SamplingInv
<1> QED BY <1>2, <1>3 DEF AdcInv

\* Storing a harmless value for input k.
LEMMA Store ==
  ASSUME AdcInv, NEW v \in {FlameChannel[k], O2_ADC_CHANNEL, Zero},
         adc' = [adc EXCEPT ![k] = v], UNCHANGED g_adc
  PROVE  /\ adc' \in [Inputs -> Samples]
         /\ OwnChannelOrHarmless'
<1>1. k \in Inputs /\ adc \in [Inputs -> Samples]
  BY DEF AdcInv, TypeOK
<1>2. v \in Samples
  BY <1>1 DEF Samples, Channels, FlameChannels
<1>3. adc' \in [Inputs -> Samples]
  BY <1>1, <1>2
<1>4. \A i \in Inputs : adc'[i] = IF i = k THEN v ELSE adc[i]
  BY <1>1
<1>5. OwnChannelOrHarmless'
  BY <1>1, <1>4 DEF AdcInv, OwnChannelOrHarmless
<1> QED BY <1>3, <1>5

\* The flame thread's own calls keep its sample its own channel's or harmless.
LEMMA FlameStep == AdcInv /\ FlameThread => AdcInv'
<1> SUFFICES ASSUME AdcInv, FlameThread PROVE AdcInv'
    OBVIOUS
<1> USE DEF AdcInv
<1>0. k \in Inputs /\ FlameChannel[k] \in Channels /\ O2_ADC_CHANNEL \in Channels
      /\ FlameChannel[k] \in Nat /\ N \in Nat
  BY AdcAssumption DEF TypeOK, Channels, FlameChannels
<1>1. CASE FlameWake
  BY <1>1 DEF FlameThread, FlameWake, Go, adcVars, readerVars, TypeOK, FlamePcs,
     OwnChannelOrHarmless, SamplingInv, Own
<1>2. CASE FlameConfig
  <2>1. CASE HAL_ADC_ConfigChannel(FlameChannel[k]) /\ Go("start")
    BY <1>0, <1>2, <2>1 DEF FlameThread, FlameConfig, HAL_ADC_ConfigChannel, Go,
       readerVars, TypeOK, FlamePcs, OwnChannelOrHarmless, SamplingInv, Own
  <2>2. CASE Busy /\ NextChannel(Zero)
    <3>1. adc' \in [Inputs -> Samples] /\ OwnChannelOrHarmless'
      BY <2>2, Store DEF NextChannel
    <3>2. k' \in Inputs /\ fpc' \in {"config", "publish"}
      BY <1>0, <2>2 DEF NextChannel, Inputs
    <3> QED
      BY <2>2, <3>1, <3>2 DEF FlameThread, Busy, NextChannel, adcVars, readerVars,
         TypeOK, FlamePcs, SamplingInv
  <2> QED BY <1>2, <2>1, <2>2 DEF FlameConfig
<1>3. CASE FlameStart
  <2>1. CASE HAL_ADC_Start /\ Go("poll")
    BY <1>0, <1>3, <2>1 DEF FlameThread, FlameStart, HAL_ADC_Start, Go, readerVars,
       TypeOK, FlamePcs, OwnChannelOrHarmless, SamplingInv, Own
  <2>2. CASE Busy /\ NextChannel(Zero)
    <3>1. adc' \in [Inputs -> Samples] /\ OwnChannelOrHarmless'
      BY <2>2, Store DEF NextChannel
    <3>2. k' \in Inputs /\ fpc' \in {"config", "publish"}
      BY <1>0, <2>2 DEF NextChannel, Inputs
    <3> QED
      BY <2>2, <3>1, <3>2 DEF FlameThread, Busy, NextChannel, adcVars, readerVars,
         TypeOK, FlamePcs, SamplingInv
  <2> QED BY <1>3, <2>1, <2>2 DEF FlameStart
<1>4. CASE FlamePoll
  <2>1. CASE PollSeesEoc /\ Go("get")
    BY <1>0, <1>4, <2>1 DEF FlameThread, FlamePoll, PollSeesEoc, Go, readerVars,
       TypeOK, FlamePcs, OwnChannelOrHarmless, SamplingInv, Own
  <2>2. CASE PollTimesOut /\ adc' = [adc EXCEPT ![k] = Zero] /\ fpc' = "stop"
             /\ UNCHANGED <<k, g_adc, Flame>>
    <3>1. adc' \in [Inputs -> Samples] /\ OwnChannelOrHarmless'
      BY <2>2, Store
    <3> QED
      BY <2>2, <3>1 DEF FlameThread, PollTimesOut, adcVars, readerVars,
         TypeOK, FlamePcs, SamplingInv
  <2> QED BY <1>4, <2>1, <2>2 DEF FlamePoll
<1>5. CASE FlameGet
  <2>1. adc' \in [Inputs -> Samples] /\ OwnChannelOrHarmless'
    BY <1>5, Store DEF FlameGet, SamplingInv, Own
  <2> QED
    BY <1>5, <2>1 DEF FlameThread, FlameGet, HAL_ADC_GetValue, readerVars,
       TypeOK, FlamePcs, SamplingInv
<1>6. CASE FlameStop
  <2>1. adc' \in [Inputs -> Samples] /\ OwnChannelOrHarmless'
    BY <1>0, <1>6, Store DEF FlameStop, NextChannel, OwnChannelOrHarmless
  <2>2. k' \in Inputs /\ fpc' \in {"config", "publish"}
    BY <1>0, <1>6 DEF FlameStop, NextChannel, Inputs
  <2> QED
    BY <1>6, <2>1, <2>2 DEF FlameThread, FlameStop, HAL_ADC_Stop, NextChannel,
       readerVars, TypeOK, FlamePcs, SamplingInv
<1>7. CASE FlamePublish
  <2>1. OwnChannelOrHarmless' /\ SamplingInv'
    BY <1>7 DEF FlamePublish, OwnChannelOrHarmless, SamplingInv
  <2>2. Flame' \in BOOLEAN
    BY <1>7 DEF FlamePublish, FlameVerdict
  <2> QED
    BY <1>7, <2>1, <2>2 DEF FlameThread, FlamePublish, adcVars, readerVars,
       TypeOK, FlamePcs, Samples
<1> QED BY <1>1, <1>2, <1>3, <1>4, <1>5, <1>6, <1>7 DEF FlameThread

\* A reader configures channel 18 or nothing, and starts what is configured.
LEMMA ReaderStep == ASSUME AdcInv, NEW r \in Readers, Reader(r) PROVE AdcInv'
<1> USE DEF AdcInv
<1>0. O2_ADC_CHANNEL \in Channels
  BY DEF Channels
<1>1. OwnChannelOrHarmless' /\ UNCHANGED <<fpc, k, adc, g_adc, Flame, hot>>
  BY DEF Reader, flameVars, OwnChannelOrHarmless
<1>2. CASE ReaderWake(r)
  <2>1. rpc' \in [Readers -> ReaderPcs] /\ shell_reads' \in 0 .. ShellReads
    BY <1>2, AdcAssumption DEF ReaderWake, Step, TypeOK, ReaderPcs
  <2> QED
    BY <1>1, <1>2, <2>1 DEF ReaderWake, adcVars, TypeOK, SamplingInv, Own
<1>3. CASE ReaderCall(r)
  <2>1. rpc' \in [Readers -> ReaderPcs]
    BY <1>3 DEF ReaderCall, Step, TypeOK, ReaderPcs
  <2>2. chan' = chan /\ dr' = dr
    BY <1>3 DEF ReaderCall, HAL_ADC_Stop, HAL_ADC_Start, Busy, PollSeesEoc,
       PollTimesOut, ADC_Enable, ADC_Disable, adcVars
  <2>3. conv' \in {conv, chan, None}
    BY <1>3 DEF ReaderCall, HAL_ADC_Stop, HAL_ADC_Start, Busy, PollSeesEoc,
       PollTimesOut, ADC_Enable, ADC_Disable, adcVars
  <2>4. eoc' = eoc \/ eoc' = FALSE
    BY <1>3 DEF ReaderCall, HAL_ADC_Stop, HAL_ADC_Start, Busy, PollSeesEoc,
       PollTimesOut, ADC_Enable, ADC_Disable, adcVars
  <2>5. aden' \in BOOLEAN
    BY <1>3, Zenon DEF ReaderCall, HAL_ADC_Stop, HAL_ADC_Start, Busy, PollSeesEoc,
       PollTimesOut, ADC_Enable, ADC_Disable, adcVars, TypeOK
  <2>6. SamplingInv'
    BY <1>1, <2>2, <2>3, <2>4 DEF SamplingInv, Own
  <2> QED
    BY <1>1, <1>3, <2>1, <2>2, <2>3, <2>4, <2>5, <2>6 DEF ReaderCall, TypeOK
<1>4. CASE ReaderConfig(r)
  <2>1. rpc' \in [Readers -> ReaderPcs] /\ value' \in [Readers -> Sources]
    BY <1>4 DEF ReaderConfig, Step, TypeOK, ReaderPcs, Samples, Sources
  <2> QED
    BY <1>0, <1>1, <1>4, <2>1 DEF ReaderConfig, HAL_ADC_ConfigChannel, Busy, adcVars,
       TypeOK, SamplingInv, Own
<1>5. CASE ReaderGet(r)
  <2>1. rpc' \in [Readers -> ReaderPcs] /\ value' \in [Readers -> Sources]
    BY <1>5 DEF ReaderGet, Step, TypeOK, ReaderPcs, Samples, Sources
  <2> QED
    BY <1>1, <1>5, <2>1 DEF ReaderGet, HAL_ADC_GetValue, TypeOK, SamplingInv, Own
<1>6. CASE ReaderDone(r)
  <2>1. rpc' \in [Readers -> ReaderPcs] /\ value' \in [Readers -> Sources]
        /\ o2_source' \in Sources
    BY <1>6 DEF ReaderDone, Step, TypeOK, ReaderPcs, Samples, Sources
  <2>2. aden' \in BOOLEAN
    BY <1>6, Zenon DEF ReaderDone, ADC_Disable, adcVars, TypeOK
  <2>3. UNCHANGED <<chan, conv, eoc, dr, shell_reads>>
    BY <1>6 DEF ReaderDone, ADC_Disable, adcVars
  <2> QED
    BY <1>1, <2>1, <2>2, <2>3 DEF TypeOK, SamplingInv, Own
<1> QED BY <1>2, <1>3, <1>4, <1>5, <1>6 DEF Reader

\* No step of a thread, the shell or the converter leaves the invariant.
LEMMA NextInv == AdcInv /\ [Next]_vars => AdcInv'
<1> SUFFICES ASSUME AdcInv, [Next]_vars PROVE AdcInv'
    OBVIOUS
<1>1. CASE ConversionEnds
  BY <1>1 DEF ConversionEnds, flameVars, readerVars, AdcInv, TypeOK, Samples,
     OwnChannelOrHarmless, SamplingInv, Own
<1>2. CASE HotChanges
  BY <1>2 DEF HotChanges, adcVars, flameVars, readerVars, AdcInv, TypeOK,
     OwnChannelOrHarmless, SamplingInv, Own
<1>3. CASE UNCHANGED vars
  BY <1>3 DEF vars, AdcInv, TypeOK, OwnChannelOrHarmless, SamplingInv, Own
<1> QED BY <1>1, <1>2, <1>3, FlameStep, ReaderStep DEF Next

\* The shared registers and the threads' variables keep their types: the flame
\* thread never leaves its five inputs, nobody selects a channel out of range.
THEOREM TypeCorrect == Spec => []TypeOK
<1>1. AdcInv => TypeOK
  BY DEF AdcInv
<1> QED BY <1>1, InitInv, NextInv, PTL DEF Spec

\* A sampled value of the flame thread is its own channel's, the oxygen cell's or
\* zero, whatever the readers of the ADC device do to the shared converter.
THEOREM SamplesHarmless == Spec => []OwnChannelOrHarmless
<1>1. AdcInv => OwnChannelOrHarmless
  BY DEF AdcInv
<1> QED BY <1>1, InitInv, NextInv, PTL DEF Spec

-----------------------------------------------------------------------------
\* There are finitely many flame inputs, so that the hot ones can be counted.
LEMMA FlamesFinite == IsFiniteSet(Inputs) /\ IsFiniteSet(FlameChannels)
<1>1. IsFiniteSet(Inputs)
  BY AdcAssumption, FS_Interval DEF Inputs
<1>2. FlameChannel \in Surjection(Inputs, FlameChannels)
  BY AdcAssumption DEF Surjection, FlameChannels
<1> QED BY <1>1, <1>2, FS_Surjection

\* The values that count as hot belong to different inputs that are hot.
LEMMA CountIsBounded == AdcInv => FireCount <= Cardinality(hot)
<1> SUFFICES ASSUME AdcInv PROVE FireCount <= Cardinality(hot)
    OBVIOUS
<1> DEFINE S == {i \in Inputs : adc[i] \in hot}
           f == [i \in S |-> FlameChannel[i]]
<1>1. hot \subseteq FlameChannels
  BY AdcAssumption DEF AdcInv, TypeOK
<1>2. IsFiniteSet(hot)
  BY <1>1, FlamesFinite, FS_Subset
<1>3. \A c \in hot : c \in Nat /\ c # O2_ADC_CHANNEL
  BY <1>1, AdcAssumption DEF FlameChannels
<1>4. \A i \in S : FlameChannel[i] \in hot
  BY <1>3 DEF AdcInv, OwnChannelOrHarmless
<1>5. f \in Injection(S, hot)
  BY <1>4, AdcAssumption DEF Injection, IsInjective
<1>6. Cardinality(S) <= Cardinality(hot)
  BY <1>2, <1>5, FS_Injection
<1> QED BY <1>6 DEF FireCount

\* The flame thread reports a fire only when enough inputs are above the
\* threshold, in spite of the readers that reconfigure its converter.
THEOREM AlarmIsReal == Spec => NoFalseAlarm
<1>1. ASSUME AdcInv, [Next]_vars
      PROVE  [Flame' /\ ~Flame => Cardinality(hot) >= FIRE_MIN]_vars
  <2> SUFFICES ASSUME Next, Flame', ~Flame PROVE Cardinality(hot) >= FIRE_MIN
      BY <1>1 DEF vars
  <2>1. FlamePublish
    BY DEF Next, FlameThread, FlameWake, FlameConfig, FlameStart, FlamePoll, FlameGet,
       FlameStop, Go, NextChannel, Reader, ConversionEnds, HotChanges, flameVars
  <2>2. FireCount >= FIRE_MIN
    BY <2>1 DEF FlamePublish, FlameVerdict
  <2>3. IsFiniteSet(hot) /\ IsFiniteSet({i \in Inputs : adc[i] \in hot})
    BY <1>1, FlamesFinite, FS_Subset, AdcAssumption DEF AdcInv, TypeOK
  <2>4. Cardinality(hot) \in Nat /\ FireCount \in Nat /\ FIRE_MIN \in Nat
    BY <2>3, FS_CardinalityType, AdcAssumption DEF FireCount
  <2> QED BY <1>1, <2>2, <2>4, CountIsBounded
<1> QED BY <1>1, InitInv, NextInv, PTL DEF Spec, NoFalseAlarm
=============================================================================
