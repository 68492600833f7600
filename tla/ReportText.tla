----------------------------- MODULE ReportText -----------------------------
(***************************************************************************)
(* The text of the reports: what the three builders read, in which order,  *)
(* and how long the text gets.  The builders are step 7 of the cloud       *)
(* thread (huaweiCloudApp.c), build_sensor_json (ethApp.c) and             *)
(* lora_build_text (loraApp.c).                                            *)
(*                                                                         *)
(* rt_snprintf does not know %f, so a float is printed from two integers.  *)
(* A float is represented by these: i = (int)val and                       *)
(* d = (int)((val - i) * 100), converted as the FPU does it, that is, out  *)
(* of range values saturate and NaN is zero.                               *)
(***************************************************************************)
EXTENDS Integers, Sequences

INT_MAX == 2147483647
INT_MIN == -INT_MAX - 1

\* The pairs that the conversions of a float can give: below 2^31 d has i's
\* sign and is less than 100, beyond it i is saturated and d is anything.
IsFloat(f) ==
  \/ f.i \in 0 .. INT_MAX /\ f.d \in 0 .. 99
  \/ f.i \in INT_MIN .. 0 /\ f.d \in -99 .. 0
  \/ f.i = INT_MAX /\ f.d \in 0 .. INT_MAX
  \/ f.i = INT_MIN /\ f.d \in INT_MIN .. 0

\* if (dec_part < 0) dec_part = -dec_part; in 32 bits.
Negated(d) == IF d < 0 /\ d # INT_MIN THEN -d ELSE d

-----------------------------------------------------------------------------
(* Lengths, as rt_snprintf returns them. *)

\* Decimal digits of a number; the printing loop divides it as an unsigned one.
Digits(n) ==
  IF n < 10 THEN 1 ELSE IF n < 100 THEN 2 ELSE IF n < 1000 THEN 3 ELSE IF n < 10000 THEN 4
  ELSE IF n < 100000 THEN 5 ELSE IF n < 1000000 THEN 6 ELSE IF n < 10000000 THEN 7
  ELSE IF n < 100000000 THEN 8 ELSE IF n < 1000000000 THEN 9 ELSE 10

\* "%d" and "%u"
IntLen(n) == IF n >= 0 THEN Digits(n) ELSE IF n = INT_MIN THEN 11 ELSE 1 + Digits(-n)

\* "%02d"
PaddedLen(n) == IF IntLen(n) < 2 THEN 2 ELSE IntLen(n)

\* The numbers of "%d.%02d", without the point.
FloatLen(f) == IntLen(f.i) + PaddedLen(Negated(f.d))

-----------------------------------------------------------------------------
(* The layouts.  A builder is a sequence of the variables it loads, each    *)
(* with the number of characters that go with it: the fixed text of the     *)
(* format up to the next conversion.                                        *)

\* Five flame inputs, methane, and the verdict of the flame thread are
\* integers, all others are floats.
Counts == {"g_adc_ch0", "g_adc_ch1", "g_adc_ch3", "g_adc_ch4", "g_adc_ch5",
           "g_methane_ppm", "g_methane_lel", "Flame"}
Floats == {"Voltage0", "Voltage1", "Voltage2", "Current0", "Current1", "Current2", "Flow",
           "g_temperature_c", "g_humidity_rh", "g_o2_concentration", "Displacement",
           "g_stress_value_n"}
Shown == Counts \cup Floats

Item(var, chars) == [var |-> var, chars |-> chars]

\* "chN":%u, and the two methane fields, after a header of `head' characters
CountFields(head) ==
  << Item("g_adc_ch0", head + 7), Item("g_adc_ch1", 7), Item("g_adc_ch3", 7),
     Item("g_adc_ch4", 7), Item("g_adc_ch5", 7),
     Item("g_methane_ppm", 15), Item("g_methane_lel", 15) >>

\* append_float_field / append_float: "key":%d.%02d, and the comma behind it
FloatFields ==
  << Item("Voltage0", 14), Item("Voltage1", 14), Item("Voltage2", 14),
     Item("Current0", 14), Item("Current1", 14), Item("Current2", 14),
     Item("Flow", 9), Item("g_temperature_c", 16), Item("g_humidity_rh", 13),
     Item("g_o2_concentration", 7), Item("Displacement", 17), Item("g_stress_value_n", 11) >>

\* Header {"services":[{"service_id":"Smarthome","properties":{ ; then "flame":%d}}]}
CloudLayout == CountFields(53) \o FloatFields \o << Item("Flame", 12) >>

\* Header {"device_id":"pipe_gallery_node_01","data":{ ; then "flame":%d}}\n
LongerDeviceId == CountFields(45) \o FloatFields \o << Item("Flame", 11) >>  \* mutant of EthLayout
EthLayout == CountFields(44) \o FloatFields \o << Item("Flame", 11) >>

\* The floats are cut to int first.
LoraLayout ==
  << Item("Voltage0", 12), Item("Voltage1", 13), Item("Voltage2", 15),
     Item("Current0", 12), Item("Current1", 13), Item("Current2", 15),
     Item("Flow", 14),
     Item("g_adc_ch0", 7), Item("g_adc_ch1", 1), Item("g_adc_ch3", 1),
     Item("g_adc_ch4", 1), Item("g_adc_ch5", 3),
     Item("g_methane_ppm", 10), Item("g_methane_lel", 13) >>

\* The shell command "sensors" prints as it goes and has no buffer.
ShellLayout ==
  << Item("g_adc_ch0", 0), Item("g_adc_ch1", 0), Item("g_adc_ch3", 0),
     Item("g_adc_ch4", 0), Item("g_adc_ch5", 0),
     Item("g_temperature_c", 0), Item("g_humidity_rh", 0),
     Item("g_methane_ppm", 0), Item("g_methane_lel", 0), Item("g_o2_concentration", 0),
     Item("Displacement", 0), Item("g_stress_value_n", 0),
     Item("Current0", 0), Item("Current1", 0), Item("Current2", 0),
     Item("Voltage0", 0), Item("Voltage1", 0), Item("Voltage2", 0) >>
=============================================================================
