------------------------------ MODULE Telemetry ------------------------------
(***************************************************************************)
(* From the sensors to the reports.  Every sensor thread publishes its     *)
(* readings in global variables, one store after the other; the reporters, *)
(* threads of other priorities, load them one after the other and put them *)
(* into a text.  Nothing but the priorities keeps them apart: a thread     *)
(* runs only while no thread with a lower number is ready, and threads     *)
(* with the same number share the processor in slices.  The shell is on    *)
(* both sides: its command `sensors' shows the readings, and uart2_debug   *)
(* publishes the methane frames while it has the stream (MethaneRx).       *)
(*                                                                         *)
(* A variable holds the value and, for the properties, the number of the   *)
(* publication it came from.  Reporters do not disturb each other, so one  *)
(* of them at a time is looked at.  Variables that no reporter loads are   *)
(* left out.                                                               *)
(***************************************************************************)
EXTENDS Sht30, ReportText

CONSTANTS
  Profiles,        \* values the variables may have when we begin to look
  Samples,         \* group -> the sequences of values that may be published
  O2Products,      \* (rt_int32_t)(raw - O2_ZERO_OFFSET) * 209, as 32 bits hold it
  MaxPublications  \* bound: publications we look at

\* What each thread publishes, in the order of the stores; Response_FrameCheck_Uart
\* makes the methane stores for the thread and for uart2_debug.
Stores ==
  [methane |-> <<"g_methane_ppm", "g_methane_lel">>,
   uart2_debug |-> <<"g_methane_ppm", "g_methane_lel">>,
   flame |-> <<"g_adc_ch0", "g_adc_ch1", "g_adc_ch3", "g_adc_ch4", "g_adc_ch5", "Flame">>,
   sht30 |-> <<"g_temperature_c", "g_humidity_rh">>,
   o2 |-> <<"g_o2_concentration">>,
   flow |-> <<"Flow">>,
   displacement |-> <<"Displacement">>,
   stress |-> <<"g_stress_value_n">>,
   voltage |-> <<"Voltage0", "Voltage1", "Voltage2">>,
   current |-> <<"Current0", "Current1", "Current2">>]
Groups == DOMAIN Stores
VarsOf(grp) == {Stores[grp][k] : k \in DOMAIN Stores[grp]}

\* The groups that are stores to the same variables.
Alike(grp) == {b \in Groups : VarsOf(b) = VarsOf(grp)}

ModbusGroups == {"flow", "displacement", "stress", "voltage", "current"}
SensorGroups == Groups \ ModbusGroups

Publisher ==
  [grp \in Groups |->
     CASE grp = "methane" -> "uart2_rx" [] grp = "uart2_debug" -> "tshell"
       [] grp = "flame" -> "adc_read" [] grp = "sht30" -> "sht30_rd" [] grp = "o2" -> "o2_rd"
       [] OTHER -> "md_m_send"]
Publishers == {"uart2_rx", "tshell", "adc_read", "sht30_rd", "o2_rd", "md_m_send"}
Reporters == {"tshell", "eth_tcp", "lora_tx", "hw_cloud"}
Threads == Publishers \cup Reporters

\* The priorities the threads are created with; a lower number goes first.
EthBehind ==  \* mutant of PRIO
  [t \in Threads |-> CASE t = "tshell" -> 20 [] t \in {"eth_tcp", "hw_cloud"} -> 26
                       [] t = "md_m_send" -> 29 [] OTHER -> 25]
CloudAmongSensors ==  \* mutant of PRIO
  [t \in Threads |-> CASE t = "tshell" -> 20 [] t = "eth_tcp" -> 24
                       [] t = "md_m_send" -> 29 [] OTHER -> 25]
PRIO ==
  [t \in Threads |-> CASE t = "tshell" -> 20 [] t = "eth_tcp" -> 24 [] t = "hw_cloud" -> 26
                       [] t = "md_m_send" -> 29 [] OTHER -> 25]

Layout == [tshell |-> ShellLayout, eth_tcp |-> EthLayout, lora_tx |-> LoraLayout,
           hw_cloud |-> CloudLayout]

\* eth_json_buf, text_buf, json_buf
BufSize == [eth_tcp |-> 512, lora_tx |-> 256, hw_cloud |-> 600]

\* The largest oxygen value, see O2Tenths.
O2_LIMIT == 89107

\* The ranges of the published values: a 16-bit converter, a 16-bit ppm, an
\* 8-bit LEL, an SHT30, a 16-bit displacement with its zero taken off, and an
\* oxygen value computed in 32 bits from whatever the driver returned, which may
\* be uninitialised.  The other floats are a device's registers or can exceed
\* every integer.
InRange(var, v) ==
  CASE var \in {"g_adc_ch0", "g_adc_ch1", "g_adc_ch3", "g_adc_ch4", "g_adc_ch5", "g_methane_ppm"} ->
         v \in Words
    [] var = "g_methane_lel" -> v \in 0 .. 255
    [] var = "Flame" -> v \in 0 .. 1
    [] var = "g_temperature_c" -> IsFloat(v) /\ v.i \in -45 .. 130 /\ v.d \in -99 .. 99
    [] var = "g_humidity_rh" -> IsFloat(v) /\ v.i \in 0 .. 100 /\ v.d \in 0 .. 99
    [] var = "Displacement" -> IsFloat(v) /\ v.i \in 0 .. 1630 /\ v.d \in 0 .. 99
    [] var = "g_o2_concentration" -> IsFloat(v) /\ v.i \in -O2_LIMIT .. O2_LIMIT /\ v.d \in -99 .. 99
    [] OTHER -> IsFloat(v)

\* o2_read_once: tenths of a percent, cut towards zero, and steadied near air's
\* value; then a float, whose second decimal may come out one lower (20.9f is
\* less than 20.9).
O2Tenths(product) ==
  LET o2_x10 == IF product >= 0 THEN product \div 2410 ELSE (product + 2409) \div 2410
  IN IF o2_x10 \in 207 .. 211 THEN 209 ELSE o2_x10
O2Percent(product) ==
  LET h == FromHundredths(10 * O2Tenths(product))
  IN {h} \cup (IF h.d = 0 THEN {} ELSE {[h EXCEPT !.d = IF @ > 0 THEN @ - 1 ELSE @ + 1]})

ASSUME TelemetryAssumption ==
  /\ \A p \in Profiles : DOMAIN p = Shown /\ \A x \in Shown : InRange(x, p[x])
  /\ O2Products \subseteq INT_MIN .. INT_MAX
  /\ DOMAIN Samples = Groups \ {"sht30", "o2"}
  /\ \A grp \in DOMAIN Samples : \A s \in Samples[grp] :
       DOMAIN s = DOMAIN Stores[grp] /\ \A k \in DOMAIN s : InRange(Stores[grp][k], s[k])
  /\ MaxPublications \in Nat

VARIABLES
  g,            \* the global variables: value v of publication number n
  todo,         \* publisher -> the stores it has still to make
  sht,          \* sht30_rd in sht30_read_once: where it is, the sensor's
                \* measurement, whether the answer was intact, what came of it
  who, idx,     \* the reporter we look at, and how many items it has loaded
  got,          \* the publication each item was loaded from, or None
  pos,          \* the reporter's pos: the length of its text
  moved,        \* observer: the groups stored to since it began
  publications  \* publications so far

reportVars == <<idx, got, pos>>
vars == <<g, todo, sht, who, idx, got, pos, moved, publications>>

None == -1
Nothing == [x \in Shown |-> None]
Numbers == 0 .. MaxPublications

TypeOK ==
  /\ DOMAIN g = Shown
  /\ \A x \in Shown : g[x].n \in Numbers /\ InRange(x, g[x].v)
  /\ DOMAIN todo = Publishers
  /\ \A t \in Publishers : Len(todo[t]) <= 6
  /\ sht \in [pc : {"nap", "measuring", "decoded"}, m : Measurements, intact : BOOLEAN,
              read : (Words \X Words) \cup {ReadFailed}]
  /\ who \in Reporters /\ idx \in 0 .. Len(Layout[who])
  /\ got \in [Shown -> Numbers \cup {None}]
  /\ pos \in Nat
  /\ moved \subseteq Groups
  /\ publications \in Numbers

Init ==
  /\ \E p \in Profiles : g = [x \in Shown |-> [n |-> 0, v |-> p[x]]]
  /\ todo = [t \in Publishers |-> <<>>]
  /\ \E m \in Measurements : sht = [pc |-> "nap", m |-> m, intact |-> TRUE, read |-> ReadFailed]
  /\ who \in Reporters /\ idx = 0 /\ got = Nothing /\ pos = 0
  /\ moved = {} /\ publications = 0

-----------------------------------------------------------------------------
(* The scheduler. *)

Ready(t) ==
  \/ t \in Publishers /\ todo[t] # <<>>
  \/ t = "sht30_rd" /\ sht.pc = "decoded"
  \/ t = who /\ idx > 0

\* Thread t gets the processor when it is ready or wakes up.
CanRun(t) == \A u \in Threads : Ready(u) => PRIO[t] <= PRIO[u]

-----------------------------------------------------------------------------
(* The publishers. *)

Begun == publications < MaxPublications /\ publications' = publications + 1

\* What a reading may give.
Values(grp) ==
  IF grp = "o2" THEN {<<v>> : v \in UNION {O2Percent(p) : p \in O2Products}} ELSE Samples[grp]

\* The stores of a publication.
Publication(grp, values) ==
  [k \in DOMAIN Stores[grp] |->
     [grp |-> grp, var |-> Stores[grp][k], n |-> publications', v |-> values[k]]]

\* The shell runs one command at a time.  uart2_debug checks no frame before the
\* methane thread stands aside with nothing left to store (MethaneRx, Settled).
InTurn(grp) ==
  grp = "uart2_debug" => todo["uart2_rx"] = <<>> /\ (who = "tshell" => idx = 0)

\* A thread has got a reading and goes on to publish it.
Reading(grp) ==
  /\ todo[Publisher[grp]] = <<>> /\ CanRun(Publisher[grp]) /\ InTurn(grp)
  /\ Begun
  /\ \E values \in Values(grp) :
       todo' = [todo EXCEPT ![Publisher[grp]] = Publication(grp, values)]
  /\ UNCHANGED <<g, sht, who, reportVars, moved>>

\* The next store of a publication.
Store(t) ==
  /\ todo[t] # <<>> /\ CanRun(t)
  /\ LET s == Head(todo[t])
     IN /\ g' = [g EXCEPT ![s.var] = [n |-> s.n, v |-> s.v]]
        /\ moved' = IF idx > 0 THEN moved \cup {s.grp} ELSE moved
  /\ todo' = [todo EXCEPT ![t] = Tail(@)]
  /\ UNCHANGED <<sht, who, reportVars, publications>>

\* sht30_thread_entry, sht30_read_once: write the command, sleep 20 ms, ...
ShtCommand ==
  /\ sht.pc = "nap" /\ todo["sht30_rd"] = <<>> /\ CanRun("sht30_rd")
  /\ \/ /\ Begun
        /\ \E m \in Measurements : sht' = [sht EXCEPT !.pc = "measuring", !.m = m]
     \/ UNCHANGED <<sht, publications>>  \* "I2C write cmd failed"
  /\ UNCHANGED <<g, todo, who, reportVars, moved>>

\* ... read six bytes, check them, ...
ShtRead ==
  /\ sht.pc = "measuring" /\ CanRun("sht30_rd")
  /\ \/ \E r \in Damaged[sht.m] : sht' = [sht EXCEPT !.pc = "decoded", !.read = r, !.intact = FALSE]
     \/ sht' = [sht EXCEPT !.pc = "decoded", !.read = Intact[sht.m], !.intact = TRUE]
     \/ sht' = [sht EXCEPT !.pc = "nap"]  \* "I2C read data failed"
  /\ UNCHANGED <<g, todo, who, reportVars, moved, publications>>

\* ... and publish both or none.
ShtDone ==
  /\ sht.pc = "decoded" /\ CanRun("sht30_rd")
  /\ sht' = [sht EXCEPT !.pc = "nap"]
  /\ \/ sht.read = ReadFailed /\ UNCHANGED todo
     \/ /\ sht.read # ReadFailed
        /\ todo' = [todo EXCEPT !["sht30_rd"] =
             [k \in 1 .. 2 |-> [grp |-> "sht30", var |-> Stores["sht30"][k], n |-> publications,
                v |-> <<Celsius(sht.read[1]), RelativeHumidity(sht.read[2])>>[k]]]]
  /\ UNCHANGED <<g, who, reportVars, moved, publications>>

Publish ==
  \/ \E grp \in Groups \ {"sht30"} : Reading(grp)
  \/ \E t \in Publishers : Store(t)
  \/ ShtCommand \/ ShtRead \/ ShtDone

-----------------------------------------------------------------------------
(* The reporter. *)

Width(var, v) ==
  IF var \in Counts THEN IntLen(v)
  ELSE IF who = "lora_tx" THEN IntLen(v.i) ELSE FloatLen(v)

\* Load the next variable and append it.
Load ==
  /\ idx < Len(Layout[who]) /\ CanRun(who)
  /\ who = "tshell" => todo["tshell"] = <<>>
  /\ LET item == Layout[who][idx + 1]
     IN /\ got' = [got EXCEPT ![item.var] = g[item.var].n]
        /\ pos' = pos + item.chars + Width(item.var, g[item.var].v)
  /\ idx' = idx + 1
  /\ UNCHANGED <<g, todo, sht, who, moved, publications>>

\* The text goes out, with pos for its length, and the thread sleeps.
Send ==
  /\ idx = Len(Layout[who]) /\ CanRun(who)
  /\ idx' = 0 /\ got' = Nothing /\ pos' = 0 /\ moved' = {}
  /\ UNCHANGED <<g, todo, sht, who, publications>>

-----------------------------------------------------------------------------
Next == Publish \/ Load \/ Send

Spec == Init /\ [][Next]_vars

-----------------------------------------------------------------------------
(* Properties. *)

Loaded == {x \in Shown : got[x] # None}

\* uart2_debug, which the shell runs before all others, has published meanwhile.
Overtaken(x) == who # "tshell" /\ "uart2_debug" \in moved /\ x \in VarsOf("uart2_debug")

\* What a reporter sends of the readings of lower threads is one instant's: no
\* such variable changes from the first load to the end of the report, though it
\* may show a publication that is half done.  This holds for the Modbus readings
\* in all reports and for everything in an Ethernet report and on the shell's
\* screen, with one exception: uart2_debug interrupts the Ethernet reporter, and
\* may replace the methane reading, and nothing else, between two of its loads.
LowerReadingsStand ==
  \A grp \in IF who \in {"eth_tcp", "tshell"} THEN Groups ELSE ModbusGroups :
    \A x \in VarsOf(grp) \cap Loaded : got[x] = g[x].n \/ Overtaken(x)

\* The cloud thread runs behind the sensor threads and the shell: it never meets
\* one of their publications half done, so a report that no publication of a
\* sensor fell into shows that sensor's values of one publication, the verdict of
\* the flame thread with the inputs it is about.
CloudSeesWholeReadings ==
  who = "hw_cloud" =>
    \A grp \in SensorGroups :
      Alike(grp) \cap moved = {} => \A x, y \in VarsOf(grp) \cap Loaded : got[x] = got[y]

\* rt_snprintf returns the length it would have needed, and the next call gets
\* a size that is negative when pos has passed the end: the text and its
\* terminator must fit into the buffer whatever the sensors deliver.  The
\* longest Ethernet report fills its buffer to the last byte.
ReportFits == who \in DOMAIN BufSize => pos < BufSize[who]

\* sht30_read_once takes every intact answer for what it is, and does not take
\* an answer disturbed in up to eight neighbouring bits, or in any three, for
\* another measurement.
OnlyMeasured ==
  sht.pc = "decoded" => sht.read \in {sht.m} \cup (IF sht.intact THEN {} ELSE {ReadFailed})
=============================================================================
