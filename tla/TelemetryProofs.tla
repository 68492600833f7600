--------------------------- MODULE TelemetryProofs ---------------------------
(***************************************************************************)
(* What the priorities do for the reports, that the reports fit into their *)
(* buffers and that only what was measured is taken for a measurement, for *)
(* all values, any number of publications and every reporter.              *)
(***************************************************************************)
EXTENDS Telemetry, Sht30Proofs, TLAPS

-----------------------------------------------------------------------------
(* The tables. *)

\* The groups of variables by name.
LEMMA GroupNames ==
  Groups = {"methane", "uart2_debug", "flame", "sht30", "o2", "flow", "displacement", "stress",
            "voltage", "current"}
BY DEF Groups, Stores

\* The Modbus readings are published by md_m_send, the others by threads of their
\* own, the frames uart2_debug checks by the shell.
LEMMA Owners ==
  \A grp \in Groups :
    /\ Publisher[grp] \in Publishers
    /\ Publisher[grp] = "md_m_send" <=> grp \in ModbusGroups
    /\ Publisher[grp] = "tshell" <=> grp = "uart2_debug"
    /\ Publisher[grp] = "uart2_rx" <=> grp = "methane"
BY GroupNames DEF Publisher, Publishers, ModbusGroups

\* A sensor thread publishes one group only.
LEMMA OneGroupEach ==
  \A a, b \in SensorGroups : Publisher[a] = Publisher[b] => a = b
BY GroupNames DEF Publisher, SensorGroups, ModbusGroups

\* Every publisher but the shell runs behind the Ethernet reporter and the shell,
\* md_m_send behind all reporters, and the other publishers before the cloud thread.
LEMMA Priorities ==
  /\ \A t \in Threads : PRIO[t] \in Nat
  /\ \A t \in Publishers \ {"tshell"} : PRIO[t] > PRIO["eth_tcp"] /\ PRIO[t] > PRIO["tshell"]
  /\ \A u \in Reporters : PRIO["md_m_send"] > PRIO[u]
  /\ \A t \in Publishers \ {"md_m_send"} : PRIO[t] < PRIO["hw_cloud"]
BY DEF PRIO, Threads, Publishers, Reporters

\* The variables of each group.
LEMMA Variables ==
  /\ \A grp \in Groups : Stores[grp] \in Seq(Shown) /\ Stores[grp] # <<>>
  /\ VarsOf("methane") = {"g_methane_ppm", "g_methane_lel"}
  /\ VarsOf("uart2_debug") = VarsOf("methane")
  /\ VarsOf("flame") = {"g_adc_ch0", "g_adc_ch1", "g_adc_ch3", "g_adc_ch4", "g_adc_ch5", "Flame"}
  /\ VarsOf("sht30") = {"g_temperature_c", "g_humidity_rh"}
  /\ VarsOf("o2") = {"g_o2_concentration"}
  /\ VarsOf("flow") = {"Flow"}
  /\ VarsOf("displacement") = {"Displacement"}
  /\ VarsOf("stress") = {"g_stress_value_n"}
  /\ VarsOf("voltage") = {"Voltage0", "Voltage1", "Voltage2"}
  /\ VarsOf("current") = {"Current0", "Current1", "Current2"}
<1>1. \A grp \in Groups : Stores[grp] \in Seq(Shown) /\ Stores[grp] # <<>>
  <2>1. Stores["methane"] \in Seq(Shown) /\ Stores["methane"] # <<>>
    BY DEF Stores, Shown, Counts, Floats
  <2>2. Stores["flame"] \in Seq(Shown) /\ Stores["flame"] # <<>>
    BY DEF Stores, Shown, Counts, Floats
  <2>3. Stores["sht30"] \in Seq(Shown) /\ Stores["sht30"] # <<>>
    BY DEF Stores, Shown, Counts, Floats
  <2>4. Stores["o2"] \in Seq(Shown) /\ Stores["o2"] # <<>>
    BY DEF Stores, Shown, Counts, Floats
  <2>5. Stores["flow"] \in Seq(Shown) /\ Stores["flow"] # <<>>
    BY DEF Stores, Shown, Counts, Floats
  <2>6. Stores["displacement"] \in Seq(Shown) /\ Stores["displacement"] # <<>>
    BY DEF Stores, Shown, Counts, Floats
  <2>7. Stores["stress"] \in Seq(Shown) /\ Stores["stress"] # <<>>
    BY DEF Stores, Shown, Counts, Floats
  <2>8. Stores["voltage"] \in Seq(Shown) /\ Stores["voltage"] # <<>>
    BY DEF Stores, Shown, Counts, Floats
  <2>9. Stores["current"] \in Seq(Shown) /\ Stores["current"] # <<>>
    BY DEF Stores, Shown, Counts, Floats
  <2>10. Stores["uart2_debug"] = Stores["methane"]
    BY DEF Stores
  <2> QED BY <2>1, <2>2, <2>3, <2>4, <2>5, <2>6, <2>7, <2>8, <2>9, <2>10, GroupNames
<1>2. VarsOf("methane") = {"g_methane_ppm", "g_methane_lel"} /\ VarsOf("uart2_debug") = VarsOf("methane")
  BY DEF VarsOf, Stores
<1>3. VarsOf("flame") = {"g_adc_ch0", "g_adc_ch1", "g_adc_ch3", "g_adc_ch4", "g_adc_ch5", "Flame"}
  BY DEF VarsOf, Stores
<1>4. VarsOf("sht30") = {"g_temperature_c", "g_humidity_rh"}
  BY DEF VarsOf, Stores
<1>5. VarsOf("o2") = {"g_o2_concentration"}
  BY DEF VarsOf, Stores
<1>6. VarsOf("flow") = {"Flow"} /\ VarsOf("displacement") = {"Displacement"}
  BY DEF VarsOf, Stores
<1>7. VarsOf("stress") = {"g_stress_value_n"}
  BY DEF VarsOf, Stores
<1>8. VarsOf("voltage") = {"Voltage0", "Voltage1", "Voltage2"}
  BY DEF VarsOf, Stores
<1>9. VarsOf("current") = {"Current0", "Current1", "Current2"}
  BY DEF VarsOf, Stores
<1> QED BY <1>1, <1>2, <1>3, <1>4, <1>5, <1>6, <1>7, <1>8, <1>9

\* Groups with a variable in common have all in common.
LEMMA GroupsApart ==
  \A a, b \in Groups : VarsOf(a) # VarsOf(b) => VarsOf(a) \cap VarsOf(b) = {}
<1> SUFFICES ASSUME NEW a \in Groups, NEW b \in Groups, VarsOf(a) # VarsOf(b)
             PROVE  VarsOf(a) \cap VarsOf(b) = {}
    OBVIOUS
<1>1. CASE a \in {"methane", "uart2_debug"}
  <2>1. VarsOf(a) = VarsOf("methane") /\ b \notin {"methane", "uart2_debug"}
    BY <1>1, Variables
  <2> QED BY <2>1, GroupNames, Variables
<1>2. CASE a = "flame"
  BY <1>2, GroupNames, Variables
<1>3. CASE a = "sht30"
  BY <1>3, GroupNames, Variables
<1>4. CASE a = "o2"
  BY <1>4, GroupNames, Variables
<1>5. CASE a = "flow"
  BY <1>5, GroupNames, Variables
<1>6. CASE a = "displacement"
  BY <1>6, GroupNames, Variables
<1>7. CASE a = "stress"
  BY <1>7, GroupNames, Variables
<1>8. CASE a = "voltage"
  BY <1>8, GroupNames, Variables
<1>9. CASE a = "current"
  BY <1>9, GroupNames, Variables
<1> QED BY <1>1, <1>2, <1>3, <1>4, <1>5, <1>6, <1>7, <1>8, <1>9, GroupNames

\* Only uart2_debug shares its variables, with the methane thread.
LEMMA AlikeGroups ==
  \A a, b \in Groups :
    /\ VarsOf(a) = VarsOf(b) => a = b \/ (a = "methane" /\ b = "uart2_debug")
                                      \/ (a = "uart2_debug" /\ b = "methane")
    /\ VarsOf(a) = VarsOf(b) => (a \in SensorGroups <=> b \in SensorGroups)
<1> SUFFICES ASSUME NEW a \in Groups, NEW b \in Groups, VarsOf(a) = VarsOf(b)
             PROVE  a = b \/ (a = "methane" /\ b = "uart2_debug") \/ (a = "uart2_debug" /\ b = "methane")
    BY GroupNames DEF SensorGroups, ModbusGroups
<1>1. CASE a \in {"methane", "uart2_debug"}
  <2>1. "g_methane_ppm" \in VarsOf(b)
    BY <1>1, Variables
  <2>2. b \in {"methane", "uart2_debug"}
    BY <2>1, GroupNames, Variables
  <2> QED BY <1>1, <2>2
<1>2. CASE a = "flame"
  <2>1. "Flame" \in VarsOf(b)
    BY <1>2, Variables
  <2> QED BY <1>2, <2>1, GroupNames, Variables
<1>3. CASE a = "sht30"
  <2>1. "g_humidity_rh" \in VarsOf(b)
    BY <1>3, Variables
  <2> QED BY <1>3, <2>1, GroupNames, Variables
<1>4. CASE a = "o2"
  <2>1. "g_o2_concentration" \in VarsOf(b)
    BY <1>4, Variables
  <2> QED BY <1>4, <2>1, GroupNames, Variables
<1>5. CASE a = "flow"
  <2>1. "Flow" \in VarsOf(b)
    BY <1>5, Variables
  <2> QED BY <1>5, <2>1, GroupNames, Variables
<1>6. CASE a = "displacement"
  <2>1. "Displacement" \in VarsOf(b)
    BY <1>6, Variables
  <2> QED BY <1>6, <2>1, GroupNames, Variables
<1>7. CASE a = "stress"
  <2>1. "g_stress_value_n" \in VarsOf(b)
    BY <1>7, Variables
  <2> QED BY <1>7, <2>1, GroupNames, Variables
<1>8. CASE a = "voltage"
  <2>1. "Voltage0" \in VarsOf(b)
    BY <1>8, Variables
  <2> QED BY <1>8, <2>1, GroupNames, Variables
<1>9. CASE a = "current"
  <2>1. "Current0" \in VarsOf(b)
    BY <1>9, Variables
  <2> QED BY <1>9, <2>1, GroupNames, Variables
<1> QED BY <1>1, <1>2, <1>3, <1>4, <1>5, <1>6, <1>7, <1>8, <1>9, GroupNames

\* VarsOf by position.
LEMMA VarsByPosition ==
  ASSUME NEW grp \in Groups
  PROVE  /\ Len(Stores[grp]) \in Nat \ {0}
         /\ DOMAIN Stores[grp] = 1 .. Len(Stores[grp])
         /\ VarsOf(grp) = {Stores[grp][k] : k \in 1 .. Len(Stores[grp])}
         /\ VarsOf(grp) \subseteq Shown
<1>1. Stores[grp] \in Seq(Shown) /\ Stores[grp] # <<>>
  BY Variables
<1> QED BY <1>1 DEF VarsOf

-----------------------------------------------------------------------------
(* The invariant. *)

\* All variables of a group come from one publication.
Whole(grp) == \A x, y \in VarsOf(grp) : g[x].n = g[y].n

\* Publisher t is about to make the last stores of publication n of grp, and has
\* made the others.
Publishing(t, grp, n) ==
  LET left == Len(todo[t])
      all == Len(Stores[grp])
  IN /\ Publisher[grp] = t
     /\ left <= all
     /\ \A k \in 1 .. left :
          todo[t][k].grp = grp /\ todo[t][k].n = n /\ todo[t][k].var = Stores[grp][all - left + k]
     /\ \A j \in 1 .. all - left : g[Stores[grp][j]].n = n

Pending(t) ==
  /\ \E S : todo[t] \in Seq(S)
  /\ todo[t] = <<>> \/ \E grp \in Groups : \E n : Publishing(t, grp, n)

\* Only a pending publication is not whole.
Idle(grp) == \A b \in Alike(grp) : todo[Publisher[b]] = <<>>
WholeWhenIdle == \A grp \in SensorGroups : Idle(grp) => Whole(grp)

\* A cloud report, once begun: the groups that have not been stored to are whole,
\* and what was loaded of them still stands.
CloudStands ==
  who = "hw_cloud" /\ idx > 0 =>
    \A grp \in SensorGroups : Alike(grp) \cap moved = {} =>
      Whole(grp) /\ \A x \in VarsOf(grp) \cap Loaded : got[x] = g[x].n

ReportShape ==
  /\ DOMAIN g = Shown /\ DOMAIN got = Shown /\ DOMAIN todo = Publishers
  /\ who \in Reporters /\ idx \in Nat
  /\ idx = 0 => Loaded = {}

\* sht30_rd measures with nothing left to store.
ShtIdle == sht.pc # "nap" => todo["sht30_rd"] = <<>>

\* The methane thread and uart2_debug do not publish at the same time, and the
\* shell does not publish while it reports.
Turns ==
  /\ todo["uart2_rx"] = <<>> \/ todo["tshell"] = <<>>
  /\ who = "tshell" /\ idx > 0 => todo["tshell"] = <<>>

TelInv ==
  /\ ReportShape /\ ShtIdle /\ Turns
  /\ \A t \in Publishers : Pending(t)
  /\ WholeWhenIdle /\ CloudStands /\ LowerReadingsStand

\* Nothing has been loaded and nothing is pending at the start.
LEMMA InitInv == Init => TelInv
<1> SUFFICES ASSUME Init PROVE TelInv
    OBVIOUS
<1>1. Loaded = {}
  BY DEF Init, Loaded, Nothing
<1>2. PICK p \in Profiles : g = [x \in Shown |-> [n |-> 0, v |-> p[x]]]
  BY DEF Init
<1>3. ReportShape
  BY <1>1, <1>2 DEF Init, ReportShape, Nothing
<1>4. \A t \in Publishers : Pending(t)
  <2> SUFFICES ASSUME NEW t \in Publishers PROVE Pending(t)
      OBVIOUS
  <2>1. todo[t] = <<>>
    BY DEF Init
  <2>2. <<>> \in Seq({})
    OBVIOUS
  <2> QED BY <2>1, <2>2 DEF Pending
<1>5. WholeWhenIdle
  BY <1>2, VarsByPosition DEF WholeWhenIdle, Whole, SensorGroups
<1>6. CloudStands /\ LowerReadingsStand /\ ShtIdle /\ Turns
  BY <1>1 DEF Init, CloudStands, LowerReadingsStand, ShtIdle, Turns, Publishers
<1> QED BY <1>3, <1>4, <1>5, <1>6 DEF TelInv

-----------------------------------------------------------------------------
(* The publishers. *)

\* A step that neither stores, loads nor takes up a publication.
LEMMA Frame ==
  ASSUME TelInv, UNCHANGED <<g, todo, who, reportVars, moved>>, ShtIdle'
  PROVE  TelInv'
BY DEF TelInv, ReportShape, Turns, Pending, Publishing, WholeWhenIdle, Idle, Whole, CloudStands,
   Loaded, LowerReadingsStand, Overtaken, reportVars

\* Stores to other variables leave a pending publication as it is.
LEMMA PendingKept ==
  ASSUME NEW t \in Publishers, Pending(t), todo'[t] = todo[t],
         todo[t] # <<>> =>
           \A b \in Groups : Publisher[b] = t => \A x \in VarsOf(b) : g'[x] = g[x]
  PROVE  Pending(t)'
<1>1. \E S : todo'[t] \in Seq(S)
  <2>1. PICK S : todo[t] \in Seq(S)
    BY DEF Pending
  <2> QED BY <2>1
<1>2. CASE todo[t] = <<>>
  BY <1>1, <1>2 DEF Pending
<1>3. CASE todo[t] # <<>>
  <2>1. PICK grp \in Groups : \E n : Publishing(t, grp, n)
    BY <1>3 DEF Pending
  <2>2. PICK n : Publishing(t, grp, n)
    BY <2>1
  <2>3. PICK S : todo[t] \in Seq(S)
    BY DEF Pending
  <2>4. Len(todo[t]) \in Nat
    BY <2>3
  <2>5. \A j \in 1 .. Len(Stores[grp]) - Len(todo[t]) : g'[Stores[grp][j]] = g[Stores[grp][j]]
    <3>1. \A x \in VarsOf(grp) : g'[x] = g[x]
      BY <1>3, <2>2 DEF Publishing
    <3>2. /\ Len(Stores[grp]) \in Nat
          /\ \A j \in 1 .. Len(Stores[grp]) : Stores[grp][j] \in VarsOf(grp)
      BY VarsByPosition
    <3>3. \A j \in 1 .. Len(Stores[grp]) - Len(todo[t]) : j \in 1 .. Len(Stores[grp])
      <4>1. PICK all, left \in Nat : all = Len(Stores[grp]) /\ left = Len(todo[t])
        BY <2>4, <3>2
      <4>2. \A j \in 1 .. all - left : j \in 1 .. all
        OBVIOUS
      <4> QED BY <4>1, <4>2, Zenon
    <3> QED BY <3>1, <3>2, <3>3
  <2>6. Publishing(t, grp, n)'
    <3> DEFINE left == Len(todo[t])
               all == Len(Stores[grp])
    <3>1. Len(todo'[t]) = left
      OBVIOUS
    <3>2. \A k \in 1 .. left : todo'[t][k].grp = grp /\ todo'[t][k].n = n
                                 /\ todo'[t][k].var = Stores[grp][all - left + k]
      BY <2>2 DEF Publishing
    <3>3. \A j \in 1 .. all - left : g'[Stores[grp][j]].n = n
      BY <2>2, <2>5 DEF Publishing
    <3>4. Publisher[grp] = t /\ left <= all
      BY <2>2 DEF Publishing
    <3> HIDE DEF left, all
    <3> QED BY <3>1, <3>2, <3>3, <3>4 DEF Publishing, all
  <2> QED BY <1>1, <2>6 DEF Pending
<1> QED BY <1>2, <1>3

\* q holds the stores of publication n of grp.
IsPublication(q, grp, n) ==
  /\ \E S : q \in Seq(S)
  /\ Len(q) = Len(Stores[grp])
  /\ \A k \in 1 .. Len(q) : q[k].grp = grp /\ q[k].n = n /\ q[k].var = Stores[grp][k]

\* A publisher that had nothing left takes up a publication.
LEMMA NewPublication ==
  ASSUME TelInv, NEW grp \in Groups, NEW n, NEW q, IsPublication(q, grp, n),
         todo[Publisher[grp]] = <<>>,
         todo' = [todo EXCEPT ![Publisher[grp]] = q],
         UNCHANGED <<g, who, reportVars, moved>>, ShtIdle', Turns'
  PROVE  TelInv'
<1>0. PICK S : q \in Seq(S)
  BY DEF IsPublication
<1>1. ReportShape' /\ CloudStands' /\ LowerReadingsStand'
  BY DEF TelInv, ReportShape, CloudStands, Whole, Loaded, LowerReadingsStand, Overtaken, reportVars
<1>2. Publisher[grp] \in Publishers /\ DOMAIN todo = Publishers
  BY Owners DEF TelInv, ReportShape
<1>3. Len(q) = Len(Stores[grp]) /\ Len(q) \in Nat \ {0} /\ q # <<>>
  BY <1>0, VarsByPosition DEF IsPublication
<1>4. ASSUME NEW t \in Publishers PROVE Pending(t)'
  <2>1. CASE t = Publisher[grp]
    <3>1. todo'[t] = q
      BY <1>2, <2>1
    <3>2. Publishing(t, grp, n)'
      <4> DEFINE len == Len(Stores[grp])
      <4>1. Len(todo'[t]) = len /\ len \in Nat
        BY <3>1, <1>3
      <4>2. ASSUME NEW k \in 1 .. len
            PROVE  todo'[t][k].grp = grp /\ todo'[t][k].n = n
                     /\ todo'[t][k].var = Stores[grp][len - len + k]
        <5>1. len - len + k = k
          BY <4>1
        <5> QED BY <5>1, <3>1, <1>3 DEF IsPublication
      <4>3. len <= len /\ 1 .. (len - len) = {}
        BY <4>1
      <4> HIDE DEF len
      <4> QED BY <2>1, <4>1, <4>2, <4>3 DEF Publishing, len
    <3>3. \E T : todo'[t] \in Seq(T)
      BY <3>1, <1>0
    <3> QED BY <3>2, <3>3 DEF Pending
  <2>2. CASE t # Publisher[grp]
    <3>1. todo'[t] = todo[t] /\ g' = g
      BY <1>2, <2>2
    <3> QED BY <3>1, PendingKept DEF TelInv
  <2> QED BY <2>1, <2>2
<1>5. WholeWhenIdle'
  <2> SUFFICES ASSUME NEW b \in SensorGroups, Idle(b)'
               PROVE  Whole(b)'
      BY DEF WholeWhenIdle
  <2>1. ASSUME NEW c \in Alike(b) PROVE todo[Publisher[c]] = <<>>
    <3>1. Publisher[c] \in Publishers
      BY Owners DEF Alike
    <3>2. todo'[Publisher[c]] = <<>>
      BY DEF Idle
    <3> QED BY <1>2, <1>3, <3>1, <3>2
  <2>2. Idle(b)
    BY <2>1 DEF Idle
  <2> QED BY <2>2 DEF TelInv, WholeWhenIdle, Whole
<1> QED BY <1>1, <1>4, <1>5 DEF TelInv

\* Any reading of a sensor but the SHT30's is a new publication of its group.
LEMMA ReadingStep ==
  ASSUME TelInv, NEW grp \in Groups \ {"sht30"}, Reading(grp)
  PROVE  TelInv'
<1>1. PICK values \in Values(grp) :
        todo' = [todo EXCEPT ![Publisher[grp]] = Publication(grp, values)]
  BY DEF Reading
<1>2. PICK n : n = publications'
  OBVIOUS
<1>3. PICK q : q = Publication(grp, values)
  OBVIOUS
<1> DEFINE len == Len(Stores[grp])
           S == {q[k] : k \in 1 .. len}
<1>4. len \in Nat /\ DOMAIN Stores[grp] = 1 .. len /\ grp \in Groups
  BY VarsByPosition
<1>5. q = [k \in 1 .. len |-> [grp |-> grp, var |-> Stores[grp][k], n |-> n, v |-> values[k]]]
  BY <1>2, <1>3, <1>4 DEF Publication
<1> HIDE DEF len
<1>6. q \in Seq(S) /\ Len(q) = len
  <2>1. \A k \in 1 .. len : q[k] \in S
    OBVIOUS
  <2> HIDE DEF S
  <2>2. q \in [1 .. len -> S]
    BY <1>5, <2>1
  <2> QED BY <1>4, <2>2
<1>7. \A k \in 1 .. Len(q) : q[k].grp = grp /\ q[k].n = n /\ q[k].var = Stores[grp][k]
  BY <1>5, <1>6
<1>8. /\ todo[Publisher[grp]] = <<>> /\ todo' = [todo EXCEPT ![Publisher[grp]] = q]
      /\ UNCHANGED <<g, who, reportVars, moved>>
  BY <1>1, <1>3 DEF Reading
<1>9. ShtIdle'
  <2>1. Publisher[grp] # "sht30_rd"
    BY GroupNames DEF Publisher
  <2> QED BY <1>1, <2>1 DEF TelInv, ShtIdle, Reading, ReportShape
<1>10. IsPublication(q, grp, n)
  BY <1>6, <1>7 DEF IsPublication, len
<1>11. Turns'
  <2>1. Publisher[grp] \in Publishers /\ DOMAIN todo = Publishers
    BY Owners DEF TelInv, ReportShape
  <2>2. \A u \in Publishers : u # Publisher[grp] => todo'[u] = todo[u]
    BY <1>8, <2>1
  <2>3. "uart2_rx" \in Publishers /\ "tshell" \in Publishers
    BY DEF Publishers
  <2>4. who' = who /\ idx' = idx
    BY <1>8 DEF reportVars
  <2>5. CASE grp = "uart2_debug"
    <3>1. Publisher[grp] = "tshell" /\ todo["uart2_rx"] = <<>> /\ ~(who = "tshell" /\ idx > 0)
      BY <2>5, Owners DEF Reading, InTurn
    <3> QED BY <2>2, <2>3, <2>4, <3>1 DEF Turns
  <2>6. CASE grp = "methane"
    <3>1. Publisher[grp] = "uart2_rx" /\ CanRun("uart2_rx")
      BY <2>6, Owners DEF Reading
    <3>2. PRIO["uart2_rx"] > PRIO["tshell"] /\ "tshell" \in Threads /\ "uart2_rx" \in Threads
      BY Priorities DEF Threads, Publishers
    <3>3. ~Ready("tshell")
      BY <3>1, <3>2, Priorities DEF CanRun
    <3>4. todo["tshell"] = <<>>
      BY <2>3, <3>3 DEF Ready
    <3> QED BY <2>2, <2>3, <2>4, <3>1, <3>4 DEF Turns
  <2>7. CASE grp \notin {"uart2_debug", "methane"}
    <3>1. Publisher[grp] \notin {"tshell", "uart2_rx"}
      BY <2>7, Owners
    <3> QED BY <2>2, <2>3, <2>4, <3>1 DEF Turns, TelInv
  <2> QED BY <2>5, <2>6, <2>7
<1> QED
  BY <1>4, <1>8, <1>9, <1>10, <1>11, NewPublication

\* The SHT30 thread publishes when it has measured, with nothing left to store.
LEMMA ShtStep ==
  ASSUME TelInv, ShtCommand \/ ShtRead \/ ShtDone
  PROVE  TelInv'
<1>1. CASE ShtCommand
  <2>1. ShtIdle'
    BY <1>1 DEF ShtCommand, ShtIdle, TelInv
  <2> QED BY <1>1, <2>1, Frame DEF ShtCommand
<1>2. CASE ShtRead
  <2>1. ShtIdle'
    BY <1>2 DEF ShtRead, ShtIdle, TelInv
  <2> QED BY <1>2, <2>1, Frame DEF ShtRead
<1>3. CASE ShtDone /\ UNCHANGED todo
  <2>1. ShtIdle'
    BY <1>3 DEF ShtDone, ShtIdle, TelInv
  <2> QED BY <1>3, <2>1, Frame DEF ShtDone
<1>4. CASE ShtDone /\ ~ UNCHANGED todo
  <2>1. PICK q : /\ todo' = [todo EXCEPT !["sht30_rd"] = q]
                 /\ q = [k \in 1 .. 2 |-> [grp |-> "sht30", var |-> Stores["sht30"][k],
                           n |-> publications,
                           v |-> <<Celsius(sht.read[1]), RelativeHumidity(sht.read[2])>>[k]]]
    BY <1>4 DEF ShtDone
  <2>2. PICK n : n = publications
    OBVIOUS
  <2>3. "sht30" \in Groups /\ Publisher["sht30"] = "sht30_rd" /\ Len(Stores["sht30"]) = 2
    BY GroupNames DEF Publisher, Stores
  <2>4. IsPublication(q, "sht30", n)
    <3>1. PICK S : S = {q[k] : k \in 1 .. 2}
      OBVIOUS
    <3>2. q \in [1 .. 2 -> S]
      BY <2>1, <3>1
    <3>3. q \in Seq(S) /\ Len(q) = 2
      <4>1. PICK m \in Nat : m = 2
        OBVIOUS
      <4>2. q \in [1 .. m -> S]
        BY <3>2, <4>1
      <4>3. q \in Seq(S) /\ Len(q) = m
        BY <4>2
      <4> QED BY <4>1, <4>3
    <3>4. \A k \in 1 .. 2 : q[k].grp = "sht30" /\ q[k].n = n /\ q[k].var = Stores["sht30"][k]
      BY <2>1, <2>2
    <3> QED BY <2>3, <3>3, <3>4 DEF IsPublication
  <2>5. /\ sht.pc = "decoded" /\ sht' = [sht EXCEPT !.pc = "nap"]
        /\ UNCHANGED <<g, who, reportVars, moved>>
    BY <1>4 DEF ShtDone
  <2>6. todo["sht30_rd"] = <<>>
    BY <2>5 DEF TelInv, ShtIdle
  <2>7. ShtIdle'
    BY <2>5 DEF TelInv, ShtIdle
  <2>8. Turns'
    BY <2>1, <2>5 DEF TelInv, Turns, ReportShape, Publishers, reportVars
  <2> QED BY <2>1, <2>3, <2>4, <2>5, <2>6, <2>7, <2>8, NewPublication
<1> QED BY <1>1, <1>2, <1>3, <1>4

\* A store reaches no report of a thread that goes first, and completes its
\* group when it is the last.
LEMMA StoreStep ==
  ASSUME TelInv, NEW t \in Publishers, Store(t)
  PROVE  TelInv'
<1> DEFINE s == Head(todo[t])
           left == Len(todo[t])
<1>1. PICK S : todo[t] \in Seq(S)
  BY DEF TelInv, Pending
<1>2. todo[t] # <<>> /\ CanRun(t) /\ UNCHANGED <<sht, who, reportVars>>
  BY DEF Store
<1>3. PICK grp \in Groups : \E n : Publishing(t, grp, n)
  BY <1>2 DEF TelInv, Pending
<1>4. PICK n : Publishing(t, grp, n)
  BY <1>3
<1> DEFINE all == Len(Stores[grp])
<1>5. left \in Nat \ {0} /\ all \in Nat \ {0} /\ s = todo[t][1]
  BY <1>1, <1>2, <1>3, VarsByPosition
<1>6. /\ Publisher[grp] = t /\ left <= all
      /\ s.grp = grp /\ s.n = n /\ s.var = Stores[grp][all - left + 1]
  <2>1. /\ Publisher[grp] = t /\ left <= all
        /\ \A k \in 1 .. left :
             todo[t][k].grp = grp /\ todo[t][k].n = n /\ todo[t][k].var = Stores[grp][all - left + k]
    BY <1>4 DEF Publishing
  <2>2. 1 \in 1 .. left
    BY <1>5
  <2> HIDE DEF s, left, all
  <2> QED BY <1>5, <2>1, <2>2
<1>7. s.var \in VarsOf(grp) /\ s.var \in Shown
  <2>1. VarsOf(grp) = {Stores[grp][k] : k \in 1 .. all} /\ VarsOf(grp) \subseteq Shown
    BY VarsByPosition
  <2> HIDE DEF s, left, all
  <2>2. all - left + 1 \in 1 .. all
    BY <1>5, <1>6
  <2> QED BY <1>6, <2>1, <2>2
<1>8. /\ g' = [g EXCEPT ![s.var] = [n |-> s.n, v |-> s.v]]
      /\ moved' = IF idx > 0 THEN moved \cup {s.grp} ELSE moved
      /\ todo' = [todo EXCEPT ![t] = Tail(@)]
  BY DEF Store
<1>9. /\ DOMAIN g' = Shown /\ g'[s.var].n = n /\ \A x \in Shown \ {s.var} : g'[x] = g[x]
      /\ DOMAIN todo' = Publishers
      /\ todo'[t] = Tail(todo[t]) /\ \A u \in Publishers \ {t} : todo'[u] = todo[u]
  BY <1>6, <1>7, <1>8 DEF TelInv, ReportShape
<1>10. \A b \in Groups \ Alike(grp) : \A x \in VarsOf(b) : x \in Shown /\ g'[x] = g[x]
  BY <1>3, <1>7, <1>9, GroupsApart, VarsByPosition DEF Alike
<1> HIDE DEF s, left, all
<1>11. \A j \in 1 .. all - left + 1 : g'[Stores[grp][j]].n = n
  <2> SUFFICES ASSUME NEW j \in 1 .. all - left + 1 PROVE g'[Stores[grp][j]].n = n
      OBVIOUS
  <2>1. j \in 1 .. all
    BY <1>5, <1>6
  <2>2. Stores[grp][j] \in Shown
    BY <2>1, VarsByPosition DEF all
  <2>3. CASE Stores[grp][j] = s.var
    BY <1>9, <2>3
  <2>4. CASE Stores[grp][j] # s.var
    <3>1. j \in 1 .. all - left
      BY <1>5, <1>6, <2>4
    <3>2. g[Stores[grp][j]].n = n
      BY <1>4, <3>1 DEF Publishing, all, left
    <3> QED BY <1>9, <2>2, <2>4, <3>2
  <2> QED BY <2>3, <2>4
<1>12. ReportShape' /\ ShtIdle' /\ Turns'
  <2>1. ReportShape'
    BY <1>2, <1>9 DEF TelInv, ReportShape, Loaded, reportVars
  <2>2. ShtIdle'
    BY <1>1, <1>2, <1>9 DEF TelInv, ShtIdle, Publishers
  <2>3. who' = who /\ idx' = idx /\ "uart2_rx" \in Publishers /\ "tshell" \in Publishers
    BY <1>2 DEF reportVars, Publishers
  <2>4. Turns'
    BY <1>2, <1>9, <2>3 DEF TelInv, Turns
  <2> QED BY <2>1, <2>2, <2>4
<1>13. ASSUME NEW u \in Publishers PROVE Pending(u)'
  <2>1. CASE u # t
    <3>1. ASSUME todo[u] # <<>>, NEW b \in Groups, Publisher[b] = u
          PROVE  \A x \in VarsOf(b) : g'[x] = g[x]
      <4>1. ~(t = "tshell" /\ u = "uart2_rx") /\ ~(t = "uart2_rx" /\ u = "tshell")
        BY <1>2, <3>1 DEF TelInv, Turns
      <4>2. b \notin Alike(grp)
        BY <1>6, <2>1, <3>1, <4>1, Owners, AlikeGroups DEF Alike
      <4> QED BY <1>10, <4>2
    <3>2. todo'[u] = todo[u] /\ Pending(u)
      BY <1>9, <2>1 DEF TelInv
    <3> QED BY <3>1, <3>2, PendingKept
  <2>2. CASE u = t
    <3>1. todo'[t] \in Seq(S) /\ Len(todo'[t]) = left - 1
      BY <1>1, <1>2, <1>9 DEF left
    <3>2. \A k \in 1 .. left - 1 : todo'[t][k] = todo[t][k + 1]
      BY <1>1, <1>2, <1>9 DEF left
    <3>3. \A k \in 1 .. left - 1 :
            todo'[t][k].grp = grp /\ todo'[t][k].n = n
              /\ todo'[t][k].var = Stores[grp][all - (left - 1) + k]
      <4> SUFFICES ASSUME NEW k \in 1 .. left - 1
                   PROVE  todo'[t][k].grp = grp /\ todo'[t][k].n = n
                            /\ todo'[t][k].var = Stores[grp][all - (left - 1) + k]
          OBVIOUS
      <4>1. k + 1 \in 1 .. left /\ all - left + (k + 1) = all - (left - 1) + k
        BY <1>5
      <4> QED BY <1>4, <3>2, <4>1 DEF Publishing, left, all
    <3>4. \A j \in 1 .. all - (left - 1) : g'[Stores[grp][j]].n = n
      BY <1>5, <1>6, <1>11
    <3>5. Publishing(t, grp, n)'
      BY <1>5, <1>6, <3>1, <3>3, <3>4 DEF Publishing, all
    <3> QED BY <2>2, <3>1, <3>5 DEF Pending
  <2> QED BY <2>1, <2>2
<1>14. WholeWhenIdle'
  <2> SUFFICES ASSUME NEW b \in SensorGroups, Idle(b)'
               PROVE  Whole(b)'
      BY DEF WholeWhenIdle
  <2>1. b \in Groups
    BY DEF SensorGroups
  <2>2. CASE b \notin Alike(grp)
    <3>1. ASSUME NEW c \in Alike(b) PROVE todo[Publisher[c]] = <<>>
      <4>1. c \in Groups /\ c \in SensorGroups /\ c # grp
        BY <2>1, <2>2, AlikeGroups DEF Alike
      <4>2. Publisher[c] # t /\ Publisher[c] \in Publishers
        BY <1>6, <4>1, Owners, OneGroupEach DEF SensorGroups
      <4>3. todo'[Publisher[c]] = <<>>
        BY DEF Idle
      <4> QED BY <1>9, <4>2, <4>3
    <3>2. Whole(b)
      BY <3>1 DEF TelInv, WholeWhenIdle, Idle
    <3> QED BY <1>10, <2>1, <2>2, <3>2 DEF Whole
  <2>3. CASE b \in Alike(grp)
    <3>0. VarsOf(b) = VarsOf(grp) /\ todo'[t] = <<>>
      BY <1>6, <2>3 DEF Idle, Alike
    <3>1. left = 1
      <4>1. Tail(todo[t]) = <<>>
        BY <1>9, <3>0
      <4>2. Len(Tail(todo[t])) = left - 1
        BY <1>1, <1>2 DEF left
      <4>3. left - 1 = 0
        BY <4>1, <4>2
      <4> QED BY <1>5, <4>3
    <3>2. \A j \in 1 .. all : g'[Stores[grp][j]].n = n
      BY <1>5, <1>11, <3>1
    <3>3. VarsOf(grp) = {Stores[grp][j] : j \in 1 .. all}
      BY VarsByPosition DEF all
    <3> QED BY <3>0, <3>2, <3>3 DEF Whole
  <2> QED BY <2>2, <2>3
<1>15. CloudStands'
  <2> SUFFICES ASSUME who = "hw_cloud", idx > 0, NEW b \in SensorGroups, Alike(b) \cap moved' = {}
               PROVE  (Whole(b) /\ \A x \in VarsOf(b) \cap Loaded : got[x] = g[x].n)'
      BY <1>2 DEF CloudStands, reportVars
  <2>1. b \in Groups \ Alike(grp) /\ Alike(b) \cap moved = {}
    BY <1>6, <1>8 DEF SensorGroups, Alike
  <2>2. Whole(b) /\ \A x \in VarsOf(b) \cap Loaded : got[x] = g[x].n
    BY <2>1 DEF TelInv, CloudStands
  <2> QED BY <1>2, <1>10, <2>1, <2>2 DEF Whole, Loaded, reportVars
<1>16. LowerReadingsStand'
  <2> DEFINE Lower == IF who \in {"eth_tcp", "tshell"} THEN Groups ELSE ModbusGroups
  <2>1. who' = who /\ got' = got /\ Loaded' = Loaded
    BY <1>2 DEF reportVars, Loaded
  <2>2. Lower \subseteq Groups
    BY GroupNames DEF ModbusGroups
  <2>3. moved \subseteq moved' /\ (Loaded # {} => grp \in moved')
    BY <1>6, <1>8 DEF TelInv, ReportShape
  <2>4. Loaded # {} => PRIO[t] <= PRIO[who]
    BY <1>2 DEF TelInv, ReportShape, CanRun, Ready, Threads
  <2>5. Loaded # {} => grp \notin Lower \/ (grp = "uart2_debug" /\ who = "eth_tcp")
    <3>1. Loaded # {} /\ t # "tshell" => grp \notin Lower
      BY <1>6, <2>4, Owners, Priorities DEF TelInv, ReportShape, Threads
    <3>2. Loaded # {} /\ t = "tshell" => grp = "uart2_debug" /\ who # "tshell"
      BY <1>2, <1>6, Owners DEF TelInv, ReportShape, Turns
    <3>3. "uart2_debug" \notin ModbusGroups
      BY DEF ModbusGroups
    <3> QED BY <3>1, <3>2, <3>3
  <2>6. ASSUME NEW b \in Lower, NEW x \in VarsOf(b) \cap Loaded
        PROVE  got[x] = g'[x].n \/ Overtaken(x)'
    <3>1. got[x] = g[x].n \/ Overtaken(x)
      BY DEF TelInv, LowerReadingsStand
    <3>2. CASE Overtaken(x)
      BY <2>1, <2>3, <3>2 DEF Overtaken
    <3>3. CASE b \notin Alike(grp)
      BY <1>10, <2>1, <2>2, <2>3, <3>1, <3>3 DEF Overtaken
    <3>4. CASE b \in Alike(grp)
      <4>1. VarsOf(b) = VarsOf(grp)
        BY <3>4 DEF Alike
      <4>2. grp \in Lower
        BY <1>3, <2>2, <4>1, AlikeGroups, GroupNames DEF SensorGroups, ModbusGroups
      <4>3. grp = "uart2_debug" /\ who = "eth_tcp" /\ grp \in moved'
        BY <2>3, <2>5, <4>2
      <4> QED BY <2>1, <4>1, <4>3 DEF Overtaken
    <3> QED BY <3>3, <3>4
  <2> QED BY <2>1, <2>6 DEF LowerReadingsStand
<1> QED BY <1>12, <1>13, <1>14, <1>15, <1>16 DEF TelInv

-----------------------------------------------------------------------------
(* The reporter. *)

\* The cloud thread loads its first variable when every sensor thread sleeps with
\* its publication complete.
LEMMA LoadStep ==
  ASSUME TelInv, Load
  PROVE  TelInv'
<1> DEFINE var == Layout[who][idx + 1].var
<1>1. /\ CanRun(who) /\ idx' = idx + 1 /\ UNCHANGED <<g, todo, sht, who, moved>>
      /\ got' = [got EXCEPT ![var] = g[var].n]
      /\ who = "tshell" => todo["tshell"] = <<>>
  BY DEF Load
<1> HIDE DEF var
<1>2. /\ idx' \in Nat /\ idx' > 0 /\ DOMAIN got' = Shown
      /\ \A x \in Loaded' : x \in Shown /\ (got'[x] = g[x].n \/ (x \in Loaded /\ got'[x] = got[x]))
  <2>1. idx \in Nat /\ DOMAIN got = Shown
    BY DEF TelInv, ReportShape
  <2>2. idx' \in Nat /\ idx' > 0
    BY <1>1, <2>1
  <2>3. DOMAIN got' = Shown
    BY <1>1, <2>1
  <2>4. ASSUME NEW x \in Loaded'
        PROVE  x \in Shown /\ (got'[x] = g[x].n \/ (x \in Loaded /\ got'[x] = got[x]))
    <3>1. x \in Shown /\ got'[x] # None
      BY DEF Loaded, None
    <3>2. x = var => got'[x] = g[x].n
      BY <1>1, <2>1, <3>1
    <3>3. x # var => got'[x] = got[x]
      BY <1>1, <2>1, <3>1
    <3>4. got'[x] = got[x] => x \in Loaded
      BY <3>1 DEF Loaded
    <3> QED BY <3>1, <3>2, <3>3, <3>4
  <2> QED BY <2>2, <2>3, <2>4
<1>3. ReportShape' /\ ShtIdle' /\ Turns'
  BY <1>1, <1>2 DEF TelInv, ReportShape, ShtIdle, Turns
<1>4. ASSUME NEW t \in Publishers PROVE Pending(t)'
  <2>1. todo'[t] = todo[t] /\ g' = g /\ Pending(t)
    BY <1>1 DEF TelInv
  <2> QED BY <2>1, PendingKept
<1>5. WholeWhenIdle'
  BY <1>1 DEF TelInv, WholeWhenIdle, Idle, Whole
<1>6. LowerReadingsStand'
  BY <1>1, <1>2 DEF TelInv, LowerReadingsStand, Overtaken
<1>7. CloudStands'
  <2> SUFFICES ASSUME who = "hw_cloud", NEW b \in SensorGroups, Alike(b) \cap moved = {}
               PROVE  Whole(b) /\ \A x \in VarsOf(b) \cap Loaded' : got'[x] = g[x].n
      BY <1>1 DEF CloudStands, Whole
  <2>1. CASE idx = 0
    <3>1. Loaded = {}
      BY <2>1 DEF TelInv, ReportShape
    <3>2. ASSUME NEW c \in Alike(b) PROVE todo[Publisher[c]] = <<>>
      <4>1. Publisher[c] \in Publishers \ {"md_m_send"}
        BY Owners, AlikeGroups DEF SensorGroups, Alike
      <4>2. PRIO[Publisher[c]] < PRIO["hw_cloud"] /\ PRIO[Publisher[c]] \in Nat
              /\ PRIO["hw_cloud"] \in Nat
        BY <4>1, Priorities DEF Threads, Reporters
      <4> QED BY <1>1, <4>1, <4>2 DEF CanRun, Ready, Threads
    <3>3. Whole(b)
      BY <3>2 DEF TelInv, WholeWhenIdle, Idle
    <3> QED BY <1>2, <3>1, <3>3
  <2>2. CASE idx # 0
    <3>1. idx > 0
      BY <2>2 DEF TelInv, ReportShape
    <3>2. Whole(b) /\ \A x \in VarsOf(b) \cap Loaded : got[x] = g[x].n
      BY <3>1 DEF TelInv, CloudStands
    <3> QED BY <1>2, <3>2
  <2> QED BY <2>1, <2>2
<1> QED BY <1>3, <1>4, <1>5, <1>6, <1>7 DEF TelInv

\* With the report gone nothing is loaded.
LEMMA SendStep ==
  ASSUME TelInv, Send
  PROVE  TelInv'
<1>1. /\ idx' = 0 /\ got' = Nothing /\ UNCHANGED <<g, todo, sht, who>>
  BY DEF Send
<1>2. Loaded' = {}
  BY <1>1 DEF Loaded, Nothing
<1>3. ReportShape' /\ ShtIdle' /\ Turns' /\ WholeWhenIdle' /\ LowerReadingsStand' /\ CloudStands'
  BY <1>1, <1>2 DEF TelInv, ReportShape, ShtIdle, Turns, Nothing, WholeWhenIdle, Idle, Whole,
     LowerReadingsStand, CloudStands
<1>4. ASSUME NEW t \in Publishers PROVE Pending(t)'
  <2>1. todo'[t] = todo[t] /\ g' = g /\ Pending(t)
    BY <1>1 DEF TelInv
  <2> QED BY <2>1, PendingKept
<1> QED BY <1>3, <1>4 DEF TelInv

-----------------------------------------------------------------------------
(* The theorems. *)

\* Every step keeps the invariant.
LEMMA NextInv == TelInv /\ [Next]_vars => TelInv'
<1> SUFFICES ASSUME TelInv, [Next]_vars PROVE TelInv'
    OBVIOUS
<1>1. CASE UNCHANGED vars
  <2>1. ShtIdle'
    BY <1>1 DEF vars, TelInv, ShtIdle
  <2> QED BY <1>1, <2>1, Frame DEF vars, reportVars
<1>2. CASE Publish
  BY <1>2, ReadingStep, StoreStep, ShtStep DEF Publish
<1>3. CASE Load
  BY <1>3, LoadStep
<1>4. CASE Send
  BY <1>4, SendStep
<1> QED BY <1>1, <1>2, <1>3, <1>4 DEF Next

\* The invariant holds throughout.
LEMMA TelInvHolds == Spec => []TelInv
BY InitInv, NextInv, PTL DEF Spec

\* No reading of a lower thread changes between the first load of it and the end
\* of the report: all of the shell's screen, the Modbus readings in every report,
\* and all of an Ethernet report but the methane reading, when uart2_debug
\* replaces it meanwhile, are those of one instant.
THEOREM LowerStand == Spec => []LowerReadingsStand
<1>1. TelInv => LowerReadingsStand
  BY DEF TelInv
<1> QED BY <1>1, TelInvHolds, PTL

\* A cloud report shows the values of one publication of every sensor that did
\* not publish while it was being made.
THEOREM CloudWhole == Spec => []CloudSeesWholeReadings
<1>1. TelInv => CloudSeesWholeReadings
  <2> SUFFICES ASSUME TelInv, who = "hw_cloud", NEW grp \in SensorGroups, Alike(grp) \cap moved = {},
                      NEW x \in VarsOf(grp) \cap Loaded, NEW y \in VarsOf(grp) \cap Loaded
               PROVE  got[x] = got[y]
      BY DEF CloudSeesWholeReadings
  <2>1. idx > 0
    BY DEF TelInv, ReportShape
  <2> QED BY <2>1 DEF TelInv, CloudStands, Whole
<1> QED BY <1>1, TelInvHolds, PTL

-----------------------------------------------------------------------------
(* Numbers and their lengths. *)

\* The largest values.
LEMMA Limits ==
  /\ WORD_MAX \in Nat /\ WORD_MAX < 100000
  /\ O2_LIMIT \in Nat /\ O2_LIMIT < 100000
  /\ INT_MAX \in Nat /\ INT_MIN \in Int /\ INT_MAX > 100000 /\ INT_MIN < -100000
BY DEF WORD_MAX, O2_LIMIT, INT_MAX, INT_MIN

\* A 32-bit number has at most eleven characters, and how many it really has.
LEMMA Lengths ==
  ASSUME NEW n \in Int
  PROVE  /\ IntLen(n) \in 1 .. 11
         /\ n >= 0 /\ n < 10 => IntLen(n) = 1
         /\ n >= 0 /\ n < 1000 => IntLen(n) <= 3
         /\ n >= 0 /\ n < 10000 => IntLen(n) <= 4
         /\ n >= 0 /\ n < 100000 => IntLen(n) <= 5
         /\ n > -100 /\ n < 1000 => IntLen(n) <= 3
         /\ n > -100000 /\ n < 1000000 => IntLen(n) <= 6
BY Limits DEF IntLen, Digits

\* The decimals: two when there are less than a hundred, never more than eleven.
LEMMA DecimalLengths ==
  ASSUME NEW d \in Int
  PROVE  /\ PaddedLen(Negated(d)) \in 2 .. 11
         /\ d > -100 /\ d < 100 => PaddedLen(Negated(d)) = 2
<1>1. Negated(d) \in Int
  BY DEF Negated
<1>2. IntLen(Negated(d)) \in 1 .. 11
  BY <1>1, Lengths
<1>3. PaddedLen(Negated(d)) \in 2 .. 11
  BY <1>2 DEF PaddedLen
<1>4. ASSUME d > -100, d < 100 PROVE PaddedLen(Negated(d)) = 2
  BY <1>4 DEF PaddedLen, Negated, IntLen, Digits, INT_MIN, INT_MAX
<1> QED BY <1>3, <1>4

\* The numbers of a float are 32-bit numbers.
LEMMA FloatNumbers ==
  ASSUME NEW v, IsFloat(v)
  PROVE  v.i \in Int /\ v.d \in Int
BY Limits DEF IsFloat

-----------------------------------------------------------------------------
(* The layouts. *)

\* The longest text of each variable, as a JSON field and as an integer.
Widest ==
  [x \in Shown |->
     CASE x = "g_methane_lel" -> 3 [] x = "Flame" -> 1
       [] x \in Counts \ {"g_methane_lel", "Flame"} -> 5
       [] x \in {"g_temperature_c", "g_humidity_rh"} -> 5
       [] x = "g_o2_concentration" -> 8 [] x = "Displacement" -> 6 [] OTHER -> 22]
WidestInt == [x \in Shown |-> IF x \in Counts THEN Widest[x] ELSE 11]

\* No text of a value in range is longer.
LEMMA Widths ==
  ASSUME NEW x \in Shown, NEW v, InRange(x, v)
  PROVE  /\ Width(x, v) \in Nat
         /\ Width(x, v) <= Widest[x]
         /\ who = "lora_tx" => Width(x, v) <= WidestInt[x]
<1>1. CASE x \in Counts
  <2>1. CASE x = "g_methane_lel"
    <3>1. v \in 0 .. 255
      BY <2>1 DEF InRange
    <3>2. IntLen(v) \in 1 .. 11 /\ IntLen(v) <= 3
      BY <3>1, Lengths
    <3> QED BY <1>1, <2>1, <3>2 DEF Width, Widest, WidestInt
  <2>2. CASE x = "Flame"
    <3>1. v \in 0 .. 1
      BY <2>2 DEF InRange
    <3>2. IntLen(v) = 1
      BY <3>1, Lengths
    <3> QED BY <1>1, <2>2, <3>2 DEF Width, Widest, WidestInt
  <2>3. CASE x \notin {"g_methane_lel", "Flame"}
    <3>1. v \in Words
      BY <1>1, <2>3 DEF InRange, Counts
    <3>2. v \in Nat /\ v < 100000
      BY <3>1, Limits DEF Words
    <3>3. IntLen(v) \in 1 .. 11 /\ IntLen(v) <= 5
      BY <3>2, Lengths
    <3>4. x \in Counts \ {"g_methane_lel", "Flame"}
      BY <1>1, <2>3
    <3>5. Widest[x] = 5
      BY <3>4 DEF Widest, Counts
    <3>6. WidestInt[x] = 5
      BY <1>1, <3>5 DEF WidestInt
    <3> QED BY <1>1, <3>3, <3>5, <3>6 DEF Width
  <2> QED BY <2>1, <2>2, <2>3
<1>2. CASE x \notin Counts
  <2>1. IsFloat(v)
    BY <1>2 DEF InRange, Counts
  <2>2. v.i \in Int /\ v.d \in Int
    BY <2>1, FloatNumbers
  <2>3. IntLen(v.i) \in 1 .. 11 /\ PaddedLen(Negated(v.d)) \in 2 .. 11
    BY <2>2, Lengths, DecimalLengths
  <2>4. WidestInt[x] = 11
    BY <1>2 DEF WidestInt
  <2>5. FloatLen(v) \in Nat /\ FloatLen(v) <= Widest[x] /\ Widest[x] \in Nat
    <3>1. CASE x \in {"g_temperature_c", "g_humidity_rh"}
      <4>1. v.i \in -45 .. 130 /\ v.d \in -99 .. 99
        BY <3>1 DEF InRange
      <4>2. IntLen(v.i) <= 3 /\ PaddedLen(Negated(v.d)) = 2
        BY <4>1, Lengths, DecimalLengths
      <4>3. Widest[x] = 5
        BY <1>2, <3>1 DEF Widest
      <4> QED BY <2>3, <4>2, <4>3 DEF FloatLen
    <3>2. CASE x = "g_o2_concentration"
      <4>1. v.i \in -O2_LIMIT .. O2_LIMIT /\ v.d \in -99 .. 99
        BY <3>2 DEF InRange
      <4>2. v.i > -100000 /\ v.i < 1000000
        BY <4>1, Limits
      <4>3. IntLen(v.i) <= 6 /\ PaddedLen(Negated(v.d)) = 2
        BY <2>2, <4>1, <4>2, Lengths, DecimalLengths
      <4>4. Widest[x] = 8
        BY <1>2, <3>2 DEF Widest
      <4> QED BY <2>3, <4>3, <4>4 DEF FloatLen
    <3>3. CASE x = "Displacement"
      <4>1. v.i \in 0 .. 1630 /\ v.d \in 0 .. 99
        BY <3>3 DEF InRange
      <4>2. IntLen(v.i) <= 4 /\ PaddedLen(Negated(v.d)) = 2
        BY <4>1, Lengths, DecimalLengths
      <4>3. Widest[x] = 6
        BY <1>2, <3>3 DEF Widest
      <4> QED BY <2>3, <4>2, <4>3 DEF FloatLen
    <3>4. CASE x \notin {"g_temperature_c", "g_humidity_rh", "g_o2_concentration", "Displacement"}
      <4>1. Widest[x] = 22
        BY <1>2, <3>4 DEF Widest, Counts
      <4> QED BY <2>3, <4>1 DEF FloatLen
    <3> QED BY <3>1, <3>2, <3>3, <3>4
  <2>6. IntLen(v.i) <= FloatLen(v)
    BY <2>3 DEF FloatLen
  <2>7. Width(x, v) = IF who = "lora_tx" THEN IntLen(v.i) ELSE FloatLen(v)
    BY <1>2 DEF Width
  <2>8. CASE who = "lora_tx"
    BY <2>3, <2>4, <2>5, <2>6, <2>7, <2>8
  <2>9. CASE who # "lora_tx"
    BY <2>5, <2>7, <2>9
  <2> QED BY <2>8, <2>9
<1> QED BY <1>1, <1>2

\* The items of three parts, one behind the other.
LEMMA Joined ==
  ASSUME NEW S, NEW a \in Seq(S), NEW b \in Seq(S), NEW c \in Seq(S)
  PROVE  /\ Len(a \o b \o c) = Len(a) + Len(b) + Len(c)
         /\ \A k \in 1 .. Len(a) : (a \o b \o c)[k] = a[k]
         /\ \A k \in 1 .. Len(b) : (a \o b \o c)[Len(a) + k] = b[k]
         /\ \A k \in 1 .. Len(c) : (a \o b \o c)[Len(a) + Len(b) + k] = c[k]
<1>1. PICK ab : ab = a \o b
  OBVIOUS
<1>2. /\ ab \in Seq(S) /\ Len(ab) = Len(a) + Len(b)
      /\ \A k \in 1 .. Len(a) : ab[k] = a[k]
      /\ \A k \in 1 .. Len(b) : ab[Len(a) + k] = b[k]
  BY <1>1
<1>3. /\ Len(ab \o c) = Len(ab) + Len(c)
      /\ \A k \in 1 .. Len(ab) : (ab \o c)[k] = ab[k]
      /\ \A k \in 1 .. Len(c) : (ab \o c)[Len(ab) + k] = c[k]
  <2>1. ab \in Seq(S)
    BY <1>2
  <2> QED BY <2>1
<1>4. Len(a) \in Nat /\ Len(b) \in Nat
  OBVIOUS
<1> QED BY <1>1, <1>2, <1>3, <1>4

\* What the cloud and the Ethernet report have in common.
JsonLayout(head, tail) == CountFields(head) \o FloatFields \o << Item("Flame", tail) >>

\* Its items, one by one.
AreJsonItems(l, head, tail) ==
  /\ l[1] = Item("g_adc_ch0", head + 7) /\ l[2] = Item("g_adc_ch1", 7)
  /\ l[3] = Item("g_adc_ch3", 7) /\ l[4] = Item("g_adc_ch4", 7)
  /\ l[5] = Item("g_adc_ch5", 7) /\ l[6] = Item("g_methane_ppm", 15)
  /\ l[7] = Item("g_methane_lel", 15) /\ l[8] = Item("Voltage0", 14)
  /\ l[9] = Item("Voltage1", 14) /\ l[10] = Item("Voltage2", 14)
  /\ l[11] = Item("Current0", 14) /\ l[12] = Item("Current1", 14)
  /\ l[13] = Item("Current2", 14) /\ l[14] = Item("Flow", 9)
  /\ l[15] = Item("g_temperature_c", 16) /\ l[16] = Item("g_humidity_rh", 13)
  /\ l[17] = Item("g_o2_concentration", 7) /\ l[18] = Item("Displacement", 17)
  /\ l[19] = Item("g_stress_value_n", 11) /\ l[20] = Item("Flame", tail)

\* They are what the layout says.
LEMMA JsonItems ==
  ASSUME NEW head \in Nat, NEW tail \in Nat
  PROVE  /\ Len(JsonLayout(head, tail)) = 20
         /\ AreJsonItems(JsonLayout(head, tail), head, tail)
<1> DEFINE a == CountFields(head)
           b == FloatFields
           c == << Item("Flame", tail) >>
           l == a \o b \o c
           S == [var : Shown, chars : Nat]
<1>1. a \in Seq(S) /\ Len(a) = 7
  BY DEF CountFields, Item, Shown, Counts
<1>2. b \in Seq(S) /\ Len(b) = 12
  BY DEF FloatFields, Item, Shown, Floats
<1>3. c \in Seq(S) /\ Len(c) = 1
  BY DEF Item, Shown, Counts
<1>4. /\ a[1] = Item("g_adc_ch0", head + 7) /\ a[2] = Item("g_adc_ch1", 7)
      /\ a[3] = Item("g_adc_ch3", 7) /\ a[4] = Item("g_adc_ch4", 7)
      /\ a[5] = Item("g_adc_ch5", 7) /\ a[6] = Item("g_methane_ppm", 15)
      /\ a[7] = Item("g_methane_lel", 15)
  BY DEF CountFields
<1>5. /\ b[1] = Item("Voltage0", 14)
      /\ b[2] = Item("Voltage1", 14) /\ b[3] = Item("Voltage2", 14)
      /\ b[4] = Item("Current0", 14) /\ b[5] = Item("Current1", 14)
      /\ b[6] = Item("Current2", 14) /\ b[7] = Item("Flow", 9)
      /\ b[8] = Item("g_temperature_c", 16) /\ b[9] = Item("g_humidity_rh", 13)
      /\ b[10] = Item("g_o2_concentration", 7) /\ b[11] = Item("Displacement", 17)
      /\ b[12] = Item("g_stress_value_n", 11)
  BY DEF FloatFields
<1>6. c[1] = Item("Flame", tail)
  OBVIOUS
<1> HIDE DEF a, b, c, S
<1>7. /\ Len(l) = Len(a) + Len(b) + Len(c)
      /\ \A k \in 1 .. Len(a) : l[k] = a[k]
      /\ \A k \in 1 .. Len(b) : l[Len(a) + k] = b[k]
      /\ \A k \in 1 .. Len(c) : l[Len(a) + Len(b) + k] = c[k]
  <2>1. a \in Seq(S) /\ b \in Seq(S) /\ c \in Seq(S)
    BY <1>1, <1>2, <1>3
  <2> QED BY <2>1, Joined
<1> HIDE DEF l
<1>8. Len(l) = 20 /\ l[20] = c[1]
  BY <1>1, <1>2, <1>3, <1>7
<1>9. /\ l[8] = b[1] /\ l[9] = b[2] /\ l[10] = b[3] /\ l[11] = b[4] /\ l[12] = b[5]
      /\ l[13] = b[6] /\ l[14] = b[7] /\ l[15] = b[8] /\ l[16] = b[9] /\ l[17] = b[10]
      /\ l[18] = b[11] /\ l[19] = b[12]
  BY <1>1, <1>2, <1>7
<1>10. /\ l[1] = a[1] /\ l[2] = a[2] /\ l[3] = a[3] /\ l[4] = a[4] /\ l[5] = a[5]
       /\ l[6] = a[6] /\ l[7] = a[7]
  BY <1>1, <1>7
<1>11. JsonLayout(head, tail) = l
  BY DEF JsonLayout, l, a, b, c
<1> QED BY <1>4, <1>5, <1>6, <1>8, <1>9, <1>10, <1>11, Zenon DEF AreJsonItems

\* How long the common part of the two JSON reports can be after each item, and the
\* text sent by LoRa.
JsonBound == <<12, 24, 36, 48, 60, 80, 98, 134, 170, 206, 242, 278, 314, 345, 366, 384, 399, 422,
               455, 456>>
LoraBound == <<23, 47, 73, 96, 120, 146, 171, 183, 189, 195, 201, 209, 224, 240>>
Bound(head, tail, k) ==
  IF k = 0 THEN 0 ELSE head + JsonBound[k] + IF k = 20 THEN tail ELSE 0
LoraUpTo(k) == IF k = 0 THEN 0 ELSE LoraBound[k]

\* The longest texts, one by one.
LEMMA WidestValues ==
  /\ Widest["g_adc_ch0"] = 5 /\ Widest["g_adc_ch1"] = 5 /\ Widest["g_adc_ch3"] = 5
  /\ Widest["g_adc_ch4"] = 5 /\ Widest["g_adc_ch5"] = 5 /\ Widest["g_methane_ppm"] = 5
  /\ Widest["g_methane_lel"] = 3 /\ Widest["Flame"] = 1
  /\ Widest["Voltage0"] = 22 /\ Widest["Voltage1"] = 22 /\ Widest["Voltage2"] = 22
  /\ Widest["Current0"] = 22 /\ Widest["Current1"] = 22 /\ Widest["Current2"] = 22
  /\ Widest["Flow"] = 22 /\ Widest["g_stress_value_n"] = 22
  /\ Widest["g_temperature_c"] = 5 /\ Widest["g_humidity_rh"] = 5
  /\ Widest["g_o2_concentration"] = 8 /\ Widest["Displacement"] = 6
<1>1. Widest["g_adc_ch0"] = 5 /\ Widest["g_adc_ch1"] = 5 /\ Widest["g_adc_ch3"] = 5
  BY DEF Widest, Shown, Counts, Floats
<1>2. Widest["g_adc_ch4"] = 5 /\ Widest["g_adc_ch5"] = 5 /\ Widest["g_methane_ppm"] = 5
  BY DEF Widest, Shown, Counts, Floats
<1>3. Widest["g_methane_lel"] = 3 /\ Widest["Flame"] = 1
  BY DEF Widest, Shown, Counts, Floats
<1>4. Widest["Voltage0"] = 22 /\ Widest["Voltage1"] = 22 /\ Widest["Voltage2"] = 22
  BY DEF Widest, Shown, Counts, Floats
<1>5. Widest["Current0"] = 22 /\ Widest["Current1"] = 22 /\ Widest["Current2"] = 22
  BY DEF Widest, Shown, Counts, Floats
<1>6. Widest["Flow"] = 22 /\ Widest["g_stress_value_n"] = 22
  BY DEF Widest, Shown, Counts, Floats
<1>7. Widest["g_temperature_c"] = 5 /\ Widest["g_humidity_rh"] = 5
  BY DEF Widest, Shown, Counts, Floats
<1>8. Widest["g_o2_concentration"] = 8 /\ Widest["Displacement"] = 6
  BY DEF Widest, Shown, Counts, Floats
<1> QED BY <1>1, <1>2, <1>3, <1>4, <1>5, <1>6, <1>7, <1>8

\* Each item of a JSON report adds at most its longest text.
LEMMA JsonStep ==
  ASSUME NEW head \in Nat, NEW tail \in Nat, NEW k \in 0 .. 19
  PROVE  LET item == JsonLayout(head, tail)[k + 1]
         IN /\ item.var \in Shown /\ item.chars \in Nat
            /\ Bound(head, tail, k) + item.chars + Widest[item.var] = Bound(head, tail, k + 1)
<1> DEFINE l == JsonLayout(head, tail)
           upTo(j) == Bound(head, tail, j)
           Right(j) == /\ l[j + 1].var \in Shown /\ l[j + 1].chars \in Nat
                       /\ upTo(j) + l[j + 1].chars + Widest[l[j + 1].var] = upTo(j + 1)
<1>0. AreJsonItems(l, head, tail)
  BY JsonItems
<1> HIDE DEF l
<1>1a. /\ l[1].var = "g_adc_ch0" /\ l[1].chars = head + 7
       /\ l[2].var = "g_adc_ch1" /\ l[2].chars = 7
       /\ l[3].var = "g_adc_ch3" /\ l[3].chars = 7
       /\ l[4].var = "g_adc_ch4" /\ l[4].chars = 7
       /\ l[5].var = "g_adc_ch5" /\ l[5].chars = 7
  BY <1>0 DEF AreJsonItems, Item
<1>1b. /\ l[6].var = "g_methane_ppm" /\ l[6].chars = 15
       /\ l[7].var = "g_methane_lel" /\ l[7].chars = 15
       /\ l[8].var = "Voltage0" /\ l[8].chars = 14
       /\ l[9].var = "Voltage1" /\ l[9].chars = 14
       /\ l[10].var = "Voltage2" /\ l[10].chars = 14
  BY <1>0 DEF AreJsonItems, Item
<1>1c. /\ l[11].var = "Current0" /\ l[11].chars = 14
       /\ l[12].var = "Current1" /\ l[12].chars = 14
       /\ l[13].var = "Current2" /\ l[13].chars = 14
       /\ l[14].var = "Flow" /\ l[14].chars = 9
       /\ l[15].var = "g_temperature_c" /\ l[15].chars = 16
  BY <1>0 DEF AreJsonItems, Item
<1>1d. /\ l[16].var = "g_humidity_rh" /\ l[16].chars = 13
       /\ l[17].var = "g_o2_concentration" /\ l[17].chars = 7
       /\ l[18].var = "Displacement" /\ l[18].chars = 17
       /\ l[19].var = "g_stress_value_n" /\ l[19].chars = 11
       /\ l[20].var = "Flame" /\ l[20].chars = tail
  BY <1>0 DEF AreJsonItems, Item
<1>2. /\ upTo(0) = 0 /\ upTo(1) = head + 12 /\ upTo(2) = head + 24 /\ upTo(3) = head + 36
      /\ upTo(4) = head + 48 /\ upTo(5) = head + 60 /\ upTo(6) = head + 80
      /\ upTo(7) = head + 98 /\ upTo(8) = head + 134 /\ upTo(9) = head + 170
      /\ upTo(10) = head + 206 /\ upTo(11) = head + 242 /\ upTo(12) = head + 278
      /\ upTo(13) = head + 314 /\ upTo(14) = head + 345 /\ upTo(15) = head + 366
      /\ upTo(16) = head + 384 /\ upTo(17) = head + 399 /\ upTo(18) = head + 422
      /\ upTo(19) = head + 455 /\ upTo(20) = head + 456 + tail
  BY DEF Bound, JsonBound
<1>3. {"g_adc_ch0", "g_adc_ch1", "g_adc_ch3", "g_adc_ch4", "g_adc_ch5", "g_methane_ppm",
       "g_methane_lel", "Voltage0", "Voltage1", "Voltage2", "Current0", "Current1", "Current2",
       "Flow", "g_temperature_c", "g_humidity_rh", "g_o2_concentration", "Displacement",
       "g_stress_value_n", "Flame"}
        \subseteq Shown
  BY DEF Shown, Counts, Floats
<1> HIDE DEF upTo
<1>4. Right(0) /\ Right(1) /\ Right(2) /\ Right(3) /\ Right(4)
  BY <1>1a, <1>2, <1>3, WidestValues
<1>5. Right(5) /\ Right(6) /\ Right(7) /\ Right(8) /\ Right(9)
  BY <1>1b, <1>2, <1>3, WidestValues
<1>6. Right(10) /\ Right(11) /\ Right(12) /\ Right(13) /\ Right(14)
  BY <1>1c, <1>2, <1>3, WidestValues
<1>7. Right(15) /\ Right(16) /\ Right(17) /\ Right(18) /\ Right(19)
  BY <1>1d, <1>2, <1>3, WidestValues
<1> HIDE DEF Right
<1>8. Right(k)
  BY <1>4, <1>5, <1>6, <1>7
<1> QED BY <1>8 DEF Right, l, upTo

\* Each item of the text sent by LoRa adds at most its longest text.
LEMMA LoraStep ==
  ASSUME NEW k \in 0 .. 13
  PROVE  LET item == LoraLayout[k + 1]
         IN /\ item.var \in Shown /\ item.chars \in Nat
            /\ LoraUpTo(k) + item.chars + WidestInt[item.var] = LoraUpTo(k + 1)
<1> DEFINE l == LoraLayout
           upTo(j) == LoraUpTo(j)
           Right(j) == /\ l[j + 1].var \in Shown /\ l[j + 1].chars \in Nat
                       /\ upTo(j) + l[j + 1].chars + WidestInt[l[j + 1].var] = upTo(j + 1)
<1>1a. /\ l[1].var = "Voltage0" /\ l[1].chars = 12
       /\ l[2].var = "Voltage1" /\ l[2].chars = 13
       /\ l[3].var = "Voltage2" /\ l[3].chars = 15
       /\ l[4].var = "Current0" /\ l[4].chars = 12
       /\ l[5].var = "Current1" /\ l[5].chars = 13
       /\ l[6].var = "Current2" /\ l[6].chars = 15
       /\ l[7].var = "Flow" /\ l[7].chars = 14
  BY DEF LoraLayout, Item
<1>1b. /\ l[8].var = "g_adc_ch0" /\ l[8].chars = 7
       /\ l[9].var = "g_adc_ch1" /\ l[9].chars = 1
       /\ l[10].var = "g_adc_ch3" /\ l[10].chars = 1
       /\ l[11].var = "g_adc_ch4" /\ l[11].chars = 1
       /\ l[12].var = "g_adc_ch5" /\ l[12].chars = 3
       /\ l[13].var = "g_methane_ppm" /\ l[13].chars = 10
       /\ l[14].var = "g_methane_lel" /\ l[14].chars = 13
  BY DEF LoraLayout, Item
<1>2. /\ upTo(0) = 0 /\ upTo(1) = 23 /\ upTo(2) = 47 /\ upTo(3) = 73 /\ upTo(4) = 96
      /\ upTo(5) = 120 /\ upTo(6) = 146 /\ upTo(7) = 171 /\ upTo(8) = 183 /\ upTo(9) = 189
      /\ upTo(10) = 195 /\ upTo(11) = 201 /\ upTo(12) = 209 /\ upTo(13) = 224 /\ upTo(14) = 240
  BY DEF LoraUpTo, LoraBound
<1>3. {"g_adc_ch0", "g_adc_ch1", "g_adc_ch3", "g_adc_ch4", "g_adc_ch5", "g_methane_ppm",
       "g_methane_lel", "Voltage0", "Voltage1", "Voltage2", "Current0", "Current1", "Current2",
       "Flow"} \subseteq Shown
  BY DEF Shown, Counts, Floats
<1>4. /\ WidestInt["Voltage0"] = 11 /\ WidestInt["Voltage1"] = 11 /\ WidestInt["Voltage2"] = 11
      /\ WidestInt["Current0"] = 11 /\ WidestInt["Current1"] = 11 /\ WidestInt["Current2"] = 11
      /\ WidestInt["Flow"] = 11
  BY <1>3 DEF WidestInt, Counts
<1>5. /\ WidestInt["g_adc_ch0"] = 5 /\ WidestInt["g_adc_ch1"] = 5 /\ WidestInt["g_adc_ch3"] = 5
      /\ WidestInt["g_adc_ch4"] = 5 /\ WidestInt["g_adc_ch5"] = 5
      /\ WidestInt["g_methane_ppm"] = 5 /\ WidestInt["g_methane_lel"] = 3
  BY <1>3, WidestValues DEF WidestInt, Counts
<1> HIDE DEF l, upTo
<1>6. Right(0) /\ Right(1) /\ Right(2) /\ Right(3) /\ Right(4) /\ Right(5) /\ Right(6)
  BY <1>1a, <1>2, <1>3, <1>4
<1>7. Right(7) /\ Right(8) /\ Right(9) /\ Right(10) /\ Right(11) /\ Right(12) /\ Right(13)
  BY <1>1b, <1>2, <1>3, <1>5
<1> HIDE DEF Right
<1>8. Right(k)
  BY <1>6, <1>7
<1> QED BY <1>8 DEF Right, l, upTo

\* How many items each reporter has.
LEMMA LayoutLengths ==
  /\ Len(Layout["eth_tcp"]) = 20 /\ Len(Layout["hw_cloud"]) = 20
  /\ Len(Layout["lora_tx"]) = 14 /\ Len(Layout["tshell"]) = 18
  /\ \A w \in Reporters : Len(Layout[w]) \in Nat
<1>1. Len(Layout["eth_tcp"]) = 20
  <2>1. Layout["eth_tcp"] = JsonLayout(44, 11)
    BY DEF Layout, EthLayout, JsonLayout
  <2> QED BY <2>1, JsonItems
<1>2. Len(Layout["hw_cloud"]) = 20
  <2>1. Layout["hw_cloud"] = JsonLayout(53, 12)
    BY DEF Layout, CloudLayout, JsonLayout
  <2> QED BY <2>1, JsonItems
<1>3. Len(Layout["lora_tx"]) = 14
  BY DEF Layout, LoraLayout
<1>4. Len(Layout["tshell"]) = 18
  BY DEF Layout, ShellLayout
<1> QED BY <1>1, <1>2, <1>3, <1>4 DEF Reporters

\* How long the text of reporter w can be after k items; the shell has no buffer.
UpTo(w, k) ==
  CASE w = "eth_tcp" -> Bound(44, 11, k) [] w = "hw_cloud" -> Bound(53, 12, k)
    [] OTHER -> LoraUpTo(k)

\* The items of every reporter are variables with some text around them, and what
\* the items of a report with a buffer add up to.
LEMMA Items ==
  ASSUME NEW w \in Reporters, NEW k \in Nat, k < Len(Layout[w])
  PROVE  LET item == Layout[w][k + 1]
         IN /\ item.var \in Shown /\ item.chars \in Nat
            /\ w \in {"eth_tcp", "hw_cloud"} =>
                 UpTo(w, k) + item.chars + Widest[item.var] = UpTo(w, k + 1)
            /\ w = "lora_tx" =>
                 UpTo(w, k) + item.chars + WidestInt[item.var] = UpTo(w, k + 1)
<1>1. CASE w = "eth_tcp"
  <2>1. Layout[w] = JsonLayout(44, 11)
    BY <1>1 DEF Layout, EthLayout, JsonLayout
  <2>2. k \in 0 .. 19
    <3>1. Len(Layout[w]) = 20
      BY <2>1, JsonItems
    <3> QED BY <3>1
  <2>3. UpTo(w, k) = Bound(44, 11, k) /\ UpTo(w, k + 1) = Bound(44, 11, k + 1)
    BY <1>1 DEF UpTo
  <2>4. PICK item : item = JsonLayout(44, 11)[k + 1]
    OBVIOUS
  <2>5. /\ item.var \in Shown /\ item.chars \in Nat
        /\ Bound(44, 11, k) + item.chars + Widest[item.var] = Bound(44, 11, k + 1)
    BY <2>2, <2>4, JsonStep
  <2> QED BY <1>1, <2>1, <2>3, <2>4, <2>5
<1>2. CASE w = "hw_cloud"
  <2>1. Layout[w] = JsonLayout(53, 12)
    BY <1>2 DEF Layout, CloudLayout, JsonLayout
  <2>2. k \in 0 .. 19
    <3>1. Len(Layout[w]) = 20
      BY <2>1, JsonItems
    <3> QED BY <3>1
  <2>3. UpTo(w, k) = Bound(53, 12, k) /\ UpTo(w, k + 1) = Bound(53, 12, k + 1)
    BY <1>2 DEF UpTo
  <2>4. PICK item : item = JsonLayout(53, 12)[k + 1]
    OBVIOUS
  <2>5. /\ item.var \in Shown /\ item.chars \in Nat
        /\ Bound(53, 12, k) + item.chars + Widest[item.var] = Bound(53, 12, k + 1)
    BY <2>2, <2>4, JsonStep
  <2> QED BY <1>2, <2>1, <2>3, <2>4, <2>5
<1>3. CASE w = "lora_tx"
  <2>1. Layout[w] = LoraLayout /\ Len(LoraLayout) = 14
    BY <1>3 DEF Layout, LoraLayout
  <2>2. k \in 0 .. 13
    BY <2>1
  <2>3. UpTo(w, k) = LoraUpTo(k) /\ UpTo(w, k + 1) = LoraUpTo(k + 1)
    BY <1>3 DEF UpTo
  <2> QED BY <1>3, <2>1, <2>2, <2>3, LoraStep
<1>4. CASE w = "tshell"
  <2>1. Layout[w] = ShellLayout
    BY <1>4 DEF Layout
  <2>2. ShellLayout \in Seq([var : Shown, chars : Nat])
    BY DEF ShellLayout, Item, Shown, Counts, Floats
  <2>3. k + 1 \in 1 .. Len(ShellLayout)
    BY <2>1, <2>2
  <2>4. ShellLayout[k + 1] \in [var : Shown, chars : Nat]
    <3>1. \A S : \A l \in Seq(S) : \A j \in 1 .. Len(l) : l[j] \in S
      OBVIOUS
    <3> QED BY <2>2, <2>3, <3>1, Zenon
  <2> QED BY <1>4, <2>1, <2>4
<1> QED BY <1>1, <1>2, <1>3, <1>4 DEF Reporters

\* The longest texts are lengths.
LEMMA WidestNumbers ==
  ASSUME NEW x \in Shown
  PROVE  Widest[x] \in Nat /\ WidestInt[x] \in Nat
<1>1. Widest[x] \in Nat
  BY WidestValues DEF Shown, Counts, Floats
<1> QED BY <1>1 DEF WidestInt

\* The longest reports fit.
LEMMA UpToNumbers ==
  ASSUME NEW w \in {"eth_tcp", "lora_tx", "hw_cloud"}, NEW k \in 0 .. Len(Layout[w])
  PROVE  UpTo(w, k) \in Int /\ UpTo(w, k) < BufSize[w] /\ BufSize[w] \in Nat
<1> DEFINE Json(j) == JsonBound[j] \in Nat /\ JsonBound[j] <= 456
           Lora(j) == LoraBound[j] \in Nat /\ LoraBound[j] <= 240
<1>1. ASSUME NEW j \in 1 .. 20 PROVE Json(j)
  <2>1. /\ Json(1) /\ Json(2) /\ Json(3) /\ Json(4) /\ Json(5) /\ Json(6) /\ Json(7)
        /\ Json(8) /\ Json(9) /\ Json(10) /\ Json(11) /\ Json(12) /\ Json(13) /\ Json(14)
        /\ Json(15) /\ Json(16) /\ Json(17) /\ Json(18) /\ Json(19) /\ Json(20)
    BY DEF JsonBound
  <2>2. \/ j = 1 \/ j = 2 \/ j = 3 \/ j = 4 \/ j = 5 \/ j = 6 \/ j = 7 \/ j = 8 \/ j = 9 \/ j = 10
        \/ j = 11 \/ j = 12 \/ j = 13 \/ j = 14 \/ j = 15 \/ j = 16 \/ j = 17 \/ j = 18 \/ j = 19
        \/ j = 20
    OBVIOUS
  <2> HIDE DEF Json
  <2> QED BY <2>1, <2>2, Zenon
<1>2. ASSUME NEW j \in 1 .. 14 PROVE Lora(j)
  <2>1. /\ Lora(1) /\ Lora(2) /\ Lora(3) /\ Lora(4) /\ Lora(5) /\ Lora(6) /\ Lora(7)
        /\ Lora(8) /\ Lora(9) /\ Lora(10) /\ Lora(11) /\ Lora(12) /\ Lora(13) /\ Lora(14)
    BY DEF LoraBound
  <2> HIDE DEF Lora
  <2> QED BY <2>1
<1>3. ASSUME NEW head \in Nat, NEW tail \in Nat, NEW j \in 0 .. 20
      PROVE  Bound(head, tail, j) \in Nat /\ Bound(head, tail, j) <= head + 456 + tail
  <2>1. CASE j = 0
    BY <2>1 DEF Bound
  <2>2. CASE j # 0
    <3>1. PICK b \in Nat : b = JsonBound[j] /\ b <= 456
      <4>1. j \in 1 .. 20
        BY <2>2
      <4>2. Json(j)
        BY <1>1, <4>1
      <4> QED BY <4>2, Zenon
    <3>2. Bound(head, tail, j) = head + b + IF j = 20 THEN tail ELSE 0
      BY <2>2, <3>1 DEF Bound
    <3> QED BY <3>1, <3>2
  <2> QED BY <2>1, <2>2
<1>4. CASE w = "eth_tcp"
  <2>1. k \in 0 .. 20
    BY <1>4, LayoutLengths
  <2>2. UpTo(w, k) = Bound(44, 11, k) /\ BufSize[w] = 512
    BY <1>4 DEF UpTo, BufSize
  <2>3. Bound(44, 11, k) \in Nat /\ Bound(44, 11, k) <= 44 + 456 + 11
    BY <1>3, <2>1
  <2> QED BY <2>2, <2>3
<1>5. CASE w = "hw_cloud"
  <2>1. k \in 0 .. 20
    BY <1>5, LayoutLengths
  <2>2. UpTo(w, k) = Bound(53, 12, k) /\ BufSize[w] = 600
    BY <1>5 DEF UpTo, BufSize
  <2>3. Bound(53, 12, k) \in Nat /\ Bound(53, 12, k) <= 53 + 456 + 12
    BY <1>3, <2>1
  <2> QED BY <2>2, <2>3
<1>6. CASE w = "lora_tx"
  <2>1. k \in 0 .. 14
    BY <1>6, LayoutLengths
  <2>2. UpTo(w, k) = LoraUpTo(k) /\ BufSize[w] = 256
    BY <1>6 DEF UpTo, BufSize
  <2>3. LoraUpTo(k) \in Nat /\ LoraUpTo(k) <= 240
    <3>1. CASE k = 0
      BY <3>1 DEF LoraUpTo
    <3>2. CASE k # 0
      <4>1. k \in 1 .. 14
        BY <2>1, <3>2
      <4>2. Lora(k)
        BY <1>2, <4>1
      <4> QED BY <3>2, <4>2, Zenon DEF LoraUpTo
    <3> QED BY <3>1, <3>2
  <2> QED BY <2>2, <2>3
<1> QED BY <1>4, <1>5, <1>6

-----------------------------------------------------------------------------
(* The values. *)

\* The integers a number of hundredths is printed from.
LEMMA HundredthsFloat ==
  ASSUME NEW h \in Int
  PROVE  LET f == FromHundredths(h)
         IN /\ h >= 0 => f.i = h \div 100 /\ f.d \in 0 .. 99
            /\ h < 0 => f.i = -((-h) \div 100) /\ f.d \in -99 .. 0
BY DEF FromHundredths

\* Small ones are a float's.
LEMMA SmallFloat ==
  ASSUME NEW f, f.i \in Int, f.d \in Int, f.i < 100000, f.i > -100000,
         \/ f.i >= 0 /\ f.d \in 0 .. 99
         \/ f.i <= 0 /\ f.d \in -99 .. 0
  PROVE  IsFloat(f)
<1>1. CASE f.i >= 0 /\ f.d \in 0 .. 99
  <2>1. f.i \in 0 .. INT_MAX
    BY <1>1, Limits
  <2> QED BY <1>1, <2>1 DEF IsFloat
<1>2. CASE f.i <= 0 /\ f.d \in -99 .. 0
  <2>1. f.i \in INT_MIN .. 0
    BY <1>2, Limits
  <2> QED BY <1>2, <2>1 DEF IsFloat
<1> QED BY <1>1, <1>2

\* What the SHT30 thread publishes is in range.
LEMMA ShtRange ==
  ASSUME NEW raw \in Words
  PROVE  /\ InRange("g_temperature_c", Celsius(raw))
         /\ InRange("g_humidity_rh", RelativeHumidity(raw))
<1>1. PICK m \in Nat : m = WORD_MAX
  BY Limits
<1>2. raw \in Nat /\ raw <= m
  BY <1>1 DEF Words
<1>3. m = 65535
  BY <1>1 DEF WORD_MAX
<1>4. PICK t \in Int : t = Hundredths(175 * raw - 45 * m, m)
  BY <1>2, <1>3 DEF Hundredths
<1>5. t >= -4500 /\ t <= 13000
  <2>1. PICK n \in Int : n = 175 * raw - 45 * m
    <3>1. 175 * raw - 45 * m \in Int
      BY <1>1, <1>2
    <3> QED BY <3>1, Zenon
  <2>2. n >= -45 * 65535 /\ n <= 130 * 65535
    BY <1>2, <1>3, <2>1
  <2>3. CASE n >= 0
    <3>1. t = (100 * n) \div 65535
      BY <1>3, <1>4, <2>1, <2>3 DEF Hundredths
    <3> QED BY <2>2, <2>3, <3>1
  <2>4. CASE n < 0
    <3>1. t = -((-100 * n) \div 65535)
      BY <1>3, <1>4, <2>1, <2>4 DEF Hundredths
    <3> QED BY <2>2, <2>4, <3>1
  <2> QED BY <2>3, <2>4
<1>6. InRange("g_temperature_c", Celsius(raw))
  <2>1. PICK f : f = FromHundredths(t)
    OBVIOUS
  <2>2. Celsius(raw) = f
    BY <1>1, <1>4, <2>1 DEF Celsius
  <2>3. /\ f.i \in Int /\ f.d \in Int /\ f.i >= -45 /\ f.i <= 130 /\ f.d >= -99 /\ f.d <= 99
        /\ \/ f.i >= 0 /\ f.d \in 0 .. 99
           \/ f.i <= 0 /\ f.d \in -99 .. 0
    <3>1. CASE t >= 0
      <4>1. f.i = t \div 100 /\ f.d \in 0 .. 99
        BY <2>1, <3>1, HundredthsFloat
      <4>2. f.i \in Int /\ f.i >= 0 /\ f.i <= 130
        BY <1>5, <3>1, <4>1
      <4> QED BY <4>1, <4>2
    <3>2. CASE t < 0
      <4>1. f.i = -((-t) \div 100) /\ f.d \in -99 .. 0
        BY <2>1, <3>2, HundredthsFloat
      <4>2. f.i \in Int /\ f.i >= -45 /\ f.i <= 0
        BY <1>5, <3>2, <4>1
      <4> QED BY <4>1, <4>2
    <3> QED BY <3>1, <3>2
  <2>4. IsFloat(f)
    BY <2>3, SmallFloat
  <2> QED BY <2>2, <2>3, <2>4 DEF InRange
<1>7. PICK u \in Int : u = Hundredths(100 * raw, m)
  BY <1>2, <1>3 DEF Hundredths
<1>8. u >= 0 /\ u <= 10000
  <2>1. u = (100 * (100 * raw)) \div 65535
    BY <1>2, <1>3, <1>7 DEF Hundredths
  <2> QED BY <1>2, <1>3, <2>1
<1>9. InRange("g_humidity_rh", RelativeHumidity(raw))
  <2>1. PICK f : f = FromHundredths(u)
    OBVIOUS
  <2>2. RelativeHumidity(raw) = f
    BY <1>1, <1>7, <2>1 DEF RelativeHumidity
  <2>3. f.i \in Int /\ f.d \in 0 .. 99 /\ f.i >= 0 /\ f.i <= 100
    BY <1>8, <2>1, HundredthsFloat
  <2>4. IsFloat(f)
    BY <2>3, SmallFloat
  <2> QED BY <2>2, <2>3, <2>4 DEF InRange
<1> QED BY <1>6, <1>9

\* So is what the oxygen thread publishes, whatever 32-bit number it computes with.
LEMMA O2Range ==
  ASSUME NEW p \in INT_MIN .. INT_MAX, NEW v \in O2Percent(p)
  PROVE  InRange("g_o2_concentration", v)
<1>1. PICK t \in Int : t = O2Tenths(p)
  BY Limits DEF O2Tenths
<1>2. t >= -891072 /\ t <= 891072
  <2>1. p \in Int /\ p <= 2147483647 /\ p >= -2147483647 - 1
    <3>1. PICK top \in Int : top = INT_MAX
      BY Limits
    <3>2. PICK low \in Int : low = INT_MIN
      BY Limits
    <3>3. p \in Int /\ p <= top /\ p >= low
      BY <3>1, <3>2
    <3>4. top = 2147483647
      BY <3>1, SMT DEF INT_MAX
    <3>5. low = -top - 1
      BY <3>1, <3>2, SMT DEF INT_MIN
    <3> QED BY <3>3, <3>4, <3>5, SMT
  <2>2. PICK x \in Int : x = IF p >= 0 THEN p \div 2410 ELSE (p + 2409) \div 2410
    BY <2>1, SMT
  <2>3. x >= -891072 /\ x <= 891072
    BY <2>1, <2>2, SMT
  <2>4. t = x \/ t = 209
    BY <1>1, <2>2 DEF O2Tenths
  <2> QED BY <2>3, <2>4
<1>3. PICK h : h = FromHundredths(10 * t)
  OBVIOUS
<1>4. /\ h.i \in Int /\ h.d \in Int /\ h.i > -89108 /\ h.i < 89108
      /\ \/ h.i >= 0 /\ h.d \in 0 .. 99
         \/ h.i <= 0 /\ h.d \in -99 .. 0
  <2>1. 10 * t \in Int /\ 10 * t >= -8910720 /\ 10 * t <= 8910720
    BY <1>2
  <2> QED BY <1>3, <2>1, HundredthsFloat
<1>5. \/ v = h
      \/ h.d # 0 /\ v = [h EXCEPT !.d = IF @ > 0 THEN @ - 1 ELSE @ + 1]
  BY <1>1, <1>3 DEF O2Percent
<1>6. /\ v.i = h.i
      /\ v.d = h.d \/ (h.d > 0 /\ v.d = h.d - 1) \/ (h.d < 0 /\ v.d = h.d + 1)
  <2>1. DOMAIN h = {"i", "d"}
    BY <1>3 DEF FromHundredths
  <2> QED BY <1>4, <1>5, <2>1
<1>7. /\ v.i \in Int /\ v.d \in Int
      /\ \/ v.i >= 0 /\ v.d \in 0 .. 99
         \/ v.i <= 0 /\ v.d \in -99 .. 0
  BY <1>4, <1>6
<1>8. IsFloat(v)
  BY <1>4, <1>6, <1>7, SmallFloat
<1>9. v.i \in -O2_LIMIT .. O2_LIMIT
  <2>1. PICK m \in Nat : m = O2_LIMIT
    BY Limits
  <2>2. m = 89107
    BY <2>1, SMT DEF O2_LIMIT
  <2>3. v.i >= -m /\ v.i <= m
    BY <1>4, <1>6, <2>2, SMT
  <2> QED BY <1>7, <2>1, <2>3
<1> QED BY <1>7, <1>8, <1>9 DEF InRange

-----------------------------------------------------------------------------
(* The invariant: values in range, short texts. *)

\* A store to come is of a value in range.
Entry(e) == e.grp \in Groups /\ e.var \in Shown /\ e.n \in Numbers /\ InRange(e.var, e.v)
Entries(q) == (\E S : q \in Seq(S)) /\ Len(q) <= 6 /\ \A k \in 1 .. Len(q) : Entry(q[k])
Queued == DOMAIN todo = Publishers /\ \A t \in Publishers : Entries(todo[t])

\* A text with a buffer is not longer than the longest texts of its items.
Short == who # "tshell" => pos <= UpTo(who, idx)

FitInv == TypeOK /\ Queued /\ Short

\* The parts of TypeOK.
GlobalsTyped == DOMAIN g = Shown /\ \A x \in Shown : g[x].n \in Numbers /\ InRange(x, g[x].v)
ShtTyped ==
  sht \in [pc : {"nap", "measuring", "decoded"}, m : Measurements, intact : BOOLEAN,
           read : (Words \X Words) \cup {ReadFailed}]
ReportTyped ==
  /\ who \in Reporters /\ idx \in 0 .. Len(Layout[who])
  /\ got \in [Shown -> Numbers \cup {None}] /\ pos \in Nat
CountTyped == moved \subseteq Groups /\ publications \in Numbers

\* They and the queues are all of it.
LEMMA FitParts ==
  /\ FitInv => GlobalsTyped /\ ShtTyped /\ ReportTyped /\ CountTyped /\ Queued /\ Short
  /\ GlobalsTyped' /\ ShtTyped' /\ ReportTyped' /\ CountTyped' /\ Queued' /\ Short' => FitInv'
  /\ GlobalsTyped /\ ShtTyped /\ ReportTyped /\ CountTyped /\ Queued /\ Short => FitInv
<1>1. FitInv => GlobalsTyped /\ ShtTyped /\ ReportTyped /\ CountTyped /\ Queued /\ Short
  BY DEF FitInv, TypeOK, GlobalsTyped, ShtTyped, ReportTyped, CountTyped
<1>2. GlobalsTyped /\ ShtTyped /\ ReportTyped /\ CountTyped /\ Queued /\ Short => FitInv
  BY DEF FitInv, TypeOK, GlobalsTyped, ShtTyped, ReportTyped, CountTyped, Queued, Entries
<1>3. GlobalsTyped' /\ ShtTyped' /\ ReportTyped' /\ CountTyped' /\ Queued' /\ Short' => FitInv'
  BY DEF FitInv, TypeOK, GlobalsTyped, ShtTyped, ReportTyped, CountTyped, Queued, Entries
<1> QED BY <1>1, <1>2, <1>3

\* The values of a publication are in range.
LEMMA ValuesInRange ==
  ASSUME NEW grp \in Groups \ {"sht30"}, NEW values \in Values(grp), NEW k \in DOMAIN Stores[grp]
  PROVE  InRange(Stores[grp][k], values[k])
<1>1. CASE grp = "o2"
  <2>1. PICK p \in O2Products : \E v \in O2Percent(p) : values = <<v>>
    BY <1>1 DEF Values
  <2>2. PICK v \in O2Percent(p) : values = <<v>>
    BY <2>1
  <2>3. p \in INT_MIN .. INT_MAX
    BY TelemetryAssumption
  <2>4. InRange("g_o2_concentration", v)
    BY <2>3, O2Range
  <2>5. k = 1 /\ Stores[grp][1] = "g_o2_concentration"
    BY <1>1 DEF Stores
  <2> QED BY <2>2, <2>4, <2>5
<1>2. CASE grp # "o2"
  <2>1. values \in Samples[grp] /\ grp \in DOMAIN Samples
    BY <1>2, TelemetryAssumption DEF Values
  <2> QED BY <2>1, TelemetryAssumption
<1> QED BY <1>1, <1>2

\* A group has at most six variables.
LEMMA GroupSizes == \A grp \in Groups : Len(Stores[grp]) <= 6
<1> DEFINE Small(grp) == Len(Stores[grp]) <= 6
<1>1. /\ Small("methane") /\ Small("uart2_debug") /\ Small("flame") /\ Small("sht30") /\ Small("o2")
      /\ Small("flow")
      /\ Small("displacement") /\ Small("stress") /\ Small("voltage") /\ Small("current")
  BY DEF Stores
<1> HIDE DEF Small
<1>2. \A grp \in Groups : Small(grp)
  BY <1>1, GroupNames, Zenon
<1> QED BY <1>2, Zenon DEF Small

\* A new or shorter queue.
LEMMA QueueStep ==
  ASSUME Queued, NEW t \in Publishers, NEW q, Entries(q), todo' = [todo EXCEPT ![t] = q]
  PROVE  Queued'
<1>1. DOMAIN todo' = Publishers
  BY DEF Queued
<1>2. ASSUME NEW u \in Publishers PROVE Entries(todo'[u])
  BY DEF Queued
<1> QED BY <1>1, <1>2 DEF Queued

\* A publication is a queue of stores in range.
LEMMA PublicationEntries ==
  ASSUME NEW grp \in Groups, NEW n \in Numbers, NEW values,
         \A k \in DOMAIN Stores[grp] : InRange(Stores[grp][k], values[k]),
         NEW q, q = [k \in DOMAIN Stores[grp] |->
                       [grp |-> grp, var |-> Stores[grp][k], n |-> n, v |-> values[k]]]
  PROVE  Entries(q)
<1> DEFINE len == Len(Stores[grp])
           S == {q[k] : k \in 1 .. len}
<1>1. len \in Nat /\ DOMAIN Stores[grp] = 1 .. len /\ len <= 6
  <2>1. len \in Nat /\ DOMAIN Stores[grp] = 1 .. len
    BY VarsByPosition
  <2>2. len <= 6
    BY GroupSizes
  <2> QED BY <2>1, <2>2
<1>2. \A k \in 1 .. len : Stores[grp][k] \in Shown
  BY <1>1, VarsByPosition
<1> HIDE DEF len
<1>3. q \in Seq(S) /\ Len(q) = len
  <2>1. \A k \in 1 .. len : q[k] \in S
    OBVIOUS
  <2> HIDE DEF S
  <2>2. q \in [1 .. len -> S]
    BY <1>1, <2>1
  <2> QED BY <1>1, <2>2
<1>4. \A k \in 1 .. len : Entry(q[k])
  BY <1>1, <1>2 DEF Entry
<1> QED BY <1>1, <1>3, <1>4 DEF Entries

-----------------------------------------------------------------------------
(* Its steps. *)

\* At the start nothing is pending and the text is empty.
LEMMA InitFit == Init => FitInv
<1> SUFFICES ASSUME Init PROVE FitInv
    OBVIOUS
<1>1. MaxPublications \in Nat /\ 0 \in Numbers
  BY TelemetryAssumption DEF Numbers
<1>2. PICK p \in Profiles : g = [x \in Shown |-> [n |-> 0, v |-> p[x]]]
  BY DEF Init
<1>3. \A x \in Shown : InRange(x, p[x])
  BY TelemetryAssumption
<1>4. GlobalsTyped
  <2>1. DOMAIN g = Shown
    BY <1>2
  <2>2. \A x \in Shown : g[x].n = 0 /\ g[x].v = p[x]
    BY <1>2
  <2> QED BY <1>1, <1>3, <2>1, <2>2 DEF GlobalsTyped
<1>5. ShtTyped
  BY DEF Init, ShtTyped
<1>6. ReportTyped
  <2>1. who \in Reporters /\ idx = 0 /\ pos = 0 /\ got = Nothing
    BY DEF Init
  <2>2. got \in [Shown -> Numbers \cup {None}]
    BY <2>1 DEF Nothing
  <2>3. 0 \in 0 .. Len(Layout[who])
    BY <2>1, LayoutLengths
  <2> QED BY <2>1, <2>2, <2>3 DEF ReportTyped
<1>7. CountTyped
  BY <1>1 DEF Init, CountTyped
<1>8. Queued
  <2>1. DOMAIN todo = Publishers /\ \A t \in Publishers : todo[t] = <<>>
    BY DEF Init
  <2>2. <<>> \in Seq({}) /\ Len(<<>>) = 0
    OBVIOUS
  <2>3. Entries(<<>>)
    BY <2>2 DEF Entries
  <2> QED BY <2>1, <2>3 DEF Queued
<1>9. Short
  <2>1. who \in Reporters /\ idx = 0 /\ pos = 0
    BY DEF Init
  <2>2. who # "tshell" => UpTo(who, 0) = 0
    BY <2>1 DEF Reporters, UpTo, Bound, LoraUpTo
  <2> QED BY <2>1, <2>2 DEF Short
<1> QED BY <1>4, <1>5, <1>6, <1>7, <1>8, <1>9, FitParts

\* A reading becomes a publication.
LEMMA ReadingFits ==
  ASSUME FitInv, NEW grp \in Groups \ {"sht30"}, Reading(grp)
  PROVE  FitInv'
<1>1. PICK values \in Values(grp) :
        todo' = [todo EXCEPT ![Publisher[grp]] = Publication(grp, values)]
  BY DEF Reading
<1>2. publications' \in Numbers
  BY FitParts, TelemetryAssumption DEF Reading, Begun, CountTyped, Numbers
<1>3. PICK n \in Numbers : n = publications'
  BY <1>2
<1>4. PICK q : q = Publication(grp, values)
  OBVIOUS
<1>5. q = [k \in DOMAIN Stores[grp] |->
             [grp |-> grp, var |-> Stores[grp][k], n |-> n, v |-> values[k]]]
  BY <1>3, <1>4 DEF Publication
<1>6. \A k \in DOMAIN Stores[grp] : InRange(Stores[grp][k], values[k])
  BY ValuesInRange
<1>7. Entries(q)
  BY <1>5, <1>6, PublicationEntries
<1>8. Queued'
  <2>1. Publisher[grp] \in Publishers
    BY Owners
  <2> QED BY <1>1, <1>4, <1>7, <2>1, FitParts, QueueStep
<1>9. UNCHANGED <<g, sht, who, idx, got, pos, moved>>
  BY DEF Reading, reportVars
<1>10. GlobalsTyped' /\ ShtTyped' /\ ReportTyped' /\ CountTyped' /\ Short'
  BY <1>2, <1>9, FitParts DEF GlobalsTyped, ShtTyped, ReportTyped, CountTyped, Short
<1> QED BY <1>8, <1>10, FitParts

\* A store puts a value in range into the variable.
LEMMA StoreFits ==
  ASSUME FitInv, NEW t \in Publishers, Store(t)
  PROVE  FitInv'
<1>1. PICK q : q = todo[t]
  OBVIOUS
<1>2. Entries(q) /\ q # <<>>
  BY <1>1, FitParts DEF Queued, Store
<1>3. PICK S : q \in Seq(S)
  BY <1>2 DEF Entries
<1>4. PICK e : e = Head(q)
  OBVIOUS
<1>5. Len(q) \in Nat /\ Len(q) >= 1 /\ e = q[1]
  BY <1>2, <1>3, <1>4
<1>6. Entry(e)
  BY <1>2, <1>5 DEF Entries
<1>7. Entries(Tail(q))
  <2>1. Tail(q) \in Seq(S) /\ Len(Tail(q)) = Len(q) - 1
    BY <1>2, <1>3
  <2>2. \A k \in 1 .. Len(Tail(q)) : Tail(q)[k] = q[k + 1]
    BY <1>2, <1>3
  <2>3. \A k \in 1 .. Len(Tail(q)) : k + 1 \in 1 .. Len(q)
    BY <1>5, <2>1
  <2>4. \A k \in 1 .. Len(q) : Entry(q[k])
    BY <1>2 DEF Entries
  <2>5. \A k \in 1 .. Len(Tail(q)) : Entry(Tail(q)[k])
    BY <2>2, <2>3, <2>4
  <2>6. Len(Tail(q)) <= 6
    BY <1>2, <1>5, <2>1 DEF Entries
  <2> QED BY <2>1, <2>5, <2>6 DEF Entries
<1>8. /\ g' = [g EXCEPT ![e.var] = [n |-> e.n, v |-> e.v]]
      /\ moved' = IF idx > 0 THEN moved \cup {e.grp} ELSE moved
      /\ todo' = [todo EXCEPT ![t] = Tail(q)]
      /\ UNCHANGED <<sht, who, idx, got, pos, publications>>
  BY <1>1, <1>4 DEF Store, reportVars
<1>9. Queued'
  BY <1>7, <1>8, FitParts, QueueStep
<1>10. GlobalsTyped'
  <2>1. DOMAIN g = Shown /\ \A x \in Shown : g[x].n \in Numbers /\ InRange(x, g[x].v)
    BY FitParts DEF GlobalsTyped
  <2>2. DOMAIN g' = Shown
    BY <1>8, <2>1
  <2>3. ASSUME NEW x \in Shown PROVE g'[x].n \in Numbers /\ InRange(x, g'[x].v)
    <3>1. CASE x = e.var
      <4>1. g'[x].n = e.n /\ g'[x].v = e.v
        BY <1>8, <2>1, <3>1
      <4> QED BY <1>6, <3>1, <4>1 DEF Entry
    <3>2. CASE x # e.var
      <4>1. g'[x] = g[x]
        BY <1>8, <2>1, <3>2
      <4> QED BY <2>1, <4>1
    <3> QED BY <3>1, <3>2
  <2> QED BY <2>2, <2>3 DEF GlobalsTyped
<1>11. CountTyped'
  BY <1>6, <1>8, FitParts DEF CountTyped, Entry
<1>12. ShtTyped' /\ ReportTyped' /\ Short'
  BY <1>8, FitParts DEF ShtTyped, ReportTyped, Short
<1> QED BY <1>9, <1>10, <1>11, <1>12, FitParts

\* The SHT30 thread publishes what it has decoded, converted.
LEMMA ShtFits ==
  ASSUME FitInv, ShtCommand \/ ShtRead \/ ShtDone
  PROVE  FitInv'
<1>1. UNCHANGED <<g, who, idx, got, pos, moved>>
  BY DEF ShtCommand, ShtRead, ShtDone, reportVars
<1>2. GlobalsTyped' /\ ReportTyped' /\ Short'
  BY <1>1, FitParts DEF GlobalsTyped, ReportTyped, Short
<1>3. publications' \in Numbers
  <2>1. Begun \/ UNCHANGED publications
    BY DEF ShtCommand, ShtRead, ShtDone
  <2>2. CASE Begun
    BY <2>2, FitParts, TelemetryAssumption DEF Begun, CountTyped, Numbers
  <2>3. CASE UNCHANGED publications
    BY <2>3, FitParts DEF CountTyped
  <2> QED BY <2>1, <2>2, <2>3
<1>4. CountTyped'
  BY <1>1, <1>3, FitParts DEF CountTyped
<1>5. ShtTyped'
  <2>1. CASE ShtCommand
    BY <2>1, FitParts DEF ShtCommand, ShtTyped
  <2>2. CASE ShtRead
    <3>1. sht.m \in Measurements
      BY FitParts DEF ShtTyped
    <3>2. /\ Intact[sht.m] \in (Words \X Words) \cup {ReadFailed}
          /\ Damaged[sht.m] \subseteq (Words \X Words) \cup {ReadFailed}
      BY <3>1, ReadsWords
    <3> QED BY <2>2, <3>2, FitParts DEF ShtRead, ShtTyped
  <2>3. CASE ShtDone
    BY <2>3, FitParts DEF ShtDone, ShtTyped
  <2> QED BY <2>1, <2>2, <2>3
<1>6. Queued'
  <2>1. CASE UNCHANGED todo
    BY <2>1, FitParts DEF Queued
  <2>2. CASE ~ UNCHANGED todo
    <3>1. ShtDone
      BY <2>2 DEF ShtCommand, ShtRead
    <3>2. PICK values : values = <<Celsius(sht.read[1]), RelativeHumidity(sht.read[2])>>
      OBVIOUS
    <3>3. PICK n \in Numbers : n = publications
      BY FitParts DEF CountTyped
    <3>4. PICK q : /\ todo' = [todo EXCEPT !["sht30_rd"] = q]
                   /\ q = [k \in 1 .. 2 |-> [grp |-> "sht30", var |-> Stores["sht30"][k],
                             n |-> n, v |-> values[k]]]
      BY <2>2, <3>1, <3>2, <3>3 DEF ShtDone
    <3>5. sht.read \in Words \X Words
      BY <2>2, <3>1, FitParts DEF ShtDone, ShtTyped
    <3>6. /\ InRange("g_temperature_c", values[1])
          /\ InRange("g_humidity_rh", values[2])
      BY <3>2, <3>5, ShtRange
    <3>7. /\ DOMAIN Stores["sht30"] = 1 .. 2 /\ "sht30" \in Groups
          /\ Stores["sht30"][1] = "g_temperature_c" /\ Stores["sht30"][2] = "g_humidity_rh"
      BY GroupNames DEF Stores
    <3>8. \A k \in DOMAIN Stores["sht30"] : InRange(Stores["sht30"][k], values[k])
      BY <3>6, <3>7
    <3>9. Entries(q)
      BY <3>4, <3>7, <3>8, PublicationEntries
    <3> QED BY <3>4, <3>9, FitParts, QueueStep DEF Publishers
  <2> QED BY <2>1, <2>2
<1> QED BY <1>2, <1>4, <1>5, <1>6, FitParts

\* The next item adds at most its longest text.
LEMMA LoadFits ==
  ASSUME FitInv, Load
  PROVE  FitInv'
<1>1. who \in Reporters /\ idx \in Nat /\ idx < Len(Layout[who]) /\ pos \in Nat
  <2>1. who \in Reporters /\ idx \in 0 .. Len(Layout[who]) /\ pos \in Nat
    BY FitParts DEF ReportTyped
  <2>2. Len(Layout[who]) \in Nat
    BY <2>1, LayoutLengths
  <2>3. idx < Len(Layout[who])
    BY DEF Load
  <2> QED BY <2>1, <2>2, <2>3
<1>2. PICK item : item = Layout[who][idx + 1]
  OBVIOUS
<1>3. /\ item.var \in Shown /\ item.chars \in Nat
      /\ who \in {"eth_tcp", "hw_cloud"} =>
           UpTo(who, idx) + item.chars + Widest[item.var] = UpTo(who, idx + 1)
      /\ who = "lora_tx" =>
           UpTo(who, idx) + item.chars + WidestInt[item.var] = UpTo(who, idx + 1)
  BY <1>1, <1>2, Items
<1>4. PICK width : width = Width(item.var, g[item.var].v)
  OBVIOUS
<1>5. /\ got' = [got EXCEPT ![item.var] = g[item.var].n]
      /\ pos' = pos + item.chars + width
      /\ idx' = idx + 1
      /\ UNCHANGED <<g, todo, sht, who, moved, publications>>
  BY <1>2, <1>4 DEF Load
<1>6. g[item.var].n \in Numbers /\ InRange(item.var, g[item.var].v)
  BY <1>3, FitParts DEF GlobalsTyped
<1>7. /\ width \in Nat /\ width <= Widest[item.var]
      /\ who = "lora_tx" => width <= WidestInt[item.var]
  BY <1>3, <1>4, <1>6, Widths
<1>8. ReportTyped'
  <2>1. idx + 1 \in 0 .. Len(Layout[who])
    <3>1. Len(Layout[who]) \in Nat
      BY <1>1, LayoutLengths
    <3> QED BY <1>1, <3>1
  <2>2. pos' \in Nat
    BY <1>1, <1>3, <1>5, <1>7
  <2>3. got' \in [Shown -> Numbers \cup {None}]
    BY <1>5, <1>6, FitParts DEF ReportTyped
  <2> QED BY <1>1, <1>5, <2>1, <2>2, <2>3 DEF ReportTyped
<1>9. Short'
  <2>1. CASE who = "tshell"
    BY <1>5, <2>1 DEF Short
  <2>2. CASE who # "tshell"
    <3>1. PICK u \in Int : u = UpTo(who, idx)
      <4>1. who \in {"eth_tcp", "lora_tx", "hw_cloud"}
        BY <1>1, <2>2 DEF Reporters
      <4>2. idx \in 0 .. Len(Layout[who])
        BY FitParts DEF ReportTyped
      <4>3. UpTo(who, idx) \in Int
        BY <4>1, <4>2, UpToNumbers
      <4> QED BY <4>3, Zenon
    <3>2. pos <= u
      BY <2>2, <3>1, FitParts DEF Short
    <3>3. PICK widest \in Nat :
            width <= widest /\ u + item.chars + widest = UpTo(who, idx + 1)
      <4>1. Widest[item.var] \in Nat /\ WidestInt[item.var] \in Nat
        BY <1>3, WidestNumbers
      <4>2. CASE who \in {"eth_tcp", "hw_cloud"}
        BY <1>3, <1>7, <3>1, <4>1, <4>2
      <4>3. CASE who = "lora_tx"
        BY <1>3, <1>7, <3>1, <4>1, <4>3
      <4> QED BY <1>1, <2>2, <4>2, <4>3 DEF Reporters
    <3>4. pos' <= UpTo(who, idx + 1)
      <4>1. pos + item.chars + width <= u + item.chars + widest
        BY <1>1, <1>3, <1>7, <3>2, <3>3
      <4> QED BY <1>5, <3>3, <4>1
    <3> QED BY <1>5, <3>4 DEF Short
  <2> QED BY <2>1, <2>2
<1>10. GlobalsTyped' /\ ShtTyped' /\ CountTyped' /\ Queued'
  BY <1>5, FitParts DEF GlobalsTyped, ShtTyped, CountTyped, Queued
<1> QED BY <1>8, <1>9, <1>10, FitParts

\* The text begins anew.
LEMMA SendFits ==
  ASSUME FitInv, Send
  PROVE  FitInv'
<1>1. /\ idx' = 0 /\ got' = Nothing /\ pos' = 0 /\ moved' = {}
      /\ UNCHANGED <<g, todo, sht, who, publications>>
  BY DEF Send
<1>2. who \in Reporters
  BY FitParts DEF ReportTyped
<1>3. ReportTyped'
  <2>1. 0 \in 0 .. Len(Layout[who])
    BY <1>2, LayoutLengths
  <2>2. Nothing \in [Shown -> Numbers \cup {None}]
    BY DEF Nothing
  <2> QED BY <1>1, <1>2, <2>1, <2>2 DEF ReportTyped
<1>4. Short'
  <2>1. who # "tshell" => UpTo(who, 0) = 0
    BY <1>2 DEF Reporters, UpTo, Bound, LoraUpTo
  <2> QED BY <1>1, <2>1 DEF Short
<1>5. GlobalsTyped' /\ ShtTyped' /\ CountTyped' /\ Queued'
  BY <1>1, FitParts DEF GlobalsTyped, ShtTyped, CountTyped, Queued
<1> QED BY <1>3, <1>4, <1>5, FitParts

\* Every step.
LEMMA NextFit == FitInv /\ [Next]_vars => FitInv'
<1> SUFFICES ASSUME FitInv, [Next]_vars PROVE FitInv'
    OBVIOUS
<1>1. ASSUME NEW grp \in Groups \ {"sht30"}, Reading(grp) PROVE FitInv'
  BY <1>1, ReadingFits
<1>2. ASSUME NEW t \in Publishers, Store(t) PROVE FitInv'
  BY <1>2, StoreFits
<1>3. CASE ShtCommand \/ ShtRead \/ ShtDone
  BY <1>3, ShtFits
<1>4. CASE Load
  BY <1>4, LoadFits
<1>5. CASE Send
  BY <1>5, SendFits
<1>6. CASE UNCHANGED vars
  <2>1. UNCHANGED <<g, todo, sht, who, idx, got, pos, moved, publications>>
    BY <1>6 DEF vars
  <2>2. GlobalsTyped' /\ ShtTyped' /\ ReportTyped' /\ CountTyped' /\ Queued' /\ Short'
    BY <2>1, FitParts DEF GlobalsTyped, ShtTyped, ReportTyped, CountTyped, Queued, Short
  <2> QED BY <2>2, FitParts
<1> QED BY <1>1, <1>2, <1>3, <1>4, <1>5, <1>6 DEF Next, Publish

\* So the invariant always holds.
LEMMA FitInvHolds == Spec => []FitInv
<1>1. Init => FitInv
  BY InitFit
<1>2. FitInv /\ [Next]_vars => FitInv'
  BY NextFit
<1> QED BY <1>1, <1>2, PTL DEF Spec

-----------------------------------------------------------------------------
(* The ranges, the buffers and the measurements. *)

\* Whatever the sensors deliver, every published value is in its range, every item
\* was loaded from a publication or not at all, and no publisher has more stores to
\* make than its group has variables.
THEOREM TypeCorrect == Spec => []TypeOK
<1>1. FitInv => TypeOK
  BY DEF FitInv
<1> QED BY <1>1, FitInvHolds, PTL

\* The text of an Ethernet, LoRa or cloud report, and the terminator behind it, fits
\* into eth_json_buf, text_buf or json_buf after every append, for every value in
\* its range: pos never reaches the size of the buffer, so that the size given to
\* the next rt_snprintf is never zero or less.
THEOREM ReportsFit == Spec => []ReportFits
<1>1. ASSUME FitInv, who \in DOMAIN BufSize PROVE pos < BufSize[who]
  <2>1. who \in {"eth_tcp", "lora_tx", "hw_cloud"}
    BY <1>1 DEF BufSize
  <2>2. who \in Reporters /\ idx \in 0 .. Len(Layout[who]) /\ pos \in Nat /\ pos <= UpTo(who, idx)
    BY <1>1, <2>1, FitParts DEF ReportTyped, Short
  <2>3. UpTo(who, idx) \in Int /\ UpTo(who, idx) < BufSize[who] /\ BufSize[who] \in Nat
    BY <2>1, <2>2, UpToNumbers
  <2> QED BY <2>2, <2>3
<1>2. FitInv => ReportFits
  BY <1>1 DEF ReportFits
<1> QED BY <1>2, FitInvHolds, PTL

\* sht30_read_once accepts an intact answer, whatever was measured, with the two
\* words the sensor sent; an answer disturbed in up to three bits, or in up to eight
\* neighbouring ones, it accepts only when the two words are still those, and else
\* it fails.  Without Detectable this does not hold: a CRC-8 has unnoticed
\* disturbances of four bits.
THEOREM TakesOnlyMeasured == Detectable => (Spec => []OnlyMeasured)
<1> SUFFICES ASSUME Detectable PROVE Spec => []OnlyMeasured
    OBVIOUS
<1>1. Init => OnlyMeasured
  BY DEF Init, OnlyMeasured
<1>2. ASSUME FitInv, OnlyMeasured, [Next]_vars PROVE OnlyMeasured'
  <2>1. sht.m \in Measurements /\ DOMAIN sht = {"pc", "m", "intact", "read"}
    BY <1>2, FitParts DEF ShtTyped
  <2>2. CASE ShtRead
    <3>1. Intact[sht.m] = sht.m /\ Damaged[sht.m] \subseteq {sht.m, ReadFailed}
      BY <2>1, ReadsIntact, ReadsDamaged
    <3>2. CASE \E r \in Damaged[sht.m] :
                 sht' = [sht EXCEPT !.pc = "decoded", !.read = r, !.intact = FALSE]
      <4>1. PICK r \in Damaged[sht.m] :
              sht' = [sht EXCEPT !.pc = "decoded", !.read = r, !.intact = FALSE]
        BY <3>2
      <4>2. sht'.m = sht.m /\ sht'.read = r /\ sht'.intact = FALSE
        BY <2>1, <4>1
      <4> QED BY <3>1, <4>2 DEF OnlyMeasured
    <3>3. CASE sht' = [sht EXCEPT !.pc = "decoded", !.read = Intact[sht.m], !.intact = TRUE]
      <4>1. sht'.m = sht.m /\ sht'.read = Intact[sht.m]
        BY <2>1, <3>3
      <4> QED BY <3>1, <4>1 DEF OnlyMeasured
    <3>4. CASE sht' = [sht EXCEPT !.pc = "nap"]
      <4>1. sht'.pc = "nap"
        BY <2>1, <3>4
      <4> QED BY <4>1 DEF OnlyMeasured
    <3> QED BY <2>2, <3>2, <3>3, <3>4 DEF ShtRead
  <2>3. CASE ShtCommand
    <3>1. sht' = sht \/ sht'.pc = "measuring"
      BY <2>1, <2>3 DEF ShtCommand
    <3> QED BY <1>2, <3>1 DEF OnlyMeasured
  <2>4. CASE ShtDone
    <3>1. sht'.pc = "nap"
      BY <2>1, <2>4 DEF ShtDone
    <3> QED BY <3>1 DEF OnlyMeasured
  <2>5. CASE UNCHANGED sht
    BY <1>2, <2>5 DEF OnlyMeasured
  <2>6. UNCHANGED sht \/ ShtCommand \/ ShtRead \/ ShtDone
    BY <1>2 DEF Next, Publish, Reading, Store, Load, Send, vars
  <2> QED BY <2>2, <2>3, <2>4, <2>5, <2>6
<1>3. FitInv /\ OnlyMeasured /\ [Next]_vars => OnlyMeasured'
  BY <1>2
<1> QED BY <1>1, <1>3, FitInvHolds, PTL DEF Spec
=============================================================================
