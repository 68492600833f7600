-------------------------- MODULE ModbusPollProofs --------------------------
(***************************************************************************)
(* The users of the Modbus master: what the send thread publishes belongs  *)
(* together, for all readings, all surroundings and any number of uses of  *)
(* the shell commands.                                                     *)
(***************************************************************************)
EXTENDS ModbusPoll, TLAPS

-----------------------------------------------------------------------------
(* The constants. *)

\* The requests of a round: only the first goes to the water meter, and it fetches
\* both registers of the flow.
LEMMA PollFacts ==
  /\ DOMAIN Polls = 1 .. 7 /\ Len(Polls) = 7
  /\ \A j \in 1 .. 7 : /\ Polls[j].slave \in Slaves
                       /\ Polls[j].slave = 1 => Polls[j].regs = {1, 2}
                       /\ Polls[j].name \notin {"free", "set"}
                       /\ Polls[j].name = "flow" => j = 1
                       /\ Polls[j].name = "displacement" => Polls[j].slave = 2
                       /\ Polls[j].name \in {"status", "unit", "value"} => Polls[j].slave = 3
                       /\ Polls[j].name \in {"status", "unit"} => j \in {3, 4}
                       /\ Polls[j].name \in {"voltage", "current"} => Polls[j].slave = 73
  /\ Polls[1].slave = 1
  /\ \E j \in 1 .. 7 : Polls[j].name = "value"
BY DEF Polls, Request, Slaves, WATERMETER_SLAVE_ADDR, DISPLACEMENT_SLAVE_ADDR,
       STRESS_SLAVE_ADDR, AMMETER_SLAVE_ADDR

\* What a device can show is a reading, and no reading is junk.
LEMMA ReadingFacts ==
  /\ Unset \in AllReadings /\ "junk" \notin AllReadings
  /\ \A w \in Worlds : \A s \in Slaves : w.readings[s] \subseteq AllReadings
<1>1. \A w \in Worlds : \A s \in Slaves : "junk" \notin w.readings[s]
  BY ModbusAssumption DEF IsWorld
<1>2. \A s \in Slaves : "junk" \notin ReadingsOf(s)
  BY <1>1 DEF ReadingsOf
<1>3. Unset \in AllReadings /\ "junk" \notin AllReadings
  <2>1. "junk" \notin UNION {ReadingsOf(s) : s \in Slaves}
    BY <1>2, Zenon
  <2>2. "junk" # Unset
    BY DEF Unset
  <2> QED BY <2>1, <2>2, Zenon DEF AllReadings
<1>4. \A w \in Worlds : \A s \in Slaves : w.readings[s] \subseteq ReadingsOf(s)
  BY DEF ReadingsOf
<1>5. \A s \in Slaves : ReadingsOf(s) \subseteq AllReadings
  BY DEF AllReadings
<1> QED BY <1>3, <1>4, <1>5

\* The shell's requests go to slaves on the bus; disp_test_addr's only to the
\* addresses it is used with, and disp_set_addr fetches nothing.
LEMMA ShellFacts ==
  ASSUME NEW w \in Worlds, NEW r \in ShellRequests(w)
  PROVE  /\ r.slave \in Slaves /\ r # Free
         /\ r.slave = 1 /\ 1 \notin w.testAddrs => r.regs = {}
<1>1. w.testAddrs \subseteq Slaves /\ w.setAddrs \subseteq Slaves
  BY ModbusAssumption DEF IsWorld
<1>2. CASE r \in {TestAddr(a) : a \in w.testAddrs}
  BY <1>1, <1>2 DEF TestAddr, Request, Free
<1>3. CASE r \in {SetAddr(a) : a \in w.setAddrs}
  BY <1>1, <1>3 DEF SetAddr, Request, Free
<1> QED BY <1>2, <1>3 DEF ShellRequests

\* The cells of the flow.
LEMMA CellFacts ==
  /\ {<<1, 1>>, <<1, 2>>, <<2, 1>>, <<3, 8>>, <<3, 104>>, <<3, 80>>, <<73, 256>>, <<73, 270>>}
       \subseteq Cells
  /\ \A c \in Cells : c = <<c[1], c[2]>>
BY DEF Cells

-----------------------------------------------------------------------------
(* The invariant. *)

\* Whose request is on the bus; the send thread's is the poll it waits for, and
\* its result has not come yet.
BusHeld ==
  /\ bus # Free => \/ user = "send" /\ pc = "wait" /\ bus = Polls[i] /\ result["send"] = "none"
                   \/ user = "shell" /\ bus \in ShellRequests(world)
  /\ pc # "wait" => result["send"] = "none"

\* The registers of the flow come from one reply, and the first of them does not
\* change between the thread's two accesses.
FlowTogether ==
  /\ pc = "flow_low" => i = 1
  /\ WATERMETER_SLAVE_ADDR \notin world.testAddrs =>
       /\ usMRegHoldBuf[<<1, 1>>] = usMRegHoldBuf[<<1, 2>>]
       /\ pc = "flow_low" => locals.reg_high = usMRegHoldBuf[<<1, 1>>]

\* The thread stores a value only with the verdict on that value in place.
VerdictStands == pc = "value" => (g_stress_value_valid <=> Valid(locals))

PollInv ==
  TypeOK /\ BusHeld /\ FlowTogether /\ VerdictStands /\ FlowFromOneReply /\ LastValueKept

\* Nothing has been requested at the start.
LEMMA InitInv == Init => PollInv
<1> SUFFICES ASSUME Init PROVE PollInv
    OBVIOUS
<1>1. /\ world \in Worlds /\ up \in [Slaves -> BOOLEAN]
      /\ shows \in [Slaves -> AllReadings] /\ \A s \in Slaves : shows[s] \in world.readings[s]
      /\ bus \in {Free} \cup {Polls[j] : j \in DOMAIN Polls} \cup ShellRequests(world)
      /\ user \in Users /\ pc \in {"request", "wait", "flow_low", "online", "valid", "value",
                                    "invalid", "nap"}
      /\ g_displacement_sensor_online \in BOOLEAN /\ g_stress_sensor_online \in BOOLEAN
      /\ g_stress_value_valid \in BOOLEAN /\ outage \in BOOLEAN
      /\ shell \in {"idle", "request", "wait"}
  BY Zenon DEF Init, Users
<1>2. usMRegHoldBuf \in [Cells -> AllReadings]
  BY ReadingFacts DEF Init
<1>3. result \in [Users -> {"none", "ok", "error"}] /\ result["send"] = "none"
  BY DEF Init, Users
<1>4. i \in DOMAIN Polls
  BY PollFacts DEF Init
<1>5. locals \in [reg_high : AllReadings, status : AllReadings, unit : AllReadings,
                  value : AllReadings]
  BY ReadingFacts DEF Init, NoLocals
<1>6. /\ Flow \in AllReadings \X AllReadings /\ Displacement \in AllReadings
      /\ Voltage \in AllReadings /\ Current \in AllReadings
      /\ g_stress_value_n \in (AllReadings \X AllReadings \X AllReadings) \cup {Junk}
  BY ReadingFacts DEF Init
<1>7. runs \in 0 .. MaxShell /\ noise \in 0 .. world.maxNoise
  BY ModbusAssumption DEF Init, IsWorld
<1>8. TypeOK
  BY <1>1, <1>2, <1>3, <1>4, <1>5, <1>6, <1>7 DEF TypeOK
<1>9. BusHeld
  BY <1>3 DEF Init, BusHeld
<1>10. FlowTogether /\ FlowFromOneReply
  <2>1. usMRegHoldBuf[<<1, 1>>] = Unset /\ usMRegHoldBuf[<<1, 2>>] = Unset
    BY CellFacts DEF Init
  <2> QED BY <2>1 DEF Init, FlowTogether, FlowFromOneReply
<1>11. VerdictStands /\ LastValueKept
  BY DEF Init, VerdictStands, LastValueKept, Junk, Unset
<1> QED BY <1>8, <1>9, <1>10, <1>11 DEF PollInv

-----------------------------------------------------------------------------
(* The master and the devices. *)

\* The request in progress goes to a slave; if that is the water meter, it fetches
\* both registers of the flow or none.
LEMMA RequestFacts ==
  ASSUME PollInv, bus # Free
  PROVE  /\ bus.slave \in Slaves
         /\ bus.slave = 1 /\ WATERMETER_SLAVE_ADDR \notin world.testAddrs =>
              bus.regs = {} \/ bus.regs = {1, 2}
<1>1. i \in 1 .. 7 /\ world \in Worlds
  BY PollFacts DEF PollInv, TypeOK
<1>2. CASE bus = Polls[i]
  BY <1>1, <1>2, PollFacts
<1>3. CASE bus \in ShellRequests(world)
  BY <1>1, <1>3, ShellFacts DEF WATERMETER_SLAVE_ADDR
<1> QED BY <1>2, <1>3 DEF PollInv, BusHeld

\* The end of a request.
LEMMA FinishFacts ==
  ASSUME PollInv, bus # Free, NEW res \in {"ok", "error"}, Finish(res), UNCHANGED <<pc, world, i>>
  PROVE  /\ bus' = Free /\ user' \in Users /\ result' \in [Users -> {"none", "ok", "error"}]
         /\ BusHeld'
<1>1. /\ result \in [Users -> {"none", "ok", "error"}] /\ user \in Users
      /\ bus' = Free /\ user' = "send" /\ result' = [result EXCEPT ![user] = res]
  BY DEF PollInv, TypeOK, Finish
<1>2. result' \in [Users -> {"none", "ok", "error"}] /\ user' \in Users
  BY <1>1 DEF Users
<1>3. pc # "wait" => result'["send"] = "none"
  BY <1>1 DEF PollInv, BusHeld, Users
<1> QED BY <1>1, <1>2, <1>3 DEF BusHeld

\* A reply fills the registers asked for.
LEMMA ReplyStep ==
  ASSUME PollInv, Reply
  PROVE  PollInv'
<1>1. /\ bus # Free /\ Finish("ok") /\ up' = [up EXCEPT ![bus.slave] = bus.name # "set"]
      /\ usMRegHoldBuf' = [c \in Cells |->
           IF c[1] = bus.slave /\ c[2] \in bus.regs THEN shows[bus.slave] ELSE usMRegHoldBuf[c]]
      /\ UNCHANGED <<world, shows, i, pc, locals, g_stress_sensor_online, g_stress_value_valid,
                     g_stress_value_n, outage, Flow, Displacement, Voltage, Current,
                     g_displacement_sensor_online, shell, runs, noise>>
  BY DEF Reply, stressVars, otherVars
<1>2. /\ bus' = Free /\ user' \in Users /\ result' \in [Users -> {"none", "ok", "error"}]
      /\ BusHeld'
  BY <1>1, FinishFacts
<1>3. bus.slave \in Slaves
  BY <1>1, RequestFacts
<1>4. up' \in [Slaves -> BOOLEAN]
  BY <1>1, <1>3 DEF PollInv, TypeOK
<1>5. usMRegHoldBuf' \in [Cells -> AllReadings]
  BY <1>1, <1>3 DEF PollInv, TypeOK
<1>6. TypeOK'
  BY <1>1, <1>2, <1>4, <1>5 DEF PollInv, TypeOK
<1>7. FlowTogether'
  <2> SUFFICES ASSUME WATERMETER_SLAVE_ADDR \notin world.testAddrs
               PROVE  /\ usMRegHoldBuf'[<<1, 1>>] = usMRegHoldBuf'[<<1, 2>>]
                      /\ pc = "flow_low" => locals.reg_high = usMRegHoldBuf'[<<1, 1>>]
    BY <1>1 DEF PollInv, FlowTogether
  <2>1. /\ usMRegHoldBuf'[<<1, 1>>] =
            IF 1 = bus.slave /\ 1 \in bus.regs THEN shows[bus.slave] ELSE usMRegHoldBuf[<<1, 1>>]
        /\ usMRegHoldBuf'[<<1, 2>>] =
            IF 1 = bus.slave /\ 2 \in bus.regs THEN shows[bus.slave] ELSE usMRegHoldBuf[<<1, 2>>]
    BY <1>1, CellFacts
  <2>2. usMRegHoldBuf'[<<1, 1>>] = usMRegHoldBuf'[<<1, 2>>]
    BY <1>1, <2>1, RequestFacts DEF PollInv, FlowTogether
  <2>3. ASSUME pc = "flow_low"
        PROVE  locals.reg_high = usMRegHoldBuf'[<<1, 1>>]
    <3>1. bus \in ShellRequests(world) /\ world \in Worlds
      BY <1>1, <2>3 DEF PollInv, BusHeld, TypeOK
    <3>2. bus.slave = 1 => bus.regs = {}
      BY <3>1, ShellFacts DEF WATERMETER_SLAVE_ADDR
    <3>3. usMRegHoldBuf'[<<1, 1>>] = usMRegHoldBuf[<<1, 1>>]
      BY <2>1, <3>2
    <3> QED BY <2>3, <3>3 DEF PollInv, FlowTogether
  <2> QED BY <2>2, <2>3
<1>8. VerdictStands' /\ FlowFromOneReply' /\ LastValueKept'
  BY <1>1 DEF PollInv, VerdictStands, FlowFromOneReply, LastValueKept, Valid
<1> QED BY <1>2, <1>6, <1>7, <1>8 DEF PollInv

\* A request that fails changes nothing but its result.
LEMMA TimeoutStep ==
  ASSUME PollInv, Timeout
  PROVE  PollInv'
<1>1. /\ bus # Free /\ Finish("error")
      /\ UNCHANGED <<world, up, shows, usMRegHoldBuf, i, pc, locals, g_stress_sensor_online,
                     g_stress_value_valid, g_stress_value_n, outage, Flow, Displacement, Voltage,
                     Current, g_displacement_sensor_online, shell, runs>>
  BY DEF Timeout, deviceVars, stressVars, otherVars
<1>2. /\ bus' = Free /\ user' \in Users /\ result' \in [Users -> {"none", "ok", "error"}]
      /\ BusHeld'
  BY <1>1, FinishFacts
<1>3. noise' \in 0 .. world.maxNoise
  <2>1. world.maxNoise \in Nat
    BY ModbusAssumption DEF PollInv, TypeOK, IsWorld
  <2> QED BY <2>1 DEF Timeout, PollInv, TypeOK
<1>4. TypeOK'
  BY <1>1, <1>2, <1>3 DEF PollInv, TypeOK
<1>5. FlowTogether' /\ VerdictStands' /\ FlowFromOneReply' /\ LastValueKept'
  BY <1>1 DEF PollInv, FlowTogether, VerdictStands, FlowFromOneReply, LastValueKept, Valid
<1> QED BY <1>2, <1>4, <1>5 DEF PollInv

\* A device changes by itself.
LEMMA DeviceStep ==
  ASSUME PollInv, DeviceChanges
  PROVE  PollInv'
<1>1. UNCHANGED <<world, bus, user, usMRegHoldBuf, result, i, pc, locals, g_stress_sensor_online,
                  g_stress_value_valid, g_stress_value_n, outage, Flow, Displacement, Voltage,
                  Current, g_displacement_sensor_online, shell, runs, noise>>
  BY DEF DeviceChanges, busVars, stressVars, otherVars
<1>2. PICK s \in Slaves :
        \/ up' = [up EXCEPT ![s] = ~up[s]] /\ UNCHANGED shows
        \/ /\ \E r \in world.readings[s] \ {shows[s]} : shows' = [shows EXCEPT ![s] = r]
           /\ UNCHANGED up
  BY DEF DeviceChanges
<1>3. /\ up \in [Slaves -> BOOLEAN] /\ shows \in [Slaves -> AllReadings]
      /\ \A t \in Slaves : shows[t] \in world.readings[t]
      /\ world.readings[s] \subseteq AllReadings
  BY ReadingFacts DEF PollInv, TypeOK
<1>4. up' \in [Slaves -> BOOLEAN]
  BY <1>2, <1>3
<1>5. shows' \in [Slaves -> AllReadings] /\ \A t \in Slaves : shows'[t] \in world.readings[t]
  BY <1>2, <1>3
<1>6. TypeOK'
  BY <1>1, <1>4, <1>5 DEF PollInv, TypeOK
<1>7. BusHeld' /\ FlowTogether' /\ VerdictStands' /\ FlowFromOneReply' /\ LastValueKept'
  BY <1>1 DEF PollInv, BusHeld, FlowTogether, VerdictStands, FlowFromOneReply, LastValueKept, Valid
<1> QED BY <1>6, <1>7 DEF PollInv

-----------------------------------------------------------------------------
(* The send thread. *)

\* What no step of the send thread touches.
Aside == UNCHANGED <<world, up, shows, shell, runs, noise>>

\* Where the thread can be.
Labels == {"request", "wait", "flow_low", "online", "valid", "value", "invalid", "nap"}

\* A request of the send thread returns: if somebody is on the bus now, it is the
\* shell.
LEMMA ReturnFacts ==
  ASSUME PollInv, Aside, NEW res \in {"ok", "error"}, Return("send", res)
  PROVE  /\ UNCHANGED <<bus, user, usMRegHoldBuf>> /\ BusHeld'
         /\ result' \in [Users -> {"none", "ok", "error"}]
<1>1. /\ result \in [Users -> {"none", "ok", "error"}] /\ result["send"] = res
      /\ result' = [result EXCEPT !["send"] = "none"] /\ UNCHANGED <<bus, user, usMRegHoldBuf>>
  BY DEF PollInv, TypeOK, Return
<1>2. result' \in [Users -> {"none", "ok", "error"}] /\ result'["send"] = "none"
  BY <1>1 DEF Users
<1>3. bus # Free => user = "shell" /\ bus \in ShellRequests(world)
  BY <1>1 DEF PollInv, BusHeld
<1>4. BusHeld'
  BY <1>1, <1>2, <1>3 DEF BusHeld, Aside
<1> QED BY <1>1, <1>2, <1>4

\* The cells the thread looks at, by the poll it is in.
LEMMA LookFacts ==
  ASSUME PollInv
  PROVE  /\ Poll = "flow" => i = 1 /\ Cell(1) = usMRegHoldBuf[<<1, 1>>] /\ Cell(1) \in AllReadings
         /\ i = 1 => Cell(2) = usMRegHoldBuf[<<1, 2>>] /\ Cell(2) \in AllReadings
         /\ Poll = "displacement" => Cell(1) \in AllReadings
         /\ Poll = "status" => Cell(8) \in AllReadings
         /\ Poll = "unit" => Cell(104) \in AllReadings
         /\ Poll = "value" => Cell(80) \in AllReadings
         /\ Poll = "voltage" => Cell(256) \in AllReadings
         /\ Poll = "current" => Cell(270) \in AllReadings
<1>1. i \in 1 .. 7 /\ \A c \in Cells : usMRegHoldBuf[c] \in AllReadings
  BY PollFacts DEF PollInv, TypeOK
<1>2. Poll = "flow" => i = 1 /\ Cell(1) = usMRegHoldBuf[<<1, 1>>] /\ Cell(1) \in AllReadings
  BY <1>1, PollFacts, CellFacts DEF Poll, Cell
<1>3. i = 1 => Cell(2) = usMRegHoldBuf[<<1, 2>>] /\ Cell(2) \in AllReadings
  BY <1>1, PollFacts, CellFacts DEF Cell
<1>4. Poll = "displacement" => Cell(1) \in AllReadings
  BY <1>1, PollFacts, CellFacts DEF Poll, Cell
<1>5. Poll = "status" => Cell(8) \in AllReadings
  BY <1>1, PollFacts, CellFacts DEF Poll, Cell
<1>6. Poll = "unit" => Cell(104) \in AllReadings
  BY <1>1, PollFacts, CellFacts DEF Poll, Cell
<1>7. Poll = "value" => Cell(80) \in AllReadings
  BY <1>1, PollFacts, CellFacts DEF Poll, Cell
<1>8. Poll = "voltage" => Cell(256) \in AllReadings
  BY <1>1, PollFacts, CellFacts DEF Poll, Cell
<1>9. Poll = "current" => Cell(270) \in AllReadings
  BY <1>1, PollFacts, CellFacts DEF Poll, Cell
<1> QED BY <1>2, <1>3, <1>4, <1>5, <1>6, <1>7, <1>8, <1>9

\* The thread gets the bus for its poll.
LEMMA RequestStep ==
  ASSUME PollInv, SendRequest, Aside
  PROVE  PollInv'
<1>1. /\ pc = "request" /\ pc' = "wait" /\ bus' = Polls[i] /\ user' = "send"
      /\ UNCHANGED <<usMRegHoldBuf, result, i, locals, g_stress_sensor_online,
                     g_stress_value_valid, g_stress_value_n, outage, Flow, Displacement, Voltage,
                     Current, g_displacement_sensor_online>>
  BY DEF SendRequest, Take, Goto, stressVars, otherVars
<1>2. i \in DOMAIN Polls
  BY DEF PollInv, TypeOK
<1>3. bus' \in {Free} \cup {Polls[j] : j \in DOMAIN Polls} \cup ShellRequests(world')
  BY <1>1, <1>2
<1>4. user' \in Users /\ pc' \in Labels
  BY <1>1, Zenon DEF Users, Labels
<1>5. TypeOK'
  BY <1>1, <1>3, <1>4 DEF PollInv, TypeOK, Aside, Labels
<1>6. BusHeld'
  BY <1>1 DEF PollInv, BusHeld, Aside
<1>7. FlowTogether' /\ VerdictStands' /\ FlowFromOneReply' /\ LastValueKept'
  BY <1>1 DEF PollInv, FlowTogether, VerdictStands, FlowFromOneReply, LastValueKept, Valid, Aside
<1> QED BY <1>5, <1>6, <1>7 DEF PollInv

\* The thread's nap ends.
LEMMA WakeStep ==
  ASSUME PollInv, SendWake, Aside
  PROVE  PollInv'
<1>1. /\ pc = "nap" /\ pc' = "request" /\ i' = Next_i /\ locals' = NoLocals
      /\ UNCHANGED <<bus, user, usMRegHoldBuf, result, g_stress_sensor_online,
                     g_stress_value_valid, g_stress_value_n, outage, Flow, Displacement, Voltage,
                     Current, g_displacement_sensor_online>>
  BY DEF SendWake, busVars, stressVars, otherVars
<1>2. i' \in DOMAIN Polls
  BY <1>1, PollFacts DEF PollInv, TypeOK, Next_i
<1>3. locals' \in [reg_high : AllReadings, status : AllReadings, unit : AllReadings,
                   value : AllReadings]
  BY <1>1, ReadingFacts DEF NoLocals
<1>4. TypeOK'
  BY <1>1, <1>2, <1>3 DEF PollInv, TypeOK, Aside
<1>5. BusHeld'
  BY <1>1 DEF PollInv, BusHeld, Aside
<1>6. FlowTogether' /\ VerdictStands' /\ FlowFromOneReply' /\ LastValueKept'
  BY <1>1 DEF PollInv, FlowTogether, VerdictStands, FlowFromOneReply, LastValueKept, Aside
<1> QED BY <1>4, <1>5, <1>6 DEF PollInv

\* The thread fetches the high register of the flow.
LEMMA FlowHighStep ==
  ASSUME PollInv, FlowHigh, Aside
  PROVE  PollInv'
<1>1. /\ Poll = "flow" /\ Return("send", "ok") /\ pc' = "flow_low"
      /\ locals' = [locals EXCEPT !.reg_high = Cell(1)]
      /\ UNCHANGED <<i, g_stress_sensor_online, g_stress_value_valid, g_stress_value_n, outage,
                     Flow, Displacement, Voltage, Current, g_displacement_sensor_online>>
  BY DEF FlowHigh, Goto, stressVars, otherVars
<1>2. /\ UNCHANGED <<bus, user, usMRegHoldBuf>> /\ BusHeld'
      /\ result' \in [Users -> {"none", "ok", "error"}]
  BY <1>1, ReturnFacts
<1>3. i = 1 /\ Cell(1) = usMRegHoldBuf[<<1, 1>>] /\ Cell(1) \in AllReadings
  BY <1>1, LookFacts
<1>4. /\ locals'.reg_high = usMRegHoldBuf[<<1, 1>>]
      /\ locals' \in [reg_high : AllReadings, status : AllReadings, unit : AllReadings,
                      value : AllReadings]
  BY <1>1, <1>3 DEF PollInv, TypeOK
<1>5. pc' \in Labels
  BY <1>1 DEF Labels
<1>6. TypeOK'
  BY <1>1, <1>2, <1>4, <1>5 DEF PollInv, TypeOK, Aside, Labels
<1>7. FlowTogether'
  BY <1>1, <1>2, <1>3, <1>4 DEF PollInv, FlowTogether, Aside
<1>8. VerdictStands' /\ FlowFromOneReply' /\ LastValueKept'
  BY <1>1 DEF PollInv, VerdictStands, FlowFromOneReply, LastValueKept, Aside
<1> QED BY <1>2, <1>6, <1>7, <1>8 DEF PollInv

\* It adds the low register, which still belongs to the high one.
LEMMA FlowLowStep ==
  ASSUME PollInv, FlowLow, Aside
  PROVE  PollInv'
<1>1. /\ pc = "flow_low" /\ pc' = "nap" /\ Flow' = <<locals.reg_high, Cell(2)>>
      /\ UNCHANGED <<i, bus, user, usMRegHoldBuf, result, locals, g_stress_sensor_online,
                     g_stress_value_valid, g_stress_value_n, outage, Displacement, Voltage,
                     Current, g_displacement_sensor_online>>
  BY DEF FlowLow, Done, busVars, stressVars
<1>2. i \in 1 .. 7 /\ locals.reg_high \in AllReadings
  BY PollFacts DEF PollInv, TypeOK
<1>3. i = 1
  BY <1>1 DEF PollInv, FlowTogether
<1>4. Cell(2) = usMRegHoldBuf[<<1, 2>>] /\ Cell(2) \in AllReadings
  BY <1>3, LookFacts
<1>5. Flow' \in AllReadings \X AllReadings /\ pc' \in Labels
  BY <1>1, <1>2, <1>4 DEF Labels
<1>6. TypeOK'
  BY <1>1, <1>5 DEF PollInv, TypeOK, Aside, Labels
<1>7. FlowFromOneReply'
  BY <1>1, <1>4 DEF PollInv, FlowTogether, FlowFromOneReply, Aside
<1>8. BusHeld' /\ FlowTogether' /\ VerdictStands' /\ LastValueKept'
  BY <1>1 DEF PollInv, BusHeld, FlowTogether, VerdictStands, LastValueKept, Aside
<1> QED BY <1>6, <1>7, <1>8 DEF PollInv

\* The other single requests succeed.
LEMMA DoneStep ==
  ASSUME PollInv, DisplacementDone \/ VoltageDone \/ CurrentDone, Aside
  PROVE  PollInv'
<1>1. /\ Return("send", "ok") /\ pc' = "nap"
      /\ UNCHANGED <<i, locals, g_stress_sensor_online, g_stress_value_valid, g_stress_value_n,
                     outage, Flow>>
  BY DEF DisplacementDone, VoltageDone, CurrentDone, Done, stressVars
<1>2. /\ UNCHANGED <<bus, user, usMRegHoldBuf>> /\ BusHeld'
      /\ result' \in [Users -> {"none", "ok", "error"}]
  BY <1>1, ReturnFacts
<1>3. /\ Displacement \in AllReadings /\ Voltage \in AllReadings /\ Current \in AllReadings
      /\ g_displacement_sensor_online \in BOOLEAN
  BY DEF PollInv, TypeOK
<1>4. /\ Displacement' \in AllReadings /\ Voltage' \in AllReadings /\ Current' \in AllReadings
      /\ g_displacement_sensor_online' \in BOOLEAN
  <2>1. CASE DisplacementDone
    BY <1>3, <2>1, LookFacts DEF DisplacementDone
  <2>2. CASE VoltageDone
    BY <1>3, <2>2, LookFacts DEF VoltageDone
  <2>3. CASE CurrentDone
    BY <1>3, <2>3, LookFacts DEF CurrentDone
  <2> QED BY <2>1, <2>2, <2>3
<1>5. pc' \in Labels
  BY <1>1 DEF Labels
<1>6. TypeOK'
  BY <1>1, <1>2, <1>4, <1>5 DEF PollInv, TypeOK, Aside, Labels
<1>7. FlowTogether' /\ VerdictStands' /\ FlowFromOneReply' /\ LastValueKept'
  BY <1>1, <1>2 DEF PollInv, FlowTogether, VerdictStands, FlowFromOneReply, LastValueKept, Aside
<1> QED BY <1>2, <1>6, <1>7 DEF PollInv

\* One of the stress sensor's three requests succeeds.
LEMMA StressReadStep ==
  ASSUME PollInv, StressRead, Aside
  PROVE  PollInv'
<1>1. /\ Return("send", "ok")
      /\ \/ Poll = "status" /\ locals' = [locals EXCEPT !.status = Cell(8)]
            /\ pc' = "request" /\ i' = i + 1
         \/ Poll = "unit" /\ locals' = [locals EXCEPT !.unit = Cell(104)]
            /\ pc' = "request" /\ i' = i + 1
         \/ Poll = "value" /\ locals' = [locals EXCEPT !.value = Cell(80)]
            /\ pc' = "online" /\ i' = i
      /\ UNCHANGED <<g_stress_sensor_online, g_stress_value_valid, g_stress_value_n, outage,
                     Flow, Displacement, Voltage, Current, g_displacement_sensor_online>>
  BY DEF StressRead, Goto, stressVars, otherVars
<1>2. /\ UNCHANGED <<bus, user, usMRegHoldBuf>> /\ BusHeld'
      /\ result' \in [Users -> {"none", "ok", "error"}]
  BY <1>1, ReturnFacts
<1>3. i \in 1 .. 7 /\ locals \in [reg_high : AllReadings, status : AllReadings,
                                  unit : AllReadings, value : AllReadings]
  BY PollFacts DEF PollInv, TypeOK
<1>4. i' \in DOMAIN Polls
  BY <1>1, <1>3, PollFacts DEF Poll
<1>5. locals' \in [reg_high : AllReadings, status : AllReadings, unit : AllReadings,
                   value : AllReadings]
  BY <1>1, <1>3, LookFacts
<1>6. pc' \in {"request", "online"}
  BY <1>1
<1>7. TypeOK'
  BY <1>1, <1>2, <1>4, <1>5, <1>6 DEF PollInv, TypeOK, Aside
<1>8. FlowTogether' /\ VerdictStands' /\ FlowFromOneReply' /\ LastValueKept'
  BY <1>1, <1>2, <1>6 DEF PollInv, FlowTogether, VerdictStands, FlowFromOneReply, LastValueKept,
     Aside
<1> QED BY <1>2, <1>7, <1>8 DEF PollInv

\* The result is published: online, then the verdict, then the value.
LEMMA StressOnlineStep ==
  ASSUME PollInv, StressOnline, Aside
  PROVE  PollInv'
<1>1. /\ pc = "online" /\ pc' = "valid" /\ g_stress_sensor_online' = TRUE
      /\ UNCHANGED <<i, bus, user, usMRegHoldBuf, result, locals, g_stress_value_valid,
                     g_stress_value_n, outage, Flow, Displacement, Voltage, Current,
                     g_displacement_sensor_online>>
  BY DEF StressOnline, Goto, busVars, otherVars
<1>2. pc' \in Labels /\ g_stress_sensor_online' \in BOOLEAN
  BY <1>1, Zenon DEF Labels
<1>3. TypeOK'
  BY <1>1, <1>2 DEF PollInv, TypeOK, Aside, Labels
<1>4. BusHeld' /\ FlowTogether' /\ VerdictStands' /\ FlowFromOneReply' /\ LastValueKept'
  BY <1>1 DEF PollInv, BusHeld, FlowTogether, VerdictStands, FlowFromOneReply, LastValueKept, Aside
<1> QED BY <1>3, <1>4 DEF PollInv

\* The verdict is about the values the thread holds.
LEMMA StressValidStep ==
  ASSUME PollInv, StressValid, Aside
  PROVE  PollInv'
<1>1. /\ pc = "valid" /\ pc' = "value" /\ g_stress_value_valid' = Valid(locals)
      /\ UNCHANGED <<i, bus, user, usMRegHoldBuf, result, locals, g_stress_sensor_online,
                     g_stress_value_n, outage, Flow, Displacement, Voltage, Current,
                     g_displacement_sensor_online>>
  BY DEF StressValid, Goto, busVars, otherVars
<1>2. pc' \in Labels /\ g_stress_value_valid' \in BOOLEAN
  BY <1>1, Zenon DEF Labels, Valid
<1>3. TypeOK'
  BY <1>1, <1>2 DEF PollInv, TypeOK, Aside, Labels
<1>4. VerdictStands'
  BY <1>1 DEF VerdictStands, Valid
<1>5. BusHeld' /\ FlowTogether' /\ FlowFromOneReply' /\ LastValueKept'
  BY <1>1 DEF PollInv, BusHeld, FlowTogether, FlowFromOneReply, LastValueKept, Aside
<1> QED BY <1>3, <1>4, <1>5 DEF PollInv

\* The value is stored if the verdict says so.
LEMMA StressValueStep ==
  ASSUME PollInv, StressValue, Aside
  PROVE  PollInv'
<1>1. /\ pc = "value" /\ pc' = "nap"
      /\ UNCHANGED <<i, bus, user, usMRegHoldBuf, result, locals, g_stress_sensor_online,
                     g_stress_value_valid, Flow, Displacement, Voltage, Current,
                     g_displacement_sensor_online>>
  BY DEF StressValue, Done, busVars, otherVars
<1>2. /\ g_stress_value_n' \in (AllReadings \X AllReadings \X AllReadings) \cup {Junk}
      /\ outage' \in BOOLEAN /\ LastValueKept'
  <2>1. CASE g_stress_value_valid /\ g_stress_value_n' = ValueN(locals) /\ outage' = FALSE
    <3>1. g_stress_value_n' = <<locals.status, locals.unit, locals.value>>
      BY <1>1, <2>1 DEF PollInv, VerdictStands, ValueN
    <3>2. /\ locals.status \in AllReadings /\ locals.unit \in AllReadings
          /\ locals.value \in AllReadings
      BY DEF PollInv, TypeOK
    <3>3. g_stress_value_n' # Junk
      BY <3>1, <3>2, ReadingFacts DEF Junk
    <3>4. g_stress_value_n' \in AllReadings \X AllReadings \X AllReadings
      BY <3>1, <3>2
    <3>5. outage' \in BOOLEAN
      BY <2>1, Zenon
    <3> QED BY <3>3, <3>4, <3>5 DEF LastValueKept
  <2>2. CASE UNCHANGED <<g_stress_value_n, outage>>
    BY <2>2 DEF PollInv, TypeOK, LastValueKept
  <2> QED BY <2>1, <2>2 DEF StressValue
<1>3. pc' \in Labels
  BY <1>1 DEF Labels
<1>4. TypeOK'
  BY <1>1, <1>2, <1>3 DEF PollInv, TypeOK, Aside, Labels
<1>5. BusHeld' /\ FlowTogether' /\ VerdictStands' /\ FlowFromOneReply'
  BY <1>1 DEF PollInv, BusHeld, FlowTogether, VerdictStands, FlowFromOneReply, Aside
<1> QED BY <1>2, <1>4, <1>5 DEF PollInv

\* A request fails.
LEMMA FailsStep ==
  ASSUME PollInv, DisplacementFails \/ StressFails \/ OtherFails, Aside
  PROVE  PollInv'
<1>1. /\ Return("send", "error") /\ pc' \in {"nap", "invalid"}
      /\ UNCHANGED <<i, locals, g_stress_value_valid, g_stress_value_n, outage, Flow,
                     Displacement, Voltage, Current>>
  BY DEF DisplacementFails, StressFails, OtherFails, Done, Goto, stressVars, otherVars
<1>2. /\ UNCHANGED <<bus, user, usMRegHoldBuf>> /\ BusHeld'
      /\ result' \in [Users -> {"none", "ok", "error"}]
  BY <1>1, ReturnFacts
<1>3. g_displacement_sensor_online' \in BOOLEAN /\ g_stress_sensor_online' \in BOOLEAN
  <2>1. g_displacement_sensor_online \in BOOLEAN /\ g_stress_sensor_online \in BOOLEAN
    BY DEF PollInv, TypeOK
  <2> QED BY <2>1 DEF DisplacementFails, StressFails, OtherFails, stressVars, otherVars
<1>4. TypeOK'
  BY <1>1, <1>2, <1>3 DEF PollInv, TypeOK, Aside
<1>5. FlowTogether' /\ VerdictStands' /\ FlowFromOneReply' /\ LastValueKept'
  BY <1>1, <1>2 DEF PollInv, FlowTogether, VerdictStands, FlowFromOneReply, LastValueKept, Aside
<1> QED BY <1>2, <1>4, <1>5 DEF PollInv

\* The thread gives the stress sensor up for this round.
LEMMA StressInvalidStep ==
  ASSUME PollInv, StressInvalid, Aside
  PROVE  PollInv'
<1>1. /\ pc = "invalid" /\ pc' = "nap" /\ g_stress_value_valid' = FALSE /\ outage' = TRUE
      /\ i' = CHOOSE j \in DOMAIN Polls : Polls[j].name = "value"
      /\ UNCHANGED <<bus, user, usMRegHoldBuf, result, locals, g_stress_sensor_online,
                     g_stress_value_n, Flow, Displacement, Voltage, Current,
                     g_displacement_sensor_online>>
  BY DEF StressInvalid, busVars, otherVars
<1>2. i' \in DOMAIN Polls
  BY <1>1, PollFacts
<1>3. pc' \in Labels /\ g_stress_value_valid' \in BOOLEAN /\ outage' \in BOOLEAN
  BY <1>1, Zenon DEF Labels
<1>4. TypeOK'
  BY <1>1, <1>2, <1>3 DEF PollInv, TypeOK, Aside, Labels
<1>5. BusHeld' /\ FlowTogether' /\ VerdictStands' /\ FlowFromOneReply' /\ LastValueKept'
  BY <1>1 DEF PollInv, BusHeld, FlowTogether, VerdictStands, FlowFromOneReply, LastValueKept, Aside
<1> QED BY <1>4, <1>5 DEF PollInv

\* Every step of the send thread.
LEMMA SendStep ==
  ASSUME PollInv, Send
  PROVE  PollInv'
<1>1. Aside
  BY DEF Send, Aside, deviceVars
<1>2. CASE SendReturns
  BY <1>1, <1>2, FlowHighStep, DoneStep, StressReadStep, FailsStep DEF SendReturns
<1>3. CASE SendRequest \/ SendWake \/ FlowLow
  BY <1>1, <1>3, RequestStep, WakeStep, FlowLowStep
<1>4. CASE StressOnline \/ StressValid \/ StressValue \/ StressInvalid
  BY <1>1, <1>4, StressOnlineStep, StressValidStep, StressValueStep, StressInvalidStep
<1> QED BY <1>2, <1>3, <1>4 DEF Send

-----------------------------------------------------------------------------
(* The shell. *)

\* The commands only use the bus.
LEMMA ShellStep ==
  ASSUME PollInv, Shell
  PROVE  PollInv'
<1>1. UNCHANGED <<world, up, shows, usMRegHoldBuf, i, pc, locals, g_stress_sensor_online,
                  g_stress_value_valid, g_stress_value_n, outage, Flow, Displacement, Voltage,
                  Current, g_displacement_sensor_online, noise>>
  BY DEF Shell, ShellCommand, ShellRequest, ShellReturns, Take, Return, deviceVars, busVars,
         stressVars, otherVars
<1>2. /\ bus' \in {Free} \cup {Polls[j] : j \in DOMAIN Polls} \cup ShellRequests(world)
      /\ user' \in Users /\ result' \in [Users -> {"none", "ok", "error"}]
      /\ shell' \in {"idle", "request", "wait"} /\ runs' \in 0 .. MaxShell /\ BusHeld'
  <2>1. /\ bus \in {Free} \cup {Polls[j] : j \in DOMAIN Polls} \cup ShellRequests(world)
        /\ user \in Users /\ result \in [Users -> {"none", "ok", "error"}]
        /\ runs \in 0 .. MaxShell /\ BusHeld
    BY DEF PollInv, TypeOK
  <2>2. CASE ShellCommand
    <3>1. /\ shell' = "request" /\ runs' = runs + 1 /\ runs < MaxShell
          /\ UNCHANGED <<bus, user, result>>
      BY <2>2 DEF ShellCommand, busVars
    <3>2. runs' \in 0 .. MaxShell
      BY <2>1, <3>1, ModbusAssumption
    <3>3. BusHeld'
      BY <1>1, <2>1, <3>1 DEF BusHeld
    <3> QED BY <2>1, <3>1, <3>2, <3>3
  <2>3. CASE ShellRequest
    <3>1. /\ bus' \in ShellRequests(world) /\ user' = "shell" /\ shell' = "wait"
          /\ UNCHANGED <<result, runs>>
      BY <2>3 DEF ShellRequest, Take
    <3>2. BusHeld'
      BY <1>1, <2>1, <3>1 DEF BusHeld
    <3> QED BY <2>1, <3>1, <3>2 DEF Users
  <2>4. CASE ShellReturns
    <3>1. /\ result' = [result EXCEPT !["shell"] = "none"] /\ shell' = "idle"
          /\ UNCHANGED <<bus, user, runs>>
      BY <2>4 DEF ShellReturns, Return
    <3>2. result' \in [Users -> {"none", "ok", "error"}] /\ result'["send"] = result["send"]
      BY <2>1, <3>1 DEF Users
    <3>3. BusHeld'
      BY <1>1, <2>1, <3>1, <3>2 DEF BusHeld
    <3> QED BY <2>1, <3>1, <3>2, <3>3
  <2> QED BY <2>2, <2>3, <2>4 DEF Shell
<1>3. TypeOK'
  BY <1>1, <1>2 DEF PollInv, TypeOK
<1>4. FlowTogether' /\ VerdictStands' /\ FlowFromOneReply' /\ LastValueKept'
  BY <1>1 DEF PollInv, FlowTogether, VerdictStands, FlowFromOneReply, LastValueKept, Valid
<1> QED BY <1>2, <1>3, <1>4 DEF PollInv

-----------------------------------------------------------------------------
(* The theorems. *)

\* Every step keeps the invariant.
LEMMA NextInv == PollInv /\ [Next]_vars => PollInv'
<1> SUFFICES ASSUME PollInv, [Next]_vars PROVE PollInv'
    OBVIOUS
<1>1. CASE Next
  BY <1>1, ReplyStep, TimeoutStep, DeviceStep, SendStep, ShellStep DEF Next
<1>2. CASE UNCHANGED vars
  <2>1. TypeOK'
    BY <1>2 DEF PollInv, TypeOK, vars
  <2>2. BusHeld' /\ FlowTogether' /\ VerdictStands' /\ FlowFromOneReply' /\ LastValueKept'
    BY <1>2 DEF PollInv, BusHeld, FlowTogether, VerdictStands, FlowFromOneReply, LastValueKept,
       Valid, vars
  <2> QED BY <2>1, <2>2 DEF PollInv
<1> QED BY <1>1, <1>2

\* The invariant holds in every reachable state.
LEMMA InvHolds == Spec => []PollInv
BY InitInv, NextInv, PTL DEF Spec

\* The state of the Modbus users stays well typed: the send thread's index stays
\* within the round, on every way out of a failed request, and the request on the
\* bus is always one of the thread's or the shell's.
THEOREM TypeCorrect == Spec => []TypeOK
<1>1. PollInv => TypeOK
  BY DEF PollInv
<1> QED BY <1>1, InvHolds, PTL

\* send_thread_entry reads the two registers of the flow in two accesses to
\* usMRegHoldBuf, without a lock: they belong to the same reply, as long as
\* disp_test_addr is not used with the water meter's address.
THEOREM FlowConsistent == Spec => []FlowFromOneReply
<1>1. PollInv => FlowFromOneReply
  BY DEF PollInv
<1> QED BY <1>1, InvHolds, PTL

\* stress_sensor_poll never stores the uninitialized value_n that
\* stress_decode_measurement leaves without a unit.
THEOREM ValueKept == Spec => []LastValueKept
<1>1. PollInv => LastValueKept
  BY DEF PollInv
<1> QED BY <1>1, InvHolds, PTL
=============================================================================
