----------------------------- MODULE ModbusPoll -----------------------------
(***************************************************************************)
(* The Modbus RTU master's users: the send thread (freeModbusApp.c), which *)
(* polls the water meter, the displacement sensor, the stress sensor       *)
(* (stressSensorApp.c) and the ammeter in turn, and the shell commands     *)
(* disp_test_addr and disp_set_addr (displacementSensorApp.c).  They share *)
(* the bus and the register buffer usMRegHoldBuf.                          *)
(*                                                                         *)
(* The master itself, FreeMODBUS, is not part of the repository.  Its      *)
(* users rely on this: a request waits for the bus, the poll thread (10)   *)
(* files the reply in usMRegHoldBuf[slave - 1] and reports success, or     *)
(* reports an error after a timeout.                                       *)
(*                                                                         *)
(* The contents of a register are represented by the reading the device    *)
(* showed when it answered, so two registers belong together when their    *)
(* readings are the same.  Everybody may preempt the send thread (29); a   *)
(* step of it is an access to the shared variables.                        *)
(***************************************************************************)
EXTENDS Naturals, Sequences

CONSTANTS
  Worlds,       \* the surroundings the node may work in, see IsWorld
  NoUnit,       \* a reading of the stress sensor without a unit (STRESS_UNIT_NONE)
  MaxShell      \* bound: how often the shell commands are used

WATERMETER_SLAVE_ADDR == 1
DISPLACEMENT_SLAVE_ADDR == 2
STRESS_SLAVE_ADDR == 3
AMMETER_SLAVE_ADDR == 73
Slaves == {WATERMETER_SLAVE_ADDR, DISPLACEMENT_SLAVE_ADDR, STRESS_SLAVE_ADDR, AMMETER_SLAVE_ADDR}

\* readings: what each slave can show; unsteady: the slaves that are switched on
\* and off; testAddrs, setAddrs: the addresses that disp_test_addr and
\* disp_set_addr are used with; maxNoise, a bound: replies that get lost.
IsWorld(w) ==
  /\ DOMAIN w.readings = Slaves
  /\ \A s \in Slaves : w.readings[s] # {} /\ "junk" \notin w.readings[s]
  /\ w.unsteady \subseteq Slaves /\ w.testAddrs \subseteq Slaves /\ w.setAddrs \subseteq Slaves
  /\ w.maxNoise \in Nat

ASSUME ModbusAssumption ==
  /\ Worlds # {} /\ \A w \in Worlds : IsWorld(w)
  /\ MaxShell \in Nat

Request(name, slave, regs) == [name |-> name, slave |-> slave, regs |-> regs]

\* A round of the send thread.
FlowReadShort ==  \* mutant of Polls
  << Request("flow", 1, {1}), Request("displacement", 2, {0, 1}),
     Request("status", 3, {8}), Request("unit", 3, {104}), Request("value", 3, {80, 81}),
     Request("voltage", 73, 256 .. 261), Request("current", 73, 270 .. 275) >>
Polls ==
  << Request("flow", 1, {1, 2}), Request("displacement", 2, {0, 1}),
     Request("status", 3, {8}), Request("unit", 3, {104}), Request("value", 3, {80, 81}),
     Request("voltage", 73, 256 .. 261), Request("current", 73, 270 .. 275) >>

\* disp_test_addr a, and disp_set_addr a b, which writes the register with the
\* device's address and fetches none; b is no polled address.
TestAddr(a) == Request("test", a, {0, 1})
SetAddr(a) == Request("set", a, {})
ShellRequests(w) == {TestAddr(a) : a \in w.testAddrs} \cup {SetAddr(a) : a \in w.setAddrs}

\* The registers the send thread looks at, and no others.
Cells == {<<1, 1>>, <<1, 2>>, <<2, 1>>, <<3, 8>>, <<3, 104>>, <<3, 80>>, <<73, 256>>, <<73, 270>>}

Free == Request("free", 0, {})
Unset == "unset"   \* a variable's initial value
Junk == <<"junk", "junk", "junk">>  \* an uninitialised value_n
ReadingsOf(s) == UNION {w.readings[s] : w \in Worlds}
AllReadings == (UNION {ReadingsOf(s) : s \in Slaves}) \cup {Unset}

VARIABLES
  world,               \* the surroundings, which do not change
  up, shows,           \* the devices: answering, and what they show
  bus, user,           \* the request in progress, and whose it is
  usMRegHoldBuf,       \* cell -> the reading it was filled from
  result,              \* each user's request: "none", "ok" or "error"
  i, pc,               \* the send thread: Polls[i], and where it is in it
  locals,              \* its reg_high, status, unit, value_n
  Flow,                \* the readings of the high and the low register
  Displacement, Voltage, Current, g_displacement_sensor_online,
  g_stress_sensor_online, g_stress_value_valid,
  g_stress_value_n,    \* the readings status, unit and raw value were taken from
  outage,              \* observer: no value has been stored since the last failure
  shell,               \* the shell's command: "idle", "request" or "wait"
  runs, noise          \* counters for the bounds

deviceVars == <<world, up, shows>>
busVars == <<bus, user, usMRegHoldBuf, result>>
stressVars == <<g_stress_sensor_online, g_stress_value_valid, g_stress_value_n, outage>>
otherVars == <<Flow, Displacement, Voltage, Current, g_displacement_sensor_online>>
vars == <<world, up, shows, bus, user, usMRegHoldBuf, result, i, pc, locals, Flow, Displacement,
          Voltage, Current, g_displacement_sensor_online, g_stress_sensor_online,
          g_stress_value_valid, g_stress_value_n, outage, shell, runs, noise>>

NoLocals == [reg_high |-> Unset, status |-> Unset, unit |-> Unset, value |-> Unset]
Users == {"send", "shell"}

TypeOK ==
  /\ world \in Worlds
  /\ up \in [Slaves -> BOOLEAN]
  /\ shows \in [Slaves -> AllReadings] /\ \A s \in Slaves : shows[s] \in world.readings[s]
  /\ bus \in {Free} \cup {Polls[j] : j \in DOMAIN Polls} \cup ShellRequests(world)
  /\ user \in Users
  /\ usMRegHoldBuf \in [Cells -> AllReadings]
  /\ result \in [Users -> {"none", "ok", "error"}]
  /\ i \in DOMAIN Polls
  /\ pc \in {"request", "wait", "flow_low", "online", "valid", "value", "invalid", "nap"}
  /\ locals \in [reg_high : AllReadings, status : AllReadings, unit : AllReadings,
                 value : AllReadings]
  /\ Flow \in AllReadings \X AllReadings
  /\ Displacement \in AllReadings /\ Voltage \in AllReadings /\ Current \in AllReadings
  /\ g_displacement_sensor_online \in BOOLEAN
  /\ g_stress_sensor_online \in BOOLEAN /\ g_stress_value_valid \in BOOLEAN
  /\ g_stress_value_n \in (AllReadings \X AllReadings \X AllReadings) \cup {Junk}
  /\ outage \in BOOLEAN
  /\ shell \in {"idle", "request", "wait"}
  /\ runs \in 0 .. MaxShell /\ noise \in 0 .. world.maxNoise

Init ==
  /\ world \in Worlds
  /\ up \in [Slaves -> BOOLEAN]
  /\ shows \in [Slaves -> AllReadings] /\ \A s \in Slaves : shows[s] \in world.readings[s]
  /\ bus = Free /\ user = "send"
  /\ usMRegHoldBuf = [c \in Cells |-> Unset]
  /\ result = [u \in Users |-> "none"]
  /\ i = 1 /\ pc = "request" /\ locals = NoLocals
  /\ Flow = <<Unset, Unset>> /\ Displacement = Unset /\ Voltage = Unset /\ Current = Unset
  /\ g_displacement_sensor_online = FALSE
  /\ g_stress_sensor_online = FALSE /\ g_stress_value_valid = FALSE
  /\ g_stress_value_n = <<Unset, Unset, Unset>> /\ outage = TRUE
  /\ shell = "idle" /\ runs = 0 /\ noise = 0

-----------------------------------------------------------------------------
(* The master and the devices. *)

\* eMBMasterReqReadHoldingRegister(..., RT_WAITING_FOREVER) gets the bus.
Take(u, r) == bus = Free /\ bus' = r /\ user' = u /\ UNCHANGED <<usMRegHoldBuf, result>>

\* It returns with the result.
Return(u, res) ==
  /\ result[u] = res
  /\ result' = [result EXCEPT ![u] = "none"]
  /\ UNCHANGED <<bus, user, usMRegHoldBuf>>

Finish(res) == bus' = Free /\ user' = "send" /\ result' = [result EXCEPT ![user] = res]

\* A device whose address is set answers once more under the old one.
Reply ==
  /\ bus # Free /\ up[bus.slave]
  /\ up' = [up EXCEPT ![bus.slave] = bus.name # "set"]
  /\ usMRegHoldBuf' = [c \in Cells |->
       IF c[1] = bus.slave /\ c[2] \in bus.regs THEN shows[bus.slave] ELSE usMRegHoldBuf[c]]
  /\ Finish("ok")
  /\ UNCHANGED <<world, shows, i, pc, locals, stressVars, otherVars, shell, runs, noise>>

\* No device at the address, or no intact reply.
Timeout ==
  /\ bus # Free
  /\ \/ ~up[bus.slave] /\ UNCHANGED noise
     \/ up[bus.slave] /\ noise < world.maxNoise /\ noise' = noise + 1
  /\ Finish("error")
  /\ UNCHANGED <<deviceVars, usMRegHoldBuf, i, pc, locals, stressVars, otherVars, shell, runs>>

\* A device is switched on or off, or shows another reading.
DeviceChanges ==
  /\ \E s \in Slaves :
       \/ s \in world.unsteady /\ up' = [up EXCEPT ![s] = ~up[s]] /\ UNCHANGED shows
       \/ /\ \E r \in world.readings[s] \ {shows[s]} : shows' = [shows EXCEPT ![s] = r]
          /\ UNCHANGED up
  /\ UNCHANGED <<world, busVars, i, pc, locals, stressVars, otherVars, shell, runs, noise>>

-----------------------------------------------------------------------------
(* The send thread. *)

Poll == Polls[i].name
NoWrap == i + 1  \* mutant of Next_i
Next_i == IF i = Len(Polls) THEN 1 ELSE i + 1

\* The thread sleeps, except between the stress sensor's three requests.
Done == pc' = "nap" /\ UNCHANGED i
Goto(label) == pc' = label /\ UNCHANGED i

SendRequest ==
  /\ pc = "request"
  /\ Take("send", Polls[i])
  /\ Goto("wait")
  /\ UNCHANGED <<locals, stressVars, otherVars>>

SendWake ==
  /\ pc = "nap"
  /\ pc' = "request" /\ i' = Next_i
  /\ locals' = NoLocals
  /\ UNCHANGED <<busVars, stressVars, otherVars>>

Cell(reg) == usMRegHoldBuf[<<Polls[i].slave, reg>>]

\* The two registers of the flow are read one after the other.
FlowHigh ==
  /\ Poll = "flow" /\ Return("send", "ok")
  /\ locals' = [locals EXCEPT !.reg_high = Cell(1)]
  /\ Goto("flow_low")
  /\ UNCHANGED <<stressVars, otherVars>>
FlowLow ==
  /\ pc = "flow_low"
  /\ Flow' = <<locals.reg_high, Cell(2)>>
  /\ Done
  /\ UNCHANGED <<busVars, locals, stressVars, Displacement, Voltage, Current,
                 g_displacement_sensor_online>>

DisplacementDone ==
  /\ Poll = "displacement" /\ Return("send", "ok")
  /\ Displacement' = Cell(1)
  /\ g_displacement_sensor_online' = TRUE
  /\ Done
  /\ UNCHANGED <<locals, stressVars, Flow, Voltage, Current>>

VoltageDone ==
  /\ Poll = "voltage" /\ Return("send", "ok")
  /\ Voltage' = Cell(256)
  /\ Done
  /\ UNCHANGED <<locals, stressVars, Flow, Displacement, Current, g_displacement_sensor_online>>

CurrentDone ==
  /\ Poll = "current" /\ Return("send", "ok")
  /\ Current' = Cell(270)
  /\ Done
  /\ UNCHANGED <<locals, stressVars, Flow, Displacement, Voltage, g_displacement_sensor_online>>

\* stress_read_registers
StressRead ==
  /\ Return("send", "ok")
  /\ \/ Poll = "status" /\ locals' = [locals EXCEPT !.status = Cell(8)]
        /\ pc' = "request" /\ i' = i + 1
     \/ Poll = "unit" /\ locals' = [locals EXCEPT !.unit = Cell(104)]
        /\ pc' = "request" /\ i' = i + 1
     \/ Poll = "value" /\ locals' = [locals EXCEPT !.value = Cell(80)] /\ Goto("online")
  /\ UNCHANGED <<stressVars, otherVars>>

\* stress_decode_measurement: value_n is left alone without a unit.
Valid(l) == l.unit # NoUnit
ValueN(l) == IF Valid(l) THEN <<l.status, l.unit, l.value>> ELSE Junk

\* stress_sensor_poll, one shared variable at a time; the status, the unit, the
\* raw value and the decimal places are only printed.
StressOnline ==
  /\ pc = "online"
  /\ g_stress_sensor_online' = TRUE
  /\ Goto("valid")
  /\ UNCHANGED <<busVars, locals, g_stress_value_valid, g_stress_value_n, outage, otherVars>>
StressValid ==
  /\ pc = "valid"
  /\ g_stress_value_valid' = Valid(locals)
  /\ Goto("value")
  /\ UNCHANGED <<busVars, locals, g_stress_sensor_online, g_stress_value_n, outage, otherVars>>
StoreAlways ==  \* mutant of StressValue
  /\ pc = "value"
  /\ g_stress_value_n' = ValueN(locals) /\ outage' = FALSE
  /\ Done
  /\ UNCHANGED <<busVars, locals, g_stress_sensor_online, g_stress_value_valid, otherVars>>
StressValue ==
  /\ pc = "value"
  /\ \/ g_stress_value_valid /\ g_stress_value_n' = ValueN(locals) /\ outage' = FALSE
     \/ ~g_stress_value_valid /\ UNCHANGED <<g_stress_value_n, outage>>
  /\ Done
  /\ UNCHANGED <<busVars, locals, g_stress_sensor_online, g_stress_value_valid, otherVars>>

\* A failed request: each poll has its own way out.
OfflineForgotten ==  \* mutant of DisplacementFails
  /\ Poll = "displacement" /\ Return("send", "error")
  /\ Done
  /\ UNCHANGED <<locals, stressVars, otherVars>>
DisplacementFails ==
  /\ Poll = "displacement" /\ Return("send", "error")
  /\ g_displacement_sensor_online' = FALSE
  /\ Done
  /\ UNCHANGED <<locals, stressVars, Flow, Displacement, Voltage, Current>>
StressFails ==
  /\ Poll \in {"status", "unit", "value"} /\ Return("send", "error")
  /\ g_stress_sensor_online' = FALSE
  /\ Goto("invalid")
  /\ UNCHANGED <<locals, g_stress_value_valid, g_stress_value_n, outage, otherVars>>
RoundAbandoned ==  \* mutant of OtherFails
  /\ Poll \in {"flow", "voltage", "current"} /\ Return("send", "error")
  /\ pc' = "request" /\ i' = 1
  /\ UNCHANGED <<locals, stressVars, otherVars>>
OtherFails ==
  /\ Poll \in {"flow", "voltage", "current"} /\ Return("send", "error")
  /\ Done
  /\ UNCHANGED <<locals, stressVars, otherVars>>

\* On with the next sensor: the rest of the stress sensor's requests are skipped.
StressInvalid ==
  /\ pc = "invalid"
  /\ g_stress_value_valid' = FALSE /\ outage' = TRUE
  /\ pc' = "nap"
  /\ i' = CHOOSE j \in DOMAIN Polls : Polls[j].name = "value"
  /\ UNCHANGED <<busVars, locals, g_stress_sensor_online, g_stress_value_n, otherVars>>

SendReturns ==
  /\ pc = "wait"
  /\ \/ FlowHigh \/ DisplacementDone \/ StressRead \/ VoltageDone \/ CurrentDone
     \/ DisplacementFails \/ StressFails \/ OtherFails

Send ==
  /\ \/ SendRequest \/ SendReturns \/ FlowLow \/ StressOnline \/ StressValid
     \/ StressValue \/ StressInvalid \/ SendWake
  /\ UNCHANGED <<deviceVars, shell, runs, noise>>

-----------------------------------------------------------------------------
(* disp_test_addr and disp_set_addr; what they read they only print. *)

ShellCommand ==
  /\ shell = "idle" /\ runs < MaxShell
  /\ shell' = "request" /\ runs' = runs + 1
  /\ UNCHANGED busVars
ShellRequest ==
  /\ shell = "request"
  /\ \E r \in ShellRequests(world) : Take("shell", r)
  /\ shell' = "wait" /\ UNCHANGED runs
ShellReturns ==
  /\ shell = "wait"
  /\ \E res \in {"ok", "error"} : Return("shell", res)
  /\ shell' = "idle" /\ UNCHANGED runs

Shell ==
  /\ ShellCommand \/ ShellRequest \/ ShellReturns
  /\ UNCHANGED <<deviceVars, i, pc, locals, stressVars, otherVars, noise>>

-----------------------------------------------------------------------------
Next == Reply \/ Timeout \/ DeviceChanges \/ Send \/ Shell

\* The master always ends a request; the send thread, the lowest of all, gets
\* the processor and the bus again and again, since everybody else sleeps.
Fairness ==
  /\ WF_vars(Reply \/ Timeout)
  /\ SF_vars(Send)
  /\ WF_vars(Shell /\ shell # "idle")

Spec == Init /\ [][Next]_vars /\ Fairness

-----------------------------------------------------------------------------
(* Properties. *)

\* The flow is put together from the two registers of one reply, although other
\* requests may be answered before the thread has fetched both from the buffer.  It
\* takes addresses other than the water meter's for disp_test_addr: with address 1
\* the command's reply replaces the first register, and when that comes between the
\* flow's reply and the access to the first, the second is an older reply's.
FlowFromOneReply == WATERMETER_SLAVE_ADDR \notin world.testAddrs => Flow[1] = Flow[2]

\* "Keep the last valid force in g_stress_value_n" (openspec/specs/
\* sensor-acquisition/spec.md): failed polls and readings without a unit never
\* put anything into it that was not measured.
LastValueKept == g_stress_value_n # Junk

\* A device that goes on answering and showing the same reading gets its reading
\* published, whatever happens to the others on the bus.
PolledForEver ==
  /\ \A r \in ReadingsOf(STRESS_SLAVE_ADDR) \ {NoUnit} :
       <>[](up[STRESS_SLAVE_ADDR] /\ shows[STRESS_SLAVE_ADDR] = r) =>
         <>[](g_stress_sensor_online /\ g_stress_value_valid /\ g_stress_value_n = <<r, r, r>>)
  /\ \A r \in ReadingsOf(AMMETER_SLAVE_ADDR) :
       <>[](up[AMMETER_SLAVE_ADDR] /\ shows[AMMETER_SLAVE_ADDR] = r) =>
         <>[](Voltage = r /\ Current = r)

\* A device that stays silent, because it failed, was switched off or was given
\* another address, is reported offline for good.
SilenceNoticed ==
  /\ <>[]~up[DISPLACEMENT_SLAVE_ADDR] => <>[]~g_displacement_sensor_online
  /\ <>[]~up[STRESS_SLAVE_ADDR] => <>[](~g_stress_sensor_online /\ ~g_stress_value_valid)

\* "Update g_stress_value_n and set g_stress_sensor_online and
\* g_stress_value_valid", by which a reader is to "judge the current state"
\* (openspec/specs/sensor-acquisition/spec.md): when both are set, the value is
\* not one from before the last failure.
ValidIsCurrent == g_stress_sensor_online /\ g_stress_value_valid => ~outage
=============================================================================
