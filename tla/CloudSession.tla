---------------------------- MODULE CloudSession ----------------------------
(***************************************************************************)
(* The MQTT reporter, huaweiCloudApp.c: a thread that drives an ESP8266    *)
(* over UART4 with AT commands, step by step, until it is connected, and   *)
(* then publishes a JSON report every CLOUD_REPORT_INTERVAL.               *)
(*                                                                         *)
(* The text buffer uart4_recived_data is a sequence of the texts that the  *)
(* thread's strstr() calls can tell apart; what does not fit is dropped.   *)
(* The 100 ms polling loops are waits that end when the text is there, or  *)
(* by a timeout when it is not.                                            *)
(*                                                                         *)
(* The ESP8266, the access point and the broker are outside the program.   *)
(* The module executes one command at a time (another one is answered with *)
(* "busy p..." and dropped), switches to raw mode on AT+MQTTPUBRAW until   *)
(* the announced number of bytes has come in, whatever they are, and       *)
(* reports connection changes on its own.                                  *)
(*                                                                         *)
(* The shell's upload commands use the same json_buf and the same UART     *)
(* from a thread of higher priority.  Lengths are counted in AT commands.  *)
(***************************************************************************)
EXTENDS Naturals, Sequences

CONSTANTS
  RxCap,      \* how many texts fit into uart4_recived_data
  ReportLen,  \* the length of a report
  TestLen,    \* the length of the text an upload command sends
  Kinds,      \* the kinds of module the board may meet, see ModuleKinds
  MaxFaults,  \* bound: disconnects and module resets
  MaxUploads  \* bound: upload commands

\* late: may answer after the thread's timeouts and delays; strict: refuses
\* AT+MQTTUSERCFG without a clean before it; warm: stays powered when the board
\* restarts; shared: somebody uses the upload commands while the cloud thread runs.
ModuleKinds == [late : BOOLEAN, strict : BOOLEAN, warm : BOOLEAN, shared : BOOLEAN]

ASSUME CloudAssumption ==
  /\ RxCap \in Nat /\ RxCap >= 3
  /\ TestLen \in Nat \ {0} /\ ReportLen \in Nat /\ TestLen < ReportLen
  /\ Kinds \subseteq ModuleKinds /\ Kinds # {}
  /\ MaxFaults \in Nat /\ MaxUploads \in Nat

VARIABLES
  cloud_task_step, \* the static variable
  kind,            \* the kind of module, which does not change
  pc,              \* "sleep" in rt_thread_mdelay(), "run" at the switch, "built"
                   \* with a report ready, "cleared" with the buffer cleared but
                   \* the command not sent, "typed" with it sent but not its line
                   \* end, or the waiting loop the thread is in
  json_buf,        \* the text in json_buf
  upload,          \* the shell: "none", or "announced" in an upload command
  rx,              \* the texts in uart4_recived_data
  line,            \* the module: what its command line holds
  job,             \* the module: the command it executes, or "none"
  missing,         \* the module: payload it waits for; in raw mode unless 0
  begun,           \* the module: part of the payload has come in
  wifi, cfg, mqtt, \* the module: joined; 0 none, 1 user, 2 client id; connected
  net,             \* access point and broker can be reached
  published,       \* what the broker got last
  fresh,           \* observer: the report the thread waits for has reached the broker
  overtaken,       \* observer: a prompt or a confirmation came in when the thread
                   \* had cleared the buffer and not yet sent the command
  faults, uploads  \* faults and upload commands so far

threadVars == <<cloud_task_step, pc>>
textVars == <<json_buf, upload, uploads>>
rawVars == <<missing, begun>>
lineVars == <<line, job, rawVars>>
linkVars == <<kind, wifi, cfg, mqtt, net>>
cloudVars == <<published, fresh, overtaken>>
vars == <<cloud_task_step, pc, json_buf, upload, rx, line, job, missing, begun, kind,
          wifi, cfg, mqtt, net, published, fresh, overtaken, faults, uploads>>

Texts == {"OK", "ERROR", "WIFI GOT IP", "MQTTCONNECTED", "MQTTDISCONNECTED", ">",
          "+MQTTPUB:OK", "other"}

\* The command of each step; step 7 announces a report.
Command == [s \in 0 .. 7 |->
  CASE s = 0 -> "AT" [] s = 1 -> "CWMODE" [] s = 2 -> "CWJAP" [] s = 3 -> "MQTTCLEAN"
    [] s = 4 -> "MQTTUSERCFG" [] s = 5 -> "MQTTCLIENTID" [] s = 6 -> "MQTTCONN"
    [] OTHER -> "MQTTPUBRAW"]

\* What json_buf holds: a report, an upload command's text, or a report whose
\* beginning an upload command has replaced while it was being built.
JsonTexts == {"empty", "report", "test", "mixed"}
JsonLen(text) == IF text = "test" THEN TestLen ELSE ReportLen

\* A command line: a command, the announcement of an upload command, or
\* something spoilt by stray bytes.
Lines == {Command[s] : s \in 0 .. 7} \cup {"MQTTPUBRAW test", "spoilt"}

\* What the module can be busy with: a command, a join that has its address but
\* is not finished, or the publication of a complete payload.
Payloads == {"report", "test", "mixed", "garbage"}
Jobs == Lines \cup {"none", "joined"} \cup Payloads

TypeOK ==
  /\ cloud_task_step \in 0 .. 7
  /\ pc \in {"sleep", "run", "built", "cleared", "typed", "command", "prompt", "publish"}
  /\ json_buf \in JsonTexts /\ upload \in {"none", "announced"}
  /\ rx \in Seq(Texts) /\ Len(rx) <= RxCap
  /\ line \in Lines \cup {"empty"}
  /\ job \in Jobs /\ kind \in Kinds
  /\ missing \in 0 .. ReportLen /\ begun \in BOOLEAN
  /\ wifi \in BOOLEAN /\ cfg \in 0 .. 2 /\ mqtt \in BOOLEAN /\ net \in BOOLEAN
  /\ published \in Payloads \cup {"none"}
  /\ fresh \in BOOLEAN /\ overtaken \in BOOLEAN
  /\ faults \in 0 .. MaxFaults /\ uploads \in 0 .. MaxUploads

Init ==
  /\ cloud_task_step = 0
  /\ pc = "sleep"
  /\ json_buf = "empty" /\ upload = "none"
  /\ rx = <<>>
  /\ line = "empty" /\ job = "none"
  /\ net \in BOOLEAN /\ kind \in Kinds
  /\ \/ missing = 0 /\ begun = FALSE /\ wifi = FALSE /\ cfg = 0 /\ mqtt = FALSE
     \/ /\ kind.warm
        /\ wifi \in BOOLEAN /\ cfg \in 0 .. 2
        /\ mqtt \in (IF wifi /\ cfg = 2 /\ net THEN BOOLEAN ELSE {FALSE})
        /\ missing \in (IF mqtt THEN 0 .. ReportLen ELSE {0})
        /\ begun = (missing \in 1 .. ReportLen - 1)
  /\ published = "none" /\ fresh = FALSE /\ overtaken = FALSE
  /\ faults = 0 /\ uploads = 0

-----------------------------------------------------------------------------
(* The UART as the thread uses it. *)

\* strstr(uart4_recived_data, pattern): "OK" is also part of "+MQTTPUB:OK".
Contains(pattern) ==
  \E i \in DOMAIN rx :
    rx[i] = pattern \/ (pattern = "OK" /\ rx[i] = "+MQTTPUB:OK")

\* The receive thread stores what fits.
Receive(s) == rx' = SubSeq(rx \o s, 1, IF Len(rx \o s) < RxCap THEN Len(rx \o s) ELSE RxCap)

\* In raw mode text is payload, whatever it is; once the payload is complete it
\* is published, and what is too much stays in the command line.
Swallow(text, len) ==
  /\ missing > 0
  /\ missing' = IF len < missing THEN missing - len ELSE 0
  /\ begun' = (len < missing)
  /\ job' = IF len < missing THEN job
            ELSE IF len = missing /\ ~begun /\ text \in Payloads THEN text ELSE "garbage"
  /\ line' = IF len > missing THEN "spoilt" ELSE line

\* Otherwise it is added to the command line, unless the module is busy.
Type(text) ==
  /\ missing = 0
  /\ line' = IF job # "none" THEN line ELSE IF line = "empty" THEN text ELSE "spoilt"
  /\ UNCHANGED <<job, rawVars>>

\* uart4_send(cmd), and uart4_send(json_buf), which has no line end.
SendCommand(c) == Swallow(c, 1) \/ Type(c)
SendJson == Swallow(json_buf, JsonLen(json_buf)) \/ Type("spoilt")

\* A line end makes the module execute its line; in raw mode it is two bytes more.
ExecuteLine ==
  IF missing = 0 /\ job = "none" /\ line # "empty"
  THEN job' = line /\ line' = "empty" /\ UNCHANGED rawVars
  ELSE UNCHANGED lineVars

-----------------------------------------------------------------------------
(* The thread, huawei_cloud_thread_entry. *)

\* The end of a timeout, or of a delay of a second and more.  Unless it is late,
\* the module has nothing left to say by then.
TimeoutTooShort == TRUE  \* mutant of TimesOut
TimesOut == kind.late \/ job = "none"

Wake ==
  /\ pc = "sleep" /\ TimesOut
  /\ pc' = "run"
  /\ UNCHANGED <<cloud_task_step, textVars, rx, lineVars, linkVars, cloudVars, faults>>

\* Step 7 begins with a report.
Build ==
  /\ pc = "run" /\ cloud_task_step = 7
  /\ json_buf' = "report"
  /\ pc' = "built" /\ fresh' = FALSE
  /\ UNCHANGED <<cloud_task_step, upload, uploads, rx, lineVars, linkVars, published, overtaken,
                 faults>>

\* uart4_buffer_clear(); what arrives from now on stays.
ClearText ==
  /\ pc = IF cloud_task_step = 7 THEN "built" ELSE "run"
  /\ rx' = <<>>
  /\ pc' = "cleared" /\ overtaken' = FALSE
  /\ UNCHANGED <<cloud_task_step, textVars, lineVars, linkVars, published, fresh, faults>>

\* uart4_send(cmd); in step 7 it announces the report.
StepCommand ==
  /\ pc = "cleared"
  /\ SendCommand(Command[cloud_task_step])
  /\ pc' = "typed"
  /\ UNCHANGED <<cloud_task_step, textVars, rx, linkVars, cloudVars, faults>>

\* uart4_send("\r\n"); then the wait for the answer.
LineEnd ==
  /\ pc = "typed"
  /\ ExecuteLine
  /\ pc' = IF cloud_task_step = 7 THEN "prompt" ELSE "command"
  /\ UNCHANGED <<cloud_task_step, textVars, rx, linkVars, cloudVars, faults>>

\* The text that ends the wait of each step, and the step after a failure.
Expected == [s \in 0 .. 6 |->
  IF s = 2 THEN "WIFI GOT IP" ELSE IF s = 6 THEN "MQTTCONNECTED" ELSE "OK"]
CleanMustSucceed == [s \in 0 .. 6 |-> IF s \in {5, 6} THEN 3 ELSE s]  \* mutant of OnFailure
FallBackOne == [s \in 0 .. 6 |-> s - 1]                 \* mutant of OnFailure
OnFailure == [s \in 0 .. 6 |-> CASE s = 3 -> 4 [] s \in {5, 6} -> 3 [] OTHER -> s]

\* send_at_cmd gives up on "ERROR"; wait_response (steps 2 and 6) does not look.
StopsOnError(s) == s \notin {2, 6}

StepSucceeds ==
  /\ pc = "command" /\ Contains(Expected[cloud_task_step])
  /\ cloud_task_step' = cloud_task_step + 1
  /\ pc' = IF cloud_task_step = 3 THEN "sleep" ELSE "run"
  /\ UNCHANGED <<textVars, rx, lineVars, linkVars, cloudVars, faults>>

StepFails ==
  /\ pc = "command" /\ ~Contains(Expected[cloud_task_step])
  /\ \/ StopsOnError(cloud_task_step) /\ Contains("ERROR")
     \/ TimesOut
  /\ cloud_task_step' = OnFailure[cloud_task_step]
  /\ pc' = "sleep"
  /\ UNCHANGED <<textVars, rx, lineVars, linkVars, cloudVars, faults>>

\* The prompt is there: send the report, or what json_buf holds by now.
Prompted ==
  /\ pc = "prompt" /\ Contains(">")
  /\ SendJson
  /\ pc' = "publish"
  /\ UNCHANGED <<cloud_task_step, textVars, rx, linkVars, cloudVars, faults>>

\* The text that confirms a publication.
AnyOk == "OK"  \* mutant of Confirmation
Confirmation == "+MQTTPUB:OK"

\* LOG_I("All data reported OK")
ReportedOk ==
  /\ pc = "publish" /\ Contains(Confirmation)
  /\ pc' = "sleep"
  /\ UNCHANGED <<cloud_task_step, textVars, rx, lineVars, linkVars, cloudVars, faults>>

\* No prompt or no confirmation in time: reconnect if the module said so.
ReportTimeout ==
  /\ \/ pc = "prompt" /\ ~Contains(">")
     \/ pc = "publish" /\ ~Contains(Confirmation)
  /\ TimesOut
  /\ cloud_task_step' = IF Contains("MQTTDISCONNECTED") THEN 3 ELSE 7
  /\ pc' = "sleep"
  /\ UNCHANGED <<textVars, rx, lineVars, linkVars, cloudVars, faults>>

Thread ==
  \/ Wake \/ Build \/ ClearText \/ StepCommand \/ LineEnd \/ StepSucceeds \/ StepFails
  \/ Prompted \/ ReportedOk \/ ReportTimeout

-----------------------------------------------------------------------------
(* The shell: huawei_upload_test and huawei_upload.  Its thread preempts the  *)
(* cloud thread anywhere, also while that builds a report.                    *)

\* Build a text in json_buf and announce it, command and line end in one.
UploadBegin ==
  /\ upload = "none" /\ kind.shared /\ uploads < MaxUploads
  /\ upload' = "announced" /\ uploads' = uploads + 1
  /\ \/ json_buf' = "test"
     \/ json_buf' = "mixed" /\ pc = "built"
  /\ \/ Swallow("MQTTPUBRAW test", 1)
     \/ /\ missing = 0
        /\ job' = IF job # "none" THEN job
                  ELSE IF line = "empty" THEN "MQTTPUBRAW test" ELSE "spoilt"
        /\ line' = IF job # "none" THEN line ELSE "empty"
        /\ UNCHANGED rawVars
  /\ UNCHANGED <<threadVars, rx, linkVars, cloudVars, faults>>

\* Half a second later send what json_buf holds, without a look at the answer.
UploadPayload ==
  /\ upload = "announced"
  /\ upload' = "none"
  /\ SendJson
  /\ UNCHANGED <<threadVars, json_buf, uploads, rx, linkVars, cloudVars, faults>>

Upload == UploadBegin \/ UploadPayload

-----------------------------------------------------------------------------
(* The module, the access point and the broker. *)

Answer(s) == job' = "none" /\ Receive(s)

\* Commands that always succeed, the end of a join, and spoilt lines.
DoPlain ==
  /\ \/ job \in {"AT", "CWMODE", "joined"} /\ Answer(<<"OK">>)
     \/ job = "spoilt" /\ Answer(<<"ERROR">>)
  /\ UNCHANGED <<threadVars, textVars, line, rawVars, linkVars, cloudVars, faults>>

DoJoin ==
  /\ job = "CWJAP"
  /\ \/ net /\ wifi' = TRUE /\ job' = "joined" /\ Receive(<<"WIFI GOT IP">>)
     \/ ~net /\ wifi' = FALSE /\ Answer(<<"ERROR">>)
  /\ mqtt' = FALSE
  /\ UNCHANGED <<threadVars, textVars, line, rawVars, kind, cfg, net, cloudVars, faults>>

\* The MQTT set-up.  A strict module refuses to be configured again until it is
\* cleaned, which is what step 3 is for.
DoSetup ==
  /\ \/ /\ job = "MQTTCLEAN" /\ cfg' = 0 /\ mqtt' = FALSE
        /\ Answer(IF cfg > 0 THEN <<"OK">> ELSE <<"ERROR">>)
     \/ /\ job = "MQTTUSERCFG" /\ UNCHANGED mqtt
        /\ \/ (cfg = 0 \/ ~kind.strict) /\ cfg' = 1 /\ Answer(<<"OK">>)
           \/ cfg > 0 /\ kind.strict /\ cfg' = cfg /\ Answer(<<"ERROR">>)
     \/ /\ job = "MQTTCLIENTID" /\ UNCHANGED mqtt
        /\ \/ cfg = 1 /\ cfg' = 2 /\ Answer(<<"OK">>)
           \/ cfg # 1 /\ cfg' = cfg /\ Answer(<<"ERROR">>)
     \/ /\ job = "MQTTCONN" /\ UNCHANGED cfg
        /\ \/ wifi /\ cfg = 2 /\ net /\ mqtt' = TRUE /\ Answer(<<"MQTTCONNECTED", "OK">>)
           \/ ~(wifi /\ cfg = 2 /\ net) /\ UNCHANGED mqtt /\ Answer(<<"ERROR">>)
  /\ UNCHANGED <<threadVars, textVars, line, rawVars, kind, wifi, net, cloudVars, faults>>

DoAnnounce ==
  /\ job \in {"MQTTPUBRAW", "MQTTPUBRAW test"}
  /\ \/ /\ mqtt /\ Answer(<<"OK", ">">>) /\ begun' = FALSE
        /\ missing' = IF job = "MQTTPUBRAW" THEN ReportLen ELSE TestLen
        /\ overtaken' = (overtaken \/ pc = "cleared")
     \/ ~mqtt /\ UNCHANGED <<rawVars, overtaken>> /\ Answer(<<"ERROR">>)
  /\ UNCHANGED <<threadVars, textVars, line, linkVars, published, fresh, faults>>

\* The payload is complete: publish it, whatever it is.
DoPublish ==
  /\ job \in Payloads
  /\ \/ /\ mqtt
        /\ published' = job
        /\ fresh' = (fresh \/ (job = "report" /\ pc = "publish"))
        /\ overtaken' = (overtaken \/ pc = "cleared")
        /\ Answer(<<"+MQTTPUB:OK">>)
     \/ /\ ~mqtt
        /\ UNCHANGED cloudVars
        /\ Answer(<<"other">>)
  /\ UNCHANGED <<threadVars, textVars, line, rawVars, linkVars, faults>>

Module == DoPlain \/ DoJoin \/ DoSetup \/ DoAnnounce \/ DoPublish

\* Access point and broker come and go while the module is not connected.
NetChange ==
  /\ ~mqtt
  /\ net' = ~net
  /\ UNCHANGED <<threadVars, textVars, rx, lineVars, kind, wifi, cfg, mqtt, cloudVars, faults>>

Fault == faults < MaxFaults /\ faults' = faults + 1

\* The connection is lost; the module says so.
Disconnect ==
  /\ mqtt /\ Fault
  /\ mqtt' = FALSE
  /\ wifi' \in BOOLEAN /\ net' \in BOOLEAN
  /\ Receive(<<"MQTTDISCONNECTED">>)
  /\ UNCHANGED <<threadVars, textVars, lineVars, kind, cfg, cloudVars>>

\* The module's own reconnection: it may rejoin, and reconnect (the last
\* argument of AT+MQTTCONN is 1), but nothing obliges it to.
Rejoin ==
  /\ ~wifi /\ net /\ cfg > 0 /\ job # "CWJAP"
  /\ wifi' = TRUE
  /\ Receive(<<"WIFI GOT IP">>)
  /\ UNCHANGED <<threadVars, textVars, lineVars, kind, cfg, mqtt, net, cloudVars, faults>>

AutoReconnect ==
  /\ faults > 0 /\ ~mqtt /\ wifi /\ net /\ cfg = 2 /\ job # "MQTTCONN"
  /\ mqtt' = TRUE
  /\ Receive(<<"MQTTCONNECTED">>)
  /\ UNCHANGED <<threadVars, textVars, lineVars, kind, wifi, cfg, net, cloudVars, faults>>

\* The module restarts and forgets everything, without a word about MQTT.
ModuleReset ==
  /\ Fault
  /\ line' = "empty" /\ job' = "none" /\ missing' = 0 /\ begun' = FALSE
  /\ cfg' = 0 /\ mqtt' = FALSE
  /\ wifi' \in (IF net THEN BOOLEAN ELSE {FALSE})
  /\ Receive(<<"other">>)
  /\ UNCHANGED <<threadVars, textVars, kind, net, cloudVars>>

Environment == NetChange \/ Disconnect \/ Rejoin \/ AutoReconnect \/ ModuleReset

-----------------------------------------------------------------------------
Next == Thread \/ Upload \/ Module \/ Environment

\* The thread's delays and waits end, and the shell's, and the module finishes
\* what it started.
Fairness == WF_vars(Thread) /\ WF_vars(UploadPayload) /\ WF_vars(Module)

Spec == Init /\ [][Next]_vars /\ Fairness

-----------------------------------------------------------------------------
(* Properties. *)

\* As long as the module answers before the thread's timeouts and starts with
\* the board, and nobody uploads by hand, the broker only ever gets whole
\* reports: no AT command is swallowed into a payload and no report is sent to a
\* module that is not waiting for it, through disconnects and module resets.
OnlyWholeReports ==
  ~kind.late /\ ~kind.warm /\ uploads = 0 => published \in {"none", "report"}

\* The confirmation that ends a round is that of the round's report, if the module
\* answers in time, also one that the board finds in the middle of a session.  A
\* late module can deceive the thread in one place only: by a prompt or a
\* confirmation of the round before that arrives when uart4_buffer_clear() has
\* returned and uart4_send() has not begun.  (The confirmation of an upload command
\* can be taken for a report's, too.)
ReportedOkIsFresh ==
  [][ReportedOk /\ uploads = 0 /\ (kind.late => ~overtaken) => fresh]_vars

\* Once the network stays up and the module is not disturbed, the thread gets
\* through its set-up, from any state it finds the module in, and keeps
\* publishing reports, and uploads by hand, which may leave the module waiting
\* for more payload, a stray text in its command line, or the wrong text in
\* json_buf, at any time, do not stop it for good.  Two exceptions: the thread
\* never goes back to step 2, so past it the module must rejoin the access point
\* by itself; and on a strict module that still has an old configuration, when
\* AT+MQTTCLEAN is lost because the module is busy, step 4 is refused and
\* repeated for ever.
ReportsFlow ==
  ( /\ ~kind.late /\ ~(kind.strict /\ (kind.warm \/ kind.shared))
    /\ [](faults = 0)
    /\ <>[]net /\ []<>(cloud_task_step <= 2 \/ wifi) )
  => []<>(pc = "publish" /\ fresh)

\* "MQTT disconnected! Reconnecting..." (huaweiCloudApp.c): a lost connection
\* that the module does not restore itself sends the thread back to step 3.
DisconnectNoticed ==
  (cloud_task_step = 7 /\ ~mqtt) ~> (cloud_task_step = 3 \/ mqtt)
=============================================================================
