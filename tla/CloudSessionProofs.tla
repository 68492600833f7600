-------------------------- MODULE CloudSessionProofs --------------------------
(***************************************************************************)
(* The MQTT reporter: what reaches the broker, and what the thread takes   *)
(* for the confirmation of a report, for reports of every length and any   *)
(* number of faults.                                                       *)
(***************************************************************************)
EXTENDS CloudSession, TLAPS

-----------------------------------------------------------------------------
(* The invariant. *)

Got(texts) == {texts[k] : k \in DOMAIN texts}
Has(text) == text \in Got(rx)

\* Who has sent what, as long as nobody uploads by hand.  Between two commands the
\* module's line holds nothing the thread has typed on purpose; a command that was
\* typed is executed before anything else happens.
Typed ==
  /\ upload = "none" /\ job # "MQTTPUBRAW test"
  /\ missing > 0 => job = "none"
  /\ \/ line \in {"empty", "spoilt"}
     \/ pc = "typed" /\ line = Command[cloud_task_step] /\ job = "none" /\ missing = 0

\* Where the thread can be in which step.
Where ==
  /\ pc \in {"built", "prompt", "publish"} => cloud_task_step = 7
  /\ pc = "command" => cloud_task_step # 7

\* Which text the thread is about to send.
Ready ==
  pc \in {"built", "cleared", "typed", "prompt"} /\ cloud_task_step = 7 => json_buf = "report"

\* Unless the module has answered in between, the buffer that was cleared holds
\* neither a prompt nor a confirmation when a command is typed.
Clean ==
  pc = "cleared" \/ (pc = "typed" /\ line \notin {"empty", "spoilt"}) =>
    ~Has(">") /\ ~Has(Confirmation)

\* In step 7 a prompt is the answer to this announcement or, from a late module, to
\* the one before, and a confirmation that arrives before the report is sent keeps
\* the prompt away.
Prompts ==
  pc \in {"typed", "prompt"} /\ cloud_task_step = 7 =>
    /\ Has(">") => /\ ~Has(Confirmation) /\ job = "none"
                   /\ \/ missing = ReportLen /\ ~begun
                      \/ missing = 0 /\ (pc = "typed" => line = "empty")
    /\ Has(Confirmation) => job # "MQTTPUBRAW"

\* Once it is sent, a confirmation is that of the report.
Confirmed ==
  pc = "publish" =>
    /\ missing = 0 /\ job \in {"none", "report"}
    /\ Has(Confirmation) => fresh /\ job = "none"

FreshParts == Typed /\ Ready /\ (~overtaken => Clean /\ Prompts /\ Confirmed)
FreshInv == uploads = 0 => FreshParts

\* The module is in raw mode, or publishes what it got there.
Raw == missing > 0 \/ job \in Payloads

\* A module that answers in time has answered an announcement, and published a
\* payload, before the thread clears the buffer again.  One that the board finds in
\* raw mode swallows the commands without an answer, so the thread stays in steps
\* that it repeats, or leaves after a failure.
TimelyParts ==
  /\ ~overtaken
  /\ job \in Payloads => pc \in {"typed", "command", "prompt", "publish"}
  /\ job = "MQTTPUBRAW" => pc = "prompt"
  /\ missing > 0 => cloud_task_step \in {0, 3, 4, 7}
  /\ Raw /\ pc \in {"cleared", "typed", "command"} =>
       /\ cloud_task_step \in {0, 3, 4, 7}
       /\ ~Has("OK") /\ ~Has("ERROR") /\ ~Has(Confirmation)
TimelyInv == ~kind.late /\ uploads = 0 => TimelyParts

\* The texts that can come in between the clearing of the buffer and the prompt:
\* those of the command the module still executes, and three for each fault.
Due(at, cmd) ==
  IF at # "cleared" \/ cmd = "none" THEN 0 ELSE IF cmd = "joined" THEN 1 ELSE 3
Lost(up) == IF up THEN 0 ELSE 1
Counting ==
  \/ pc = "cleared"
  \/ pc = "typed" /\ line = "MQTTPUBRAW"
  \/ pc = "prompt" /\ job = "MQTTPUBRAW"
Room == Counting => Len(rx) + Due(pc, job) + Lost(wifi) + Lost(mqtt) <= 3 * faults + 5

\* A module that answers in time and starts with the board waits for payload only
\* while the thread is about to send it.
WholeParts ==
  /\ missing > 0 => pc = "prompt" /\ Has(">")
  /\ job \in Payloads => job = "report"
  /\ published \in {"none", "report"}
  /\ Room
WholeInv == ~kind.late /\ ~kind.warm /\ uploads = 0 => WholeParts

CloudInv == TypeOK /\ Where /\ FreshInv /\ TimelyInv /\ WholeInv

-----------------------------------------------------------------------------
(* Commands and texts. *)

\* The commands, one by one.
LEMMA CommandFacts ==
  /\ Command[0] = "AT" /\ Command[1] = "CWMODE" /\ Command[2] = "CWJAP"
  /\ Command[3] = "MQTTCLEAN" /\ Command[4] = "MQTTUSERCFG" /\ Command[5] = "MQTTCLIENTID"
  /\ Command[6] = "MQTTCONN" /\ Command[7] = "MQTTPUBRAW"
  /\ \A s \in 0 .. 7 : Command[s] \in Lines /\ Command[s] \notin {"empty", "spoilt", "MQTTPUBRAW test"}
  /\ \A s \in 0 .. 7 : Command[s] \notin Payloads
<1>1. /\ Command[0] = "AT" /\ Command[1] = "CWMODE" /\ Command[2] = "CWJAP"
      /\ Command[3] = "MQTTCLEAN" /\ Command[4] = "MQTTUSERCFG" /\ Command[5] = "MQTTCLIENTID"
      /\ Command[6] = "MQTTCONN" /\ Command[7] = "MQTTPUBRAW"
  BY DEF Command
<1>2. \A s \in 0 .. 7 : s = 0 \/ s = 1 \/ s = 2 \/ s = 3 \/ s = 4 \/ s = 5 \/ s = 6 \/ s = 7
  OBVIOUS
<1>3. \A s \in 0 .. 7 : Command[s] \notin {"empty", "spoilt", "MQTTPUBRAW test"}
  BY <1>1, <1>2
<1>4. \A s \in 0 .. 7 : Command[s] \notin Payloads
  BY <1>1, <1>2 DEF Payloads
<1>5. \A s \in 0 .. 7 : Command[s] \in Lines
  BY Zenon DEF Lines
<1> QED BY <1>1, <1>3, <1>4, <1>5

\* An empty buffer holds no text.
LEMMA EmptyFacts == Got(<<>>) = {}
BY DEF Got

\* Receiving a text: what was there stays, and the text is added if it fits.
LEMMA ReceiveOne ==
  ASSUME rx \in Seq(Texts), Len(rx) <= RxCap, NEW a \in Texts, Receive(<<a>>)
  PROVE  /\ rx' \in Seq(Texts) /\ Len(rx') <= RxCap /\ Len(rx') \in Nat /\ Len(rx') <= Len(rx) + 1
         /\ Got(rx) \subseteq Got(rx') /\ Got(rx') \subseteq Got(rx) \cup {a}
<1> DEFINE both == rx \o <<a>>
<1>1. /\ both \in Seq(Texts) /\ Len(both) = Len(rx) + 1
      /\ \A k \in 1 .. Len(rx) : both[k] = rx[k]
      /\ both[Len(rx) + 1] = a
  OBVIOUS
<1>2. RxCap \in Nat /\ Len(rx) \in Nat
  BY CloudAssumption
<1> DEFINE n == IF Len(both) < RxCap THEN Len(both) ELSE RxCap
<1>3. rx' = SubSeq(both, 1, n)
  BY DEF Receive
<1> HIDE DEF both
<1>4. n \in Nat /\ n <= Len(both) /\ n >= Len(rx) /\ n <= RxCap
  BY <1>1, <1>2
<1> HIDE DEF n
<1>5. rx' \in Seq(Texts) /\ Len(rx') = n /\ \A k \in 1 .. n : rx'[k] = both[k]
  BY <1>1, <1>3, <1>4
<1>6. Got(rx) \subseteq Got(rx')
  BY <1>1, <1>2, <1>4, <1>5 DEF Got
<1>7. Got(rx') \subseteq Got(rx) \cup {a}
  BY <1>1, <1>2, <1>4, <1>5 DEF Got
<1> QED BY <1>1, <1>2, <1>4, <1>5, <1>6, <1>7

\* Receiving two texts.
LEMMA ReceiveTwo ==
  ASSUME rx \in Seq(Texts), Len(rx) <= RxCap, NEW a \in Texts, NEW b \in Texts,
         Receive(<<a, b>>)
  PROVE  /\ rx' \in Seq(Texts) /\ Len(rx') <= RxCap /\ Len(rx') \in Nat /\ Len(rx') <= Len(rx) + 2
         /\ Got(rx) \subseteq Got(rx') /\ Got(rx') \subseteq Got(rx) \cup {a, b}
         /\ Len(rx) + 2 <= RxCap => b \in Got(rx')
<1> DEFINE both == rx \o <<a, b>>
<1>1. /\ both \in Seq(Texts) /\ Len(both) = Len(rx) + 2
      /\ \A k \in 1 .. Len(rx) : both[k] = rx[k]
      /\ both[Len(rx) + 1] = a /\ both[Len(rx) + 2] = b
  OBVIOUS
<1>2. RxCap \in Nat /\ Len(rx) \in Nat
  BY CloudAssumption
<1> DEFINE n == IF Len(both) < RxCap THEN Len(both) ELSE RxCap
<1>3. rx' = SubSeq(both, 1, n)
  BY DEF Receive
<1> HIDE DEF both
<1>4. /\ n \in Nat /\ n <= Len(both) /\ n >= Len(rx) /\ n <= RxCap
      /\ Len(rx) + 2 <= RxCap => n = Len(rx) + 2
  BY <1>1, <1>2
<1> HIDE DEF n
<1>5. rx' \in Seq(Texts) /\ Len(rx') = n /\ \A k \in 1 .. n : rx'[k] = both[k]
  BY <1>1, <1>3, <1>4
<1>6. Got(rx) \subseteq Got(rx')
  BY <1>1, <1>2, <1>4, <1>5 DEF Got
<1>7. ASSUME NEW t \in Got(rx')
      PROVE  t \in Got(rx) \cup {a, b}
  <2>1. PICK k \in 1 .. n : both[k] = t
    BY <1>5, <1>7 DEF Got
  <2>2. k \in 1 .. Len(rx) \/ k = Len(rx) + 1 \/ k = Len(rx) + 2
    BY <1>1, <1>2, <1>4
  <2> QED BY <1>1, <2>1, <2>2 DEF Got
<1>8. Len(rx) + 2 <= RxCap => b \in Got(rx')
  BY <1>1, <1>2, <1>4, <1>5 DEF Got
<1> QED BY <1>1, <1>2, <1>4, <1>5, <1>6, <1>7, <1>8

\* What the thread's strstr() finds.
LEMMA ContainsFacts ==
  /\ \A t : t # "OK" => (Contains(t) <=> Has(t))
  /\ Contains("OK") <=> Has("OK") \/ Has("+MQTTPUB:OK")
BY DEF Contains, Has, Got

-----------------------------------------------------------------------------
(* Type correctness. *)

\* The parts of the type invariant, by who changes them.
ThreadTyped ==
  /\ cloud_task_step \in 0 .. 7
  /\ pc \in {"sleep", "run", "built", "cleared", "typed", "command", "prompt", "publish"}
TextTyped ==
  json_buf \in JsonTexts /\ upload \in {"none", "announced"} /\ uploads \in 0 .. MaxUploads
RxTyped == rx \in Seq(Texts) /\ Len(rx) <= RxCap
LineTyped ==
  /\ line \in Lines \cup {"empty"} /\ job \in Jobs
  /\ missing \in 0 .. ReportLen /\ begun \in BOOLEAN
LinkTyped == kind \in Kinds /\ wifi \in BOOLEAN /\ cfg \in 0 .. 2 /\ mqtt \in BOOLEAN /\ net \in BOOLEAN
CloudTyped ==
  published \in Payloads \cup {"none"} /\ fresh \in BOOLEAN /\ overtaken \in BOOLEAN

\* They are all of it.
LEMMA TypeParts ==
  /\ TypeOK <=> /\ ThreadTyped /\ TextTyped /\ RxTyped /\ LineTyped /\ LinkTyped /\ CloudTyped
                /\ faults \in 0 .. MaxFaults
  /\ TypeOK' <=> /\ ThreadTyped' /\ TextTyped' /\ RxTyped' /\ LineTyped' /\ LinkTyped'
                 /\ CloudTyped' /\ (faults \in 0 .. MaxFaults)'
BY DEF TypeOK, ThreadTyped, TextTyped, RxTyped, LineTyped, LinkTyped, CloudTyped

\* Sending a text leaves the module's line well typed.
LEMMA SwallowTyped ==
  ASSUME LineTyped, NEW text, NEW len \in Nat, Swallow(text, len)
  PROVE  LineTyped'
<1>1. missing' \in 0 .. ReportLen
  BY CloudAssumption DEF Swallow, LineTyped
<1>2. begun' \in BOOLEAN
  BY DEF Swallow
<1>3. job' \in Jobs
  <2>1. "garbage" \in Jobs /\ (text \in Payloads => text \in Jobs)
    BY DEF Jobs, Payloads
  <2> QED BY <2>1 DEF Swallow, LineTyped
<1>4. line' \in Lines \cup {"empty"}
  <2>1. "spoilt" \in Lines
    BY DEF Lines
  <2> QED BY <2>1 DEF Swallow, LineTyped
<1> QED BY <1>1, <1>2, <1>3, <1>4 DEF LineTyped

\* So does text that the module takes for a command.
LEMMA TypeTyped ==
  ASSUME LineTyped, NEW text \in Lines, Type(text)
  PROVE  LineTyped'
<1>1. "spoilt" \in Lines
  BY DEF Lines
<1> QED BY <1>1 DEF Type, LineTyped, rawVars

\* So does the line end.
LEMMA ExecuteTyped ==
  ASSUME LineTyped, ExecuteLine
  PROVE  LineTyped'
<1>1. line \in Lines => line \in Jobs
  BY DEF Jobs
<1> QED BY <1>1 DEF ExecuteLine, LineTyped, lineVars, rawVars

\* So does json_buf, whatever it holds.
LEMMA SendJsonTyped ==
  ASSUME LineTyped, SendJson
  PROVE  LineTyped'
<1>1. JsonLen(json_buf) \in Nat
  BY CloudAssumption DEF JsonLen
<1>2. "spoilt" \in Lines
  BY DEF Lines
<1> QED BY <1>1, <1>2, SwallowTyped, TypeTyped DEF SendJson

\* The state is well typed at the start.
LEMMA InitTyped == Init => TypeOK
<1> SUFFICES ASSUME Init PROVE TypeOK
    OBVIOUS
<1>1. ThreadTyped /\ TextTyped
  BY CloudAssumption DEF Init, ThreadTyped, TextTyped, JsonTexts
<1>2. RxTyped
  BY CloudAssumption DEF Init, RxTyped
<1>3. missing \in 0 .. ReportLen /\ cfg \in 0 .. 2
  <2>1. 0 \in 0 .. ReportLen /\ 0 \in 0 .. 2
    BY CloudAssumption
  <2> QED BY <2>1 DEF Init
<1>4. wifi \in BOOLEAN /\ mqtt \in BOOLEAN /\ begun \in BOOLEAN /\ net \in BOOLEAN
  <2>1. CASE begun = FALSE /\ wifi = FALSE /\ mqtt = FALSE
    BY <2>1, Zenon DEF Init
  <2>2. CASE /\ wifi \in BOOLEAN
             /\ mqtt \in (IF wifi /\ cfg = 2 /\ net THEN BOOLEAN ELSE {FALSE})
             /\ begun = (missing \in 1 .. ReportLen - 1)
    <3>1. mqtt \in BOOLEAN
      BY <2>2, Zenon
    <3>2. begun \in BOOLEAN
      <4>1. CASE missing \in 1 .. ReportLen - 1
        BY <2>2, <4>1
      <4>2. CASE missing \notin 1 .. ReportLen - 1
        BY <2>2, <4>2
      <4> QED BY <4>1, <4>2
    <3> QED BY <2>2, <3>1, <3>2, Zenon DEF Init
  <2> QED BY <2>1, <2>2, Zenon DEF Init
<1>5. LineTyped
  <2>1. line \in Lines \cup {"empty"} /\ job \in Jobs
    BY DEF Init, Jobs
  <2> QED BY <1>3, <1>4, <2>1 DEF LineTyped
<1>6. LinkTyped
  BY <1>3, <1>4 DEF Init, LinkTyped
<1>7. CloudTyped
  BY DEF Init, CloudTyped
<1>8. faults \in 0 .. MaxFaults
  BY CloudAssumption DEF Init
<1> QED BY <1>1, <1>2, <1>5, <1>6, <1>7, <1>8, TypeParts

\* The thread's steps keep the types.
LEMMA ThreadKeepsTypes ==
  ASSUME TypeOK, Where, Thread
  PROVE  TypeOK' /\ Where'
<1> USE TypeParts
<1>1. LinkTyped' /\ (faults \in 0 .. MaxFaults)'
  BY DEF Thread, Wake, Build, ClearText, StepCommand, LineEnd, StepSucceeds, StepFails, Prompted, ReportedOk,
         ReportTimeout, LinkTyped, linkVars
<1>2. CASE Wake
  BY <1>1, <1>2 DEF Wake, ThreadTyped, TextTyped, RxTyped, LineTyped, CloudTyped, textVars, lineVars,
     rawVars, cloudVars, Where
<1>3. CASE Build
  <2>1. json_buf' \in JsonTexts /\ fresh' \in BOOLEAN
    BY <1>3, Zenon DEF Build, JsonTexts
  <2> QED BY <1>1, <1>3, <2>1 DEF Build, ThreadTyped, TextTyped, RxTyped, LineTyped, CloudTyped, lineVars,
     rawVars, Where
<1>11. CASE ClearText
  <2>1. overtaken' \in BOOLEAN
    BY <1>11, Zenon DEF ClearText
  <2>2. RxTyped'
    BY <1>11, CloudAssumption DEF ClearText, RxTyped
  <2>3. ThreadTyped' /\ TextTyped' /\ LineTyped' /\ CloudTyped' /\ Where'
    BY <1>11, <2>1 DEF ClearText, ThreadTyped, TextTyped, LineTyped, CloudTyped, textVars, lineVars,
       rawVars, Where
  <2> QED BY <1>1, <2>2, <2>3
<1>4. CASE StepCommand
  <2>1. ThreadTyped' /\ TextTyped' /\ CloudTyped'
    BY <1>4 DEF StepCommand, ThreadTyped, TextTyped, CloudTyped, textVars, cloudVars
  <2>2. RxTyped'
    BY <1>4 DEF StepCommand, RxTyped
  <2>3. LineTyped'
    <3>1. Command[cloud_task_step] \in Lines /\ 1 \in Nat
      BY CommandFacts DEF ThreadTyped
    <3> QED BY <1>4, <3>1, SwallowTyped, TypeTyped DEF StepCommand, SendCommand
  <2>4. Where'
    BY <1>4 DEF StepCommand, Where
  <2> QED BY <1>1, <2>1, <2>2, <2>3, <2>4
<1>5. CASE LineEnd
  <2>1. LineTyped'
    BY <1>5, ExecuteTyped DEF LineEnd
  <2> QED BY <1>1, <1>5, <2>1 DEF LineEnd, ThreadTyped, TextTyped, RxTyped, CloudTyped, textVars,
     cloudVars, Where
<1>6. CASE StepSucceeds
  <2>1. cloud_task_step \in 0 .. 6
    BY <1>6 DEF StepSucceeds, ThreadTyped, Where
  <2>2. cloud_task_step' \in 0 .. 7 /\ pc' \in {"sleep", "run"}
    BY <1>6, <2>1 DEF StepSucceeds
  <2> QED BY <1>1, <1>6, <2>2 DEF StepSucceeds, ThreadTyped, TextTyped, RxTyped, LineTyped,
     CloudTyped, textVars, lineVars, rawVars, cloudVars, Where
<1>7. CASE StepFails
  <2>1. cloud_task_step \in 0 .. 6
    BY <1>7 DEF StepFails, ThreadTyped, Where
  <2>2. cloud_task_step' \in 0 .. 7 /\ pc' = "sleep"
    BY <1>7, <2>1 DEF StepFails, OnFailure
  <2> QED BY <1>1, <1>7, <2>2 DEF StepFails, ThreadTyped, TextTyped, RxTyped, LineTyped,
     CloudTyped, textVars, lineVars, rawVars, cloudVars, Where
<1>8. CASE Prompted
  <2>1. LineTyped'
    BY <1>8, SendJsonTyped DEF Prompted
  <2> QED BY <1>1, <1>8, <2>1 DEF Prompted, ThreadTyped, TextTyped, RxTyped, CloudTyped, textVars,
     cloudVars, Where
<1>9. CASE ReportedOk
  BY <1>1, <1>9 DEF ReportedOk, ThreadTyped, TextTyped, RxTyped, LineTyped, CloudTyped, textVars, lineVars,
     rawVars, cloudVars, Where
<1>10. CASE ReportTimeout
  BY <1>1, <1>10 DEF ReportTimeout, ThreadTyped, TextTyped, RxTyped, LineTyped, CloudTyped, textVars, lineVars,
     rawVars, cloudVars, Where
<1> QED BY <1>2, <1>3, <1>4, <1>5, <1>6, <1>7, <1>8, <1>9, <1>10, <1>11 DEF Thread

\* So do the shell's.
LEMMA UploadKeepsTypes ==
  ASSUME TypeOK, Where, Upload
  PROVE  TypeOK' /\ Where'
<1> USE TypeParts
<1>1. ThreadTyped' /\ RxTyped' /\ LinkTyped' /\ CloudTyped' /\ (faults \in 0 .. MaxFaults)' /\ Where'
  BY DEF Upload, UploadBegin, UploadPayload, ThreadTyped, RxTyped, LinkTyped, CloudTyped,
         threadVars, linkVars, cloudVars, Where
<1>2. TextTyped'
  <2>1. CASE UploadBegin
    <3>1. uploads' \in 0 .. MaxUploads
      <4>1. uploads' = uploads + 1 /\ uploads < MaxUploads
        BY <2>1 DEF UploadBegin
      <4>2. uploads \in 0 .. MaxUploads /\ MaxUploads \in Nat
        BY CloudAssumption DEF TextTyped
      <4> QED BY <4>1, <4>2
    <3> QED BY <2>1, <3>1 DEF UploadBegin, TextTyped, JsonTexts
  <2>2. CASE UploadPayload
    BY <2>2 DEF UploadPayload, TextTyped
  <2> QED BY <2>1, <2>2 DEF Upload
<1>3. LineTyped'
  <2>1. CASE UploadPayload
    BY <2>1, SendJsonTyped DEF UploadPayload
  <2>2. CASE Swallow("MQTTPUBRAW test", 1)
    BY <2>2, SwallowTyped
  <2>3. CASE /\ missing = 0
             /\ job' = IF job # "none" THEN job
                       ELSE IF line = "empty" THEN "MQTTPUBRAW test" ELSE "spoilt"
             /\ line' = IF job # "none" THEN line ELSE "empty"
             /\ UNCHANGED rawVars
    <3>1. "MQTTPUBRAW test" \in Jobs /\ "spoilt" \in Jobs
      BY DEF Jobs, Lines
    <3> QED BY <2>3, <3>1 DEF LineTyped, rawVars
  <2> QED BY <2>1, <2>2, <2>3 DEF Upload, UploadBegin
<1> QED BY <1>1, <1>2, <1>3

\* An answer ends the module's job and adds one or two texts.
LEMMA AnswerTyped ==
  ASSUME RxTyped, LineTyped, NEW a \in Texts, NEW b \in Texts, Answer(<<a>>) \/ Answer(<<a, b>>)
  PROVE  RxTyped' /\ job' \in Jobs
<1>1. job' \in Jobs
  BY DEF Answer, Jobs
<1>2. Receive(<<a>>) \/ Receive(<<a, b>>)
  BY DEF Answer
<1> QED BY <1>1, <1>2, ReceiveOne, ReceiveTwo DEF RxTyped

\* The module's steps.
LEMMA ModuleKeepsTypes ==
  ASSUME TypeOK, Where, Module
  PROVE  TypeOK' /\ Where'
<1> USE TypeParts
<1>1. ThreadTyped' /\ TextTyped' /\ (faults \in 0 .. MaxFaults)' /\ line' = line /\ Where'
  BY DEF Module, DoPlain, DoJoin, DoSetup, DoAnnounce, DoPublish, ThreadTyped, TextTyped,
         threadVars, textVars, Where
<1>2. {"OK", "ERROR", "WIFI GOT IP", "MQTTCONNECTED", ">", "+MQTTPUB:OK", "other"} \subseteq Texts
  BY DEF Texts
<1>3. CASE DoPlain
  <2>1. RxTyped' /\ job' \in Jobs
    BY <1>2, <1>3, AnswerTyped DEF DoPlain
  <2> QED BY <1>1, <1>3, <2>1 DEF DoPlain, LineTyped, LinkTyped, CloudTyped, rawVars, linkVars,
     cloudVars
<1>4. CASE DoJoin
  <2>1. RxTyped' /\ job' \in Jobs
    <3>1. CASE job' = "joined" /\ Receive(<<"WIFI GOT IP">>)
      BY <1>2, <3>1, ReceiveOne DEF RxTyped, Jobs
    <3>2. CASE Answer(<<"ERROR">>)
      BY <1>2, <3>2, AnswerTyped
    <3> QED BY <1>4, <3>1, <3>2 DEF DoJoin
  <2>2. wifi' \in BOOLEAN /\ mqtt' \in BOOLEAN
    BY <1>4, Zenon DEF DoJoin
  <2> QED BY <1>1, <1>4, <2>1, <2>2 DEF DoJoin, LineTyped, LinkTyped, CloudTyped, rawVars, cloudVars
<1>5. CASE DoSetup
  <2>1. RxTyped' /\ job' \in Jobs
    <3>1. Answer(<<"OK">>) \/ Answer(<<"ERROR">>) \/ Answer(<<"MQTTCONNECTED", "OK">>)
      BY <1>5 DEF DoSetup
    <3> QED BY <1>2, <3>1, AnswerTyped
  <2>2. cfg' \in 0 .. 2 /\ mqtt' \in BOOLEAN
    <3>1. cfg \in 0 .. 2 /\ mqtt \in BOOLEAN
      BY DEF LinkTyped
    <3>2. cfg' \in {0, 1, 2, cfg}
      BY <1>5 DEF DoSetup
    <3>3. mqtt' = mqtt \/ mqtt' = TRUE \/ mqtt' = FALSE
      BY <1>5, Zenon DEF DoSetup
    <3>4. cfg' \in 0 .. 2
      BY <3>1, <3>2
    <3>5. mqtt' \in BOOLEAN
      BY <3>1, <3>3, Zenon
    <3> QED BY <3>4, <3>5
  <2> QED BY <1>1, <1>5, <2>1, <2>2 DEF DoSetup, LineTyped, LinkTyped, CloudTyped, rawVars, cloudVars
<1>6. CASE DoAnnounce
  <2>1. RxTyped' /\ job' \in Jobs
    BY <1>2, <1>6, AnswerTyped DEF DoAnnounce
  <2>2. missing' \in {missing, ReportLen, TestLen} /\ (begun' = begun \/ begun' = FALSE)
    BY <1>6 DEF DoAnnounce, rawVars
  <2>3. missing' \in 0 .. ReportLen
    <3>1. /\ ReportLen \in Nat /\ TestLen \in Nat /\ TestLen < ReportLen
          /\ missing \in 0 .. ReportLen
      BY CloudAssumption DEF LineTyped
    <3> QED BY <2>2, <3>1
  <2>4. begun' \in BOOLEAN
    BY <2>2, Zenon DEF LineTyped
  <2>5. CloudTyped'
    <3>1. overtaken' \in BOOLEAN
      BY <1>6 DEF DoAnnounce, CloudTyped
    <3> QED BY <1>6, <3>1 DEF DoAnnounce, CloudTyped
  <2> QED BY <1>1, <1>6, <2>1, <2>3, <2>4, <2>5 DEF DoAnnounce, LineTyped, LinkTyped, linkVars
<1>7. CASE DoPublish
  <2>1. RxTyped' /\ job' \in Jobs
    BY <1>2, <1>7, AnswerTyped DEF DoPublish
  <2>2. CloudTyped'
    <3>1. published' \in Payloads \cup {"none"}
      BY <1>7 DEF DoPublish, CloudTyped, cloudVars
    <3>2. fresh' \in BOOLEAN
      BY <1>7 DEF DoPublish, CloudTyped, cloudVars
    <3>3. overtaken' \in BOOLEAN
      BY <1>7 DEF DoPublish, CloudTyped, cloudVars
    <3> QED BY <3>1, <3>2, <3>3 DEF CloudTyped
  <2> QED BY <1>1, <1>7, <2>1, <2>2 DEF DoPublish, LineTyped, LinkTyped, rawVars, linkVars
<1> QED BY <1>3, <1>4, <1>5, <1>6, <1>7 DEF Module

\* And the surroundings'.
LEMMA EnvironmentKeepsTypes ==
  ASSUME TypeOK, Where, Environment
  PROVE  TypeOK' /\ Where'
<1> USE TypeParts
<1>1. ThreadTyped' /\ TextTyped' /\ CloudTyped' /\ Where'
  BY DEF Environment, NetChange, Disconnect, Rejoin, AutoReconnect, ModuleReset, ThreadTyped,
         TextTyped, CloudTyped, threadVars, textVars, cloudVars, Where
<1>2. {"WIFI GOT IP", "MQTTCONNECTED", "MQTTDISCONNECTED", "other"} \subseteq Texts
  BY DEF Texts
<1>3. RxTyped'
  BY <1>2, ReceiveOne DEF RxTyped, Environment, NetChange, Disconnect, Rejoin, AutoReconnect,
     ModuleReset
<1>4. (faults \in 0 .. MaxFaults)'
  <2>1. faults' = faults \/ (faults < MaxFaults /\ faults' = faults + 1)
    BY DEF Environment, NetChange, Disconnect, Rejoin, AutoReconnect, ModuleReset, Fault
  <2>2. faults \in 0 .. MaxFaults /\ MaxFaults \in Nat
    BY CloudAssumption
  <2> QED BY <2>1, <2>2
<1>5. CASE NetChange \/ Rejoin \/ AutoReconnect
  <2>1. wifi' \in BOOLEAN /\ mqtt' \in BOOLEAN /\ net' \in BOOLEAN
    BY <1>5, Zenon DEF NetChange, Rejoin, AutoReconnect, LinkTyped
  <2> QED BY <1>1, <1>3, <1>4, <1>5, <2>1 DEF NetChange, Rejoin, AutoReconnect, LineTyped, LinkTyped,
     lineVars, rawVars
<1>6. CASE Disconnect
  <2>1. mqtt' \in BOOLEAN
    BY <1>6, Zenon DEF Disconnect
  <2> QED BY <1>1, <1>3, <1>4, <1>6, <2>1 DEF Disconnect, LineTyped, LinkTyped, lineVars, rawVars
<1>7. CASE ModuleReset
  <2>1. wifi' \in BOOLEAN /\ mqtt' \in BOOLEAN /\ begun' \in BOOLEAN
    BY <1>7, Zenon DEF ModuleReset
  <2>2. line' \in Lines \cup {"empty"} /\ job' \in Jobs /\ missing' \in 0 .. ReportLen /\ cfg' \in 0 .. 2
    BY <1>7, CloudAssumption DEF ModuleReset, Jobs
  <2> QED BY <1>1, <1>3, <1>4, <1>7, <2>1, <2>2 DEF ModuleReset, LineTyped, LinkTyped
<1> QED BY <1>5, <1>6, <1>7 DEF Environment

\* Every step keeps the types.
LEMMA NextTyped == TypeOK /\ Where /\ [Next]_vars => TypeOK' /\ Where'
<1> SUFFICES ASSUME TypeOK, Where, [Next]_vars PROVE TypeOK' /\ Where'
    OBVIOUS
<1>1. CASE Next
  BY <1>1, ThreadKeepsTypes, UploadKeepsTypes, ModuleKeepsTypes, EnvironmentKeepsTypes DEF Next
<1>2. CASE UNCHANGED vars
  BY <1>2 DEF TypeOK, Where, vars
<1> QED BY <1>1, <1>2

-----------------------------------------------------------------------------
(* Whose confirmation it is. *)

\* Nothing has been sent at the start.
LEMMA InitFresh == Init => Where /\ FreshInv
<1> SUFFICES ASSUME Init PROVE Where /\ FreshInv
    OBVIOUS
<1>1. pc = "sleep" /\ upload = "none" /\ job = "none" /\ line = "empty"
  BY DEF Init
<1>2. ~(missing > 0) \/ job = "none"
  BY <1>1
<1> QED BY <1>1, <1>2 DEF Where, FreshInv, FreshParts, Typed, Ready, Clean, Prompts, Confirmed

\* The payload the module waits for is a number.
LEMMA MissingNat == TypeOK => missing \in Nat
BY CloudAssumption DEF TypeOK

\* The thread wakes up or builds a report.
LEMMA BeginFresh ==
  ASSUME TypeOK, Where, FreshParts, Wake \/ Build
  PROVE  FreshParts'
<1>1. /\ UNCHANGED <<upload, rx, line, job, missing, begun>>
      /\ pc' \in {"run", "built"} /\ (pc' = "built" => json_buf' = "report")
      /\ pc \notin {"cleared", "typed", "publish"}
  BY DEF Wake, Build, textVars, lineVars, rawVars
<1> QED BY <1>1 DEF FreshParts, Typed, Ready, Clean, Prompts, Confirmed, Has

\* It clears the buffer.
LEMMA ClearFresh ==
  ASSUME TypeOK, Where, FreshParts, ClearText
  PROVE  FreshParts'
<1>1. /\ UNCHANGED <<cloud_task_step, json_buf, upload, line, job, missing, begun>>
      /\ rx' = <<>> /\ pc' = "cleared" /\ pc # "typed" /\ (cloud_task_step = 7 => pc = "built")
  BY DEF ClearText, textVars, lineVars, rawVars
<1>2. Got(rx') = {}
  BY <1>1, EmptyFacts
<1>3. Typed' /\ Ready'
  BY <1>1 DEF FreshParts, Typed, Ready
<1>4. Clean' /\ Prompts' /\ Confirmed'
  BY <1>1, <1>2 DEF Clean, Prompts, Confirmed, Has
<1> QED BY <1>3, <1>4 DEF FreshParts

\* It types a command.
LEMMA CommandFresh ==
  ASSUME TypeOK, Where, FreshParts, StepCommand
  PROVE  FreshParts'
<1>1. /\ rx' = rx /\ pc' = "typed" /\ pc = "cleared"
      /\ UNCHANGED <<cloud_task_step, upload, json_buf, overtaken>>
      /\ Swallow(Command[cloud_task_step], 1) \/ Type(Command[cloud_task_step])
  BY DEF StepCommand, SendCommand, textVars, cloudVars
<1>2. ~overtaken => ~Has(">")' /\ ~Has(Confirmation)'
  BY <1>1 DEF FreshParts, Clean, Has, Confirmation
<1>3. /\ cloud_task_step \in 0 .. 7 /\ missing \in Nat /\ line \in {"empty", "spoilt"}
      /\ missing > 0 => job = "none"
      /\ upload = "none" /\ job # "MQTTPUBRAW test"
  <2>1. cloud_task_step \in 0 .. 7 /\ missing \in Nat
    BY MissingNat DEF TypeOK
  <2> QED BY <1>1, <2>1 DEF FreshParts, Typed
<1>4. Ready' /\ (~overtaken' => Clean' /\ Prompts' /\ Confirmed')
  BY <1>1, <1>2 DEF FreshParts, Ready, Clean, Prompts, Confirmed
<1>5. CASE Swallow(Command[cloud_task_step], 1)
  <2>1. Command[cloud_task_step] \notin Payloads
    BY <1>3, CommandFacts
  <2>2. /\ job' = (IF 1 < missing THEN job ELSE "garbage")
        /\ missing' = (IF 1 < missing THEN missing - 1 ELSE 0)
        /\ line' = (IF 1 > missing THEN "spoilt" ELSE line) /\ missing > 0
    BY <1>5, <2>1 DEF Swallow
  <2>3. Typed'
    BY <1>1, <1>3, <2>2 DEF Typed
  <2> QED BY <1>4, <2>3 DEF FreshParts
<1>6. CASE Type(Command[cloud_task_step])
  <2>1. Typed'
    BY <1>1, <1>3, <1>6 DEF Type, Typed, rawVars
  <2> QED BY <1>4, <2>1 DEF FreshParts
<1> QED BY <1>1, <1>5, <1>6

\* The line end executes it, unless the module was busy or waits for payload.
LEMMA LineEndFresh ==
  ASSUME TypeOK, Where, FreshParts, LineEnd
  PROVE  FreshParts'
<1>1. /\ pc = "typed" /\ pc' \in {"prompt", "command"} /\ (pc' = "prompt" <=> cloud_task_step = 7)
      /\ UNCHANGED <<cloud_task_step, upload, json_buf, rx, overtaken>> /\ ExecuteLine
  BY DEF LineEnd, textVars, cloudVars
<1>2. /\ cloud_task_step \in 0 .. 7
      /\ Command[cloud_task_step] \notin {"empty", "spoilt", "MQTTPUBRAW test"}
      /\ missing \in Nat
  <2>1. cloud_task_step \in 0 .. 7 /\ missing \in Nat
    BY MissingNat DEF TypeOK
  <2> QED BY <2>1, CommandFacts
<1>3. CASE missing = 0 /\ job = "none" /\ line # "empty"
  <2>1. job' = line /\ line' = "empty" /\ missing' = missing /\ begun' = begun
    BY <1>1, <1>3 DEF ExecuteLine, rawVars
  <2>2. ~overtaken => ~Has(">") \/ cloud_task_step # 7
    BY <1>1, <1>3, CloudAssumption DEF FreshParts, Prompts
  <2>3. Typed'
    <3>1. ~(missing' > 0) /\ line' = "empty"
      BY <1>3, <2>1
    <3>2. job' # "MQTTPUBRAW test" /\ upload' = "none"
      BY <1>1, <1>2, <2>1 DEF FreshParts, Typed
    <3> QED BY <3>1, <3>2 DEF Typed
  <2>4. ~overtaken => Prompts'
    <3> SUFFICES ASSUME ~overtaken, cloud_task_step = 7
                 PROVE  ~Has(">")' /\ (Has(Confirmation)' => job' # "MQTTPUBRAW")
      BY <1>1 DEF Prompts
    <3>1. ~Has(">")'
      BY <1>1, <2>2 DEF Has
    <3>2. Has(Confirmation)' => Has(Confirmation)
      BY <1>1 DEF Has, Confirmation
    <3>3. Has(Confirmation) => line \in {"empty", "spoilt"}
      BY <1>1 DEF FreshParts, Clean
    <3> QED BY <2>1, <3>1, <3>2, <3>3
  <2> QED BY <1>1, <2>3, <2>4 DEF FreshParts, Ready, Clean, Confirmed
<1>4. CASE ~(missing = 0 /\ job = "none" /\ line # "empty")
  <2>1. UNCHANGED <<line, job, missing, begun>>
    BY <1>1, <1>4 DEF ExecuteLine, lineVars, rawVars
  <2>2. Typed'
    BY <1>1, <1>2, <1>4, <2>1 DEF FreshParts, Typed
  <2>3. ~overtaken => Prompts'
    BY <1>1, <2>1 DEF FreshParts, Prompts, Has
  <2> QED BY <1>1, <2>2, <2>3 DEF FreshParts, Ready, Clean, Confirmed
<1> QED BY <1>3, <1>4

\* A wait ends, with or without success.
LEMMA StepEndFresh ==
  ASSUME TypeOK, Where, FreshParts,
         StepSucceeds \/ StepFails \/ ReportedOk \/ ReportTimeout
  PROVE  FreshParts'
<1>1. /\ UNCHANGED <<upload, json_buf, rx, line, job, missing, begun>>
      /\ pc' \in {"run", "sleep"} /\ pc # "typed"
  BY DEF StepSucceeds, StepFails, ReportedOk, ReportTimeout, textVars, lineVars, rawVars
<1> QED BY <1>1 DEF FreshParts, Typed, Ready, Clean, Prompts, Confirmed, Has

\* The report is sent: with a prompt in the buffer the module waits for exactly
\* this report, or has been reset since, unless the prompt is an older one.
LEMMA PromptedFresh ==
  ASSUME TypeOK, Where, FreshParts, Prompted
  PROVE  FreshParts'
<1>1. /\ pc = "prompt" /\ pc' = "publish" /\ Contains(">") /\ SendJson
      /\ UNCHANGED <<cloud_task_step, upload, json_buf, rx, overtaken>>
  BY DEF Prompted, textVars, cloudVars
<1>2. cloud_task_step = 7 /\ Has(">")
  BY <1>1, ContainsFacts DEF Where
<1>3. /\ json_buf = "report" /\ upload = "none" /\ job # "MQTTPUBRAW test"
      /\ line \in {"empty", "spoilt"} /\ (missing > 0 => job = "none") /\ missing \in Nat
  BY <1>1, <1>2, MissingNat DEF FreshParts, Ready, Typed
<1>4. JsonLen(json_buf) = ReportLen /\ ReportLen \in Nat /\ ReportLen > 0 /\ "report" \in Payloads
  <2>1. JsonLen(json_buf) = ReportLen
    BY <1>3 DEF JsonLen
  <2>2. ReportLen \in Nat /\ ReportLen > 0
    BY CloudAssumption
  <2>3. "report" \in Payloads
    BY DEF Payloads
  <2> QED BY <2>1, <2>2, <2>3
<1>5. Typed'
  <2>1. CASE Swallow(json_buf, ReportLen)
    <3>1. /\ job' \in {"none", "report", "garbage"} /\ line' \in {"empty", "spoilt"}
          /\ missing' > 0 => job' = "none"
      BY <1>3, <1>4, <2>1 DEF Swallow
    <3> QED BY <1>1, <1>3, <3>1 DEF Typed
  <2>2. CASE Type("spoilt")
    BY <1>1, <1>3, <2>2 DEF Type, Typed, rawVars
  <2> QED BY <1>1, <1>4, <2>1, <2>2 DEF SendJson
<1>6. ASSUME ~overtaken PROVE Confirmed'
  <2>1. ~Has(Confirmation) /\ job = "none" /\ ((missing = ReportLen /\ ~begun) \/ missing = 0)
    BY <1>1, <1>2, <1>6 DEF FreshParts, Prompts
  <2>2. missing' = 0 /\ job' \in {"none", "report"}
    <3>1. CASE Swallow(json_buf, ReportLen)
      BY <1>3, <1>4, <2>1, <3>1 DEF Swallow
    <3>2. CASE Type("spoilt")
      BY <1>3, <2>1, <3>2 DEF Type, rawVars
    <3> QED BY <1>1, <1>4, <3>1, <3>2 DEF SendJson
  <2>3. ~Has(Confirmation)'
    BY <1>1, <2>1 DEF Has, Confirmation
  <2> QED BY <2>2, <2>3 DEF Confirmed
<1>7. Ready' /\ Clean' /\ Prompts'
  BY <1>1 DEF Ready, Clean, Prompts
<1> QED BY <1>1, <1>5, <1>6, <1>7 DEF FreshParts

\* The module answers a command other than an announcement.
LEMMA AnswerFresh ==
  ASSUME TypeOK, Where, FreshParts, DoPlain \/ DoJoin \/ DoSetup
  PROVE  FreshParts'
<1>1. UNCHANGED <<cloud_task_step, pc, json_buf, upload, line, missing, begun, fresh, overtaken>>
  BY DEF DoPlain, DoJoin, DoSetup, threadVars, textVars, rawVars, cloudVars
<1>2. /\ job \notin Payloads /\ job \notin {"none", "MQTTPUBRAW"} /\ job' \in {"none", "joined"}
  BY DEF DoPlain, DoJoin, DoSetup, Answer, Payloads
<1>3. Got(rx') \subseteq Got(rx) \cup {"OK", "ERROR", "WIFI GOT IP", "MQTTCONNECTED"}
  <2>1. {"OK", "ERROR", "WIFI GOT IP", "MQTTCONNECTED"} \subseteq Texts
    BY DEF Texts
  <2>2. \/ Receive(<<"OK">>) \/ Receive(<<"ERROR">>) \/ Receive(<<"WIFI GOT IP">>)
        \/ Receive(<<"MQTTCONNECTED", "OK">>)
    BY DEF DoPlain, DoJoin, DoSetup, Answer
  <2>3. rx \in Seq(Texts) /\ Len(rx) <= RxCap
    BY DEF TypeOK
  <2> QED BY <2>1, <2>2, <2>3, ReceiveOne, ReceiveTwo
<1>4. (Has(">")' => Has(">")) /\ (Has(Confirmation)' => Has(Confirmation))
  BY <1>3 DEF Has, Confirmation
<1>5. missing \in Nat
  BY CloudAssumption DEF TypeOK
<1>6. Typed'
  BY <1>1, <1>2, <1>5 DEF FreshParts, Typed
<1>7. Ready'
  BY <1>1 DEF FreshParts, Ready
<1>8. ~overtaken => Clean' /\ Prompts' /\ Confirmed'
  BY <1>1, <1>2, <1>4, Zenon DEF FreshParts, Clean, Prompts, Confirmed, Payloads
<1> QED BY <1>1, <1>6, <1>7, <1>8 DEF FreshParts

\* The module prompts for the report, or refuses.
LEMMA AnnounceFresh ==
  ASSUME TypeOK, Where, FreshParts, DoAnnounce
  PROVE  FreshParts'
<1>1. UNCHANGED <<cloud_task_step, pc, json_buf, upload, line, fresh>> /\ (overtaken => overtaken')
  <2>1. UNCHANGED <<cloud_task_step, pc, json_buf, upload, line, fresh>>
    BY DEF DoAnnounce, threadVars, textVars
  <2>2. overtaken => overtaken'
    BY Zenon DEF DoAnnounce
  <2> QED BY <2>1, <2>2
<1>2. job = "MQTTPUBRAW" /\ job' = "none" /\ missing \in Nat /\ ~(missing > 0)
  <2>1. job \in {"MQTTPUBRAW", "MQTTPUBRAW test"} /\ job' = "none"
    BY DEF DoAnnounce, Answer
  <2> QED BY <2>1, MissingNat DEF FreshParts, Typed
<1>3. rx \in Seq(Texts) /\ Len(rx) <= RxCap /\ "OK" \in Texts /\ ">" \in Texts /\ "ERROR" \in Texts
  BY DEF TypeOK, Texts
<1>4. Typed' /\ Ready'
  BY <1>1, <1>2 DEF FreshParts, Typed, Ready
<1> SUFFICES ASSUME ~overtaken' PROVE Clean' /\ Prompts' /\ Confirmed'
  BY <1>4 DEF FreshParts
<1>5. Clean /\ Prompts /\ Confirmed /\ pc # "publish" /\ line \in {"empty", "spoilt"}
  BY <1>1, <1>2 DEF FreshParts, Confirmed, Typed
<1>6. CASE /\ mqtt /\ Answer(<<"OK", ">">>) /\ begun' = FALSE
           /\ missing' = IF job = "MQTTPUBRAW" THEN ReportLen ELSE TestLen
           /\ overtaken' = (overtaken \/ pc = "cleared")
  <2>1. Got(rx') \subseteq Got(rx) \cup {"OK", ">"}
    BY <1>3, <1>6, ReceiveTwo DEF Answer
  <2>2. Has(Confirmation)' => Has(Confirmation)
    BY <2>1 DEF Has, Confirmation
  <2>3. missing' = ReportLen /\ pc # "cleared"
    BY <1>2, <1>6
  <2>4. Prompts'
    BY <1>1, <1>2, <1>5, <1>6, <2>2, <2>3 DEF Prompts
  <2> QED BY <1>1, <1>5, <2>3, <2>4 DEF Clean, Confirmed
<1>7. CASE UNCHANGED rawVars /\ Answer(<<"ERROR">>)
  <2>1. Got(rx') \subseteq Got(rx) \cup {"ERROR"}
    BY <1>3, <1>7, ReceiveOne DEF Answer
  <2>2. (Has(">")' => Has(">")) /\ (Has(Confirmation)' => Has(Confirmation))
    BY <2>1 DEF Has, Confirmation
  <2>3. Prompts' /\ Clean'
    BY <1>1, <1>2, <1>5, <1>7, <2>2 DEF Prompts, Clean, rawVars
  <2> QED BY <1>1, <1>5, <2>3 DEF Confirmed
<1> QED BY <1>6, <1>7 DEF DoAnnounce

\* The payload is published: what the thread waits for is the report.
LEMMA PublishFresh ==
  ASSUME TypeOK, Where, FreshParts, DoPublish
  PROVE  FreshParts'
<1>1. /\ UNCHANGED <<cloud_task_step, pc, json_buf, upload, line, missing, begun>>
      /\ overtaken => overtaken'
  <2>1. UNCHANGED <<cloud_task_step, pc, json_buf, upload, line, missing, begun>>
    BY DEF DoPublish, threadVars, textVars, rawVars
  <2>2. overtaken' = overtaken \/ overtaken' = (overtaken \/ pc = "cleared")
    BY DEF DoPublish, cloudVars
  <2>3. overtaken => overtaken'
    BY <2>2, Zenon
  <2> QED BY <2>1, <2>3
<1>2. job \in Payloads /\ job' = "none" /\ job \notin {"none", "MQTTPUBRAW"}
  BY DEF DoPublish, Answer, Payloads
<1>3. /\ rx \in Seq(Texts) /\ Len(rx) <= RxCap /\ "other" \in Texts /\ "+MQTTPUB:OK" \in Texts
      /\ missing \in Nat
  BY MissingNat DEF TypeOK, Texts
<1>4. Got(rx') \subseteq Got(rx) \cup {"+MQTTPUB:OK", "other"}
  BY <1>3, ReceiveOne DEF DoPublish, Answer
<1>5. Has(">")' => Has(">")
  BY <1>4 DEF Has
<1>6. Typed' /\ Ready'
  BY <1>1, <1>2 DEF FreshParts, Typed, Ready
<1> SUFFICES ASSUME ~overtaken' PROVE Clean' /\ Prompts' /\ Confirmed'
  BY <1>6 DEF FreshParts
<1>7. Clean /\ Prompts /\ Confirmed /\ line \in {"empty", "spoilt"}
  BY <1>1, <1>2 DEF FreshParts, Typed
<1>8. Prompts'
  BY <1>1, <1>2, <1>5, <1>7 DEF Prompts
<1>9. CASE /\ fresh' = (fresh \/ (job = "report" /\ pc = "publish"))
           /\ overtaken' = (overtaken \/ pc = "cleared")
  <2>1. Clean'
    BY <1>1, <1>7, <1>9 DEF Clean
  <2>2. Confirmed'
    BY <1>1, <1>2, <1>7, <1>9 DEF Confirmed
  <2> QED BY <1>8, <2>1, <2>2
<1>10. CASE UNCHANGED fresh /\ Answer(<<"other">>)
  <2>1. Got(rx') \subseteq Got(rx) \cup {"other"}
    BY <1>3, <1>10, ReceiveOne DEF Answer
  <2>2. Has(Confirmation)' => Has(Confirmation)
    BY <2>1 DEF Has, Confirmation
  <2>3. Clean'
    BY <1>1, <1>5, <1>7, <2>2 DEF Clean
  <2>4. Confirmed'
    BY <1>1, <1>2, <1>7, <1>10, <2>2 DEF Confirmed
  <2> QED BY <1>8, <2>3, <2>4
<1> QED BY <1>9, <1>10 DEF DoPublish, cloudVars

\* The surroundings send neither a prompt nor a confirmation.
LEMMA EnvironmentFresh ==
  ASSUME TypeOK, Where, FreshParts, Environment
  PROVE  FreshParts'
<1>1. UNCHANGED <<cloud_task_step, pc, json_buf, upload, fresh, overtaken>>
  BY DEF Environment, NetChange, Disconnect, Rejoin, AutoReconnect, ModuleReset, threadVars,
         textVars, cloudVars
<1>2. /\ rx \in Seq(Texts) /\ Len(rx) <= RxCap
      /\ {"WIFI GOT IP", "MQTTCONNECTED", "MQTTDISCONNECTED", "other"} \subseteq Texts
  BY DEF TypeOK, Texts
<1>3. Got(rx') \subseteq Got(rx) \cup {"WIFI GOT IP", "MQTTCONNECTED", "MQTTDISCONNECTED", "other"}
  BY <1>2, ReceiveOne DEF Environment, NetChange, Disconnect, Rejoin, AutoReconnect, ModuleReset
<1>4. (Has(">")' => Has(">")) /\ (Has(Confirmation)' => Has(Confirmation))
  BY <1>3 DEF Has, Confirmation
<1>5. CASE ModuleReset
  <2>1. line' = "empty" /\ job' = "none" /\ missing' = 0 /\ ~(missing' > 0)
    BY <1>5 DEF ModuleReset
  <2>2. Typed' /\ Ready'
    BY <1>1, <2>1 DEF FreshParts, Typed, Ready
  <2>3. ~overtaken' => Clean' /\ Prompts' /\ Confirmed'
    BY <1>1, <1>4, <2>1 DEF FreshParts, Clean, Prompts, Confirmed
  <2> QED BY <2>2, <2>3 DEF FreshParts
<1>6. CASE UNCHANGED <<line, job, missing, begun>>
  <2>1. Typed' /\ Ready'
    BY <1>1, <1>6 DEF FreshParts, Typed, Ready
  <2>2. ~overtaken' => Clean' /\ Prompts' /\ Confirmed'
    BY <1>1, <1>4, <1>6 DEF FreshParts, Clean, Prompts, Confirmed
  <2> QED BY <2>1, <2>2 DEF FreshParts
<1> QED BY <1>5, <1>6 DEF Environment, NetChange, Disconnect, Rejoin, AutoReconnect, lineVars, rawVars

\* Without uploads there have been none before, and the kind of module stays.
LEMMA NoUploads ==
  ASSUME TypeOK, [Next]_vars, uploads' = 0
  PROVE  uploads = 0 /\ ~UploadBegin /\ kind' = kind
<1>1. uploads \in 0 .. MaxUploads /\ MaxUploads \in Nat
  BY CloudAssumption DEF TypeOK
<1>2. uploads' = uploads \/ uploads' = uploads + 1
  BY DEF Next, Thread, Upload, Module, Environment, Wake, Build, ClearText, StepCommand, LineEnd,
         StepSucceeds, StepFails, Prompted, ReportedOk, ReportTimeout, UploadBegin, UploadPayload,
         DoPlain, DoJoin, DoSetup, DoAnnounce, DoPublish, NetChange, Disconnect, Rejoin,
         AutoReconnect, ModuleReset, textVars, vars
<1>3. UploadBegin => uploads' = uploads + 1
  BY DEF UploadBegin
<1>4. kind' = kind
  BY DEF Next, Thread, Upload, Module, Environment, Wake, Build, ClearText, StepCommand, LineEnd,
         StepSucceeds, StepFails, Prompted, ReportedOk, ReportTimeout, UploadBegin, UploadPayload,
         DoPlain, DoJoin, DoSetup, DoAnnounce, DoPublish, NetChange, Disconnect, Rejoin,
         AutoReconnect, ModuleReset, linkVars, vars
<1> QED BY <1>1, <1>2, <1>3, <1>4

\* Every step.
LEMMA NextFresh == TypeOK /\ Where /\ FreshInv /\ [Next]_vars => FreshInv'
<1> SUFFICES ASSUME TypeOK, Where, FreshInv, [Next]_vars, uploads' = 0 PROVE FreshParts'
    BY DEF FreshInv
<1>1. uploads = 0 /\ ~UploadBegin
  BY NoUploads
<1>2. FreshParts
  BY <1>1 DEF FreshInv
<1>3. CASE Thread
  BY <1>2, <1>3, BeginFresh, ClearFresh, CommandFresh, LineEndFresh, StepEndFresh, PromptedFresh DEF Thread
<1>4. CASE Upload
  BY <1>1, <1>2, <1>4 DEF Upload, UploadPayload, FreshParts, Typed
<1>5. CASE Module
  BY <1>2, <1>5, AnswerFresh, AnnounceFresh, PublishFresh DEF Module
<1>6. CASE Environment
  BY <1>2, <1>6, EnvironmentFresh
<1>7. CASE UNCHANGED vars
  BY <1>2, <1>7 DEF FreshParts, Typed, Ready, Clean, Prompts, Confirmed, Has, vars
<1> QED BY <1>3, <1>4, <1>5, <1>6, <1>7 DEF Next

-----------------------------------------------------------------------------
(* A module that answers in time. *)

\* The module answers in time and nobody uploads.
InTime == TypeOK /\ Where /\ FreshParts /\ TimelyParts /\ ~kind.late

\* Nothing has been sent at the start.
LEMMA InitTimely == Init => TimelyInv
<1> SUFFICES ASSUME Init PROVE TimelyParts
    BY DEF TimelyInv
<1>1. pc = "sleep" /\ job = "none" /\ cloud_task_step = 0 /\ ~overtaken /\ job \notin Payloads
  BY DEF Init, Payloads
<1> QED BY <1>1 DEF TimelyParts

\* The thread wakes up, when the module has nothing left to say, or builds a report.
LEMMA BeginTimely ==
  ASSUME InTime, Wake \/ Build
  PROVE  TimelyParts'
<1>1. /\ UNCHANGED <<cloud_task_step, job, missing, overtaken>>
      /\ pc \in {"sleep", "run"} /\ pc' \in {"run", "built"}
  BY DEF Wake, Build, lineVars, rawVars, cloudVars
<1> QED BY <1>1 DEF InTime, TimelyParts

\* It clears the buffer.
LEMMA ClearTimely ==
  ASSUME InTime, ClearText
  PROVE  TimelyParts'
<1>1. /\ UNCHANGED <<cloud_task_step, job, missing>> /\ ~overtaken'
      /\ rx' = <<>> /\ pc \in {"run", "built"} /\ pc' = "cleared"
  BY DEF ClearText, lineVars, rawVars
<1>2. Got(rx') = {}
  BY <1>1, EmptyFacts
<1>3. ~Has("OK")' /\ ~Has("ERROR")' /\ ~Has(Confirmation)'
  BY <1>2 DEF Has
<1>4. job \notin Payloads /\ job # "MQTTPUBRAW"
  BY <1>1 DEF InTime, TimelyParts
<1> QED BY <1>1, <1>3, <1>4 DEF InTime, TimelyParts, Raw

\* It types a command, which a module in raw mode swallows.
LEMMA CommandTimely ==
  ASSUME InTime, StepCommand
  PROVE  TimelyParts'
<1>1. /\ UNCHANGED <<cloud_task_step, rx, overtaken>> /\ pc = "cleared" /\ pc' = "typed"
      /\ Swallow(Command[cloud_task_step], 1) \/ Type(Command[cloud_task_step])
  BY DEF StepCommand, SendCommand, cloudVars
<1>2. job \notin Payloads /\ job # "MQTTPUBRAW" /\ missing \in Nat
  BY <1>1, MissingNat DEF InTime, TimelyParts
<1>3. (missing' > 0 => missing > 0) /\ job' # "MQTTPUBRAW" /\ (Raw' => Raw)
  <2>1. CASE Swallow(Command[cloud_task_step], 1)
    <3>1. Command[cloud_task_step] \notin Payloads
      BY CommandFacts DEF InTime, TypeOK
    <3>2. missing > 0 /\ job' = (IF 1 < missing THEN job ELSE "garbage")
      BY <2>1, <3>1 DEF Swallow
    <3> QED BY <1>2, <3>2 DEF Raw
  <2>2. CASE Type(Command[cloud_task_step])
    BY <1>2, <2>2 DEF Type, Raw, rawVars
  <2> QED BY <1>1, <2>1, <2>2
<1>4. /\ (Has("OK")' => Has("OK")) /\ (Has("ERROR")' => Has("ERROR"))
      /\ Has(Confirmation)' => Has(Confirmation)
  BY <1>1 DEF Has, Confirmation
<1>5. Raw => /\ cloud_task_step \in {0, 3, 4, 7}
             /\ ~Has("OK") /\ ~Has("ERROR") /\ ~Has(Confirmation)
  BY <1>1 DEF InTime, TimelyParts
<1>6. ~overtaken' /\ (missing > 0 => cloud_task_step \in {0, 3, 4, 7})
  BY <1>1 DEF InTime, TimelyParts
<1> QED BY <1>1, <1>3, <1>4, <1>5, <1>6 DEF TimelyParts

\* The line end executes it.
LEMMA LineEndTimely ==
  ASSUME InTime, LineEnd
  PROVE  TimelyParts'
<1>1. /\ pc = "typed" /\ pc' \in {"prompt", "command"} /\ (pc' = "prompt" <=> cloud_task_step = 7)
      /\ UNCHANGED <<cloud_task_step, rx, overtaken>> /\ ExecuteLine
  BY DEF LineEnd, cloudVars
<1>2. cloud_task_step \in 0 .. 7 /\ missing \in Nat /\ ~overtaken /\ job # "MQTTPUBRAW"
  BY <1>1, MissingNat DEF InTime, TypeOK, TimelyParts
<1>3. CASE missing = 0 /\ job = "none" /\ line # "empty"
  <2>1. job' = line /\ missing' = missing
    BY <1>1, <1>3 DEF ExecuteLine, rawVars
  <2>2. line \in {"spoilt", Command[cloud_task_step]}
    BY <1>3 DEF InTime, FreshParts, Typed
  <2>3. Command[cloud_task_step] \notin Payloads /\ "spoilt" \notin Payloads
    BY <1>2, CommandFacts DEF Payloads
  <2>4. Command[cloud_task_step] = "MQTTPUBRAW" => cloud_task_step = 7
    <3>1. \A s \in 0 .. 7 : s = 0 \/ s = 1 \/ s = 2 \/ s = 3 \/ s = 4 \/ s = 5 \/ s = 6 \/ s = 7
      OBVIOUS
    <3> QED BY <1>2, <3>1, CommandFacts
  <2>5. ~Raw' /\ ~(missing' > 0) /\ job' \notin Payloads
    BY <1>3, <2>1, <2>2, <2>3 DEF Raw
  <2>6. job' = "MQTTPUBRAW" => pc' = "prompt"
    BY <1>1, <2>1, <2>2, <2>4
  <2> QED BY <1>1, <1>2, <2>5, <2>6 DEF TimelyParts
<1>4. CASE ~(missing = 0 /\ job = "none" /\ line # "empty")
  <2>1. UNCHANGED <<job, missing>>
    BY <1>1, <1>4 DEF ExecuteLine, lineVars, rawVars
  <2> QED BY <1>1, <1>2, <2>1 DEF InTime, TimelyParts, Raw, Has
<1> QED BY <1>3, <1>4

\* A wait ends: not with an answer when the module is in raw mode.
LEMMA StepEndTimely ==
  ASSUME InTime, StepSucceeds \/ StepFails \/ ReportedOk \/ ReportTimeout
  PROVE  TimelyParts'
<1>1. UNCHANGED <<job, missing, overtaken>> /\ pc' \in {"run", "sleep"}
  BY DEF StepSucceeds, StepFails, ReportedOk, ReportTimeout, lineVars, rawVars, cloudVars
<1>2. cloud_task_step \in 0 .. 7 /\ ~overtaken /\ "none" \notin Payloads
  BY DEF InTime, TypeOK, TimelyParts, Payloads
<1> SUFFICES /\ job \notin Payloads /\ job # "MQTTPUBRAW"
             /\ missing > 0 => cloud_task_step' \in {0, 3, 4, 7}
  BY <1>1, <1>2 DEF TimelyParts
<1>3. ASSUME pc = "command"
      PROVE  /\ cloud_task_step \in 0 .. 6 /\ job # "MQTTPUBRAW"
             /\ Raw => /\ cloud_task_step \in {0, 3, 4}
                       /\ ~Has("OK") /\ ~Has("ERROR") /\ ~Has(Confirmation)
  BY <1>2, <1>3 DEF InTime, Where, TimelyParts
<1>4. CASE StepSucceeds
  <2>1. pc = "command" /\ Contains(Expected[cloud_task_step])
    BY <1>4 DEF StepSucceeds
  <2>2. cloud_task_step \in {0, 3, 4} => Expected[cloud_task_step] = "OK"
    <3>1. Expected[0] = "OK" /\ Expected[3] = "OK" /\ Expected[4] = "OK"
      BY DEF Expected
    <3> QED BY <3>1
  <2>3. ~Raw
    BY <1>3, <2>1, <2>2, ContainsFacts DEF Confirmation
  <2> QED BY <1>3, <2>1, <2>3 DEF Raw
<1>5. CASE StepFails
  <2>1. /\ pc = "command" /\ cloud_task_step' = OnFailure[cloud_task_step]
        /\ (StopsOnError(cloud_task_step) /\ Contains("ERROR")) \/ TimesOut
    BY <1>5 DEF StepFails
  <2>2. CASE Contains("ERROR")
    <3>1. ~Raw
      BY <1>3, <2>1, <2>2, ContainsFacts
    <3> QED BY <1>3, <2>1, <3>1 DEF Raw
  <2>3. CASE TimesOut
    <3>1. job = "none"
      BY <2>3 DEF TimesOut, InTime
    <3>2. missing > 0 => cloud_task_step \in {0, 3, 4}
      BY <1>3, <2>1 DEF Raw
    <3>3. cloud_task_step \in {0, 3, 4} => OnFailure[cloud_task_step] \in {0, 4}
      BY DEF OnFailure
    <3> QED BY <1>2, <2>1, <3>1, <3>2, <3>3
  <2> QED BY <2>1, <2>2, <2>3
<1>6. CASE ReportedOk
  <2>1. pc = "publish" /\ Has(Confirmation)
    BY <1>6, ContainsFacts DEF ReportedOk, Confirmation
  <2>2. job = "none" /\ missing = 0
    BY <1>2, <2>1 DEF InTime, FreshParts, Confirmed
  <2> QED BY <1>2, <2>2
<1>7. CASE ReportTimeout
  <2>1. job = "none" /\ cloud_task_step' \in {3, 7}
    BY <1>7 DEF ReportTimeout, TimesOut, InTime
  <2> QED BY <1>2, <2>1
<1> QED BY <1>4, <1>5, <1>6, <1>7

\* The report is sent.
LEMMA PromptedTimely ==
  ASSUME InTime, Prompted
  PROVE  TimelyParts'
<1>1. pc' = "publish" /\ overtaken' = overtaken /\ ~overtaken
  BY DEF Prompted, cloudVars, InTime, TimelyParts
<1>2. FreshParts'
  BY PromptedFresh DEF InTime
<1>3. missing' = 0 /\ ~(missing' > 0) /\ job' # "MQTTPUBRAW"
  BY <1>1, <1>2 DEF FreshParts, Confirmed
<1> QED BY <1>1, <1>3 DEF TimelyParts

\* While the module executes something it does not wait for payload.
LEMMA BusyNotRaw ==
  ASSUME InTime, job # "none"
  PROVE  ~(missing > 0) /\ line \in {"empty", "spoilt"}
BY DEF InTime, FreshParts, Typed

\* The module answers a command other than an announcement.
LEMMA AnswerTimely ==
  ASSUME InTime, DoPlain \/ DoJoin \/ DoSetup
  PROVE  TimelyParts'
<1>1. /\ UNCHANGED <<missing, overtaken>> /\ job # "none" /\ job' \in {"none", "joined"}
  BY DEF DoPlain, DoJoin, DoSetup, Answer, rawVars, cloudVars
<1>2. ~(missing' > 0) /\ job' \notin Payloads /\ job' # "MQTTPUBRAW" /\ ~overtaken'
  BY <1>1, BusyNotRaw DEF Payloads, InTime, TimelyParts
<1> QED BY <1>2 DEF TimelyParts, Raw

\* The module prompts for the report, or refuses, while the thread waits for it.
LEMMA AnnounceTimely ==
  ASSUME InTime, DoAnnounce
  PROVE  TimelyParts'
<1>1. /\ UNCHANGED <<cloud_task_step, pc>> /\ job' = "none"
      /\ overtaken' = overtaken \/ overtaken' = (overtaken \/ pc = "cleared")
      /\ job \in {"MQTTPUBRAW", "MQTTPUBRAW test"}
  BY DEF DoAnnounce, Answer, threadVars
<1>2. pc = "prompt" /\ cloud_task_step = 7 /\ ~overtaken /\ "none" \notin Payloads
  BY <1>1 DEF InTime, FreshParts, Typed, TimelyParts, Where, Payloads
<1>3. ~overtaken'
  BY <1>1, <1>2
<1> QED BY <1>1, <1>2, <1>3 DEF TimelyParts

\* The payload is published before the thread clears the buffer again.
LEMMA PublishTimely ==
  ASSUME InTime, DoPublish
  PROVE  TimelyParts'
<1>1. /\ UNCHANGED <<cloud_task_step, pc, missing>> /\ job' = "none" /\ job \in Payloads
      /\ overtaken' = overtaken \/ overtaken' = (overtaken \/ pc = "cleared")
  BY DEF DoPublish, Answer, threadVars, rawVars, cloudVars
<1>2. pc # "cleared" /\ ~overtaken /\ "none" \notin Payloads
  BY <1>1 DEF InTime, TimelyParts, Payloads
<1>3. ~overtaken'
  BY <1>1, <1>2
<1>4. ~(missing' > 0)
  BY <1>1, <1>2, BusyNotRaw
<1> QED BY <1>1, <1>2, <1>3, <1>4 DEF TimelyParts, Raw

\* The surroundings end no job except by a reset.
LEMMA EnvironmentTimely ==
  ASSUME InTime, Environment
  PROVE  TimelyParts'
<1>1. UNCHANGED <<cloud_task_step, pc, overtaken>> /\ ~overtaken
  BY DEF Environment, NetChange, Disconnect, Rejoin, AutoReconnect, ModuleReset, threadVars,
         cloudVars, InTime, TimelyParts
<1>2. CASE ModuleReset
  <2>1. job' = "none" /\ ~(missing' > 0) /\ "none" \notin Payloads
    BY <1>2 DEF ModuleReset, Payloads
  <2> QED BY <1>1, <2>1 DEF TimelyParts, Raw
<1>3. CASE ~ModuleReset
  <2>1. UNCHANGED <<job, missing>>
    BY <1>3 DEF Environment, NetChange, Disconnect, Rejoin, AutoReconnect, lineVars, rawVars
  <2>2. rx' = rx \/ \E t \in {"WIFI GOT IP", "MQTTCONNECTED", "MQTTDISCONNECTED"} : Receive(<<t>>)
    BY <1>3 DEF Environment, NetChange, Disconnect, Rejoin, AutoReconnect
  <2>3. /\ rx \in Seq(Texts) /\ Len(rx) <= RxCap
        /\ {"WIFI GOT IP", "MQTTCONNECTED", "MQTTDISCONNECTED"} \subseteq Texts
    BY DEF InTime, TypeOK, Texts
  <2>4. Got(rx') \subseteq Got(rx) \cup {"WIFI GOT IP", "MQTTCONNECTED", "MQTTDISCONNECTED"}
    BY <2>2, <2>3, ReceiveOne
  <2>5. /\ (Has("OK")' => Has("OK")) /\ (Has("ERROR")' => Has("ERROR"))
        /\ Has(Confirmation)' => Has(Confirmation)
    BY <2>4 DEF Has, Confirmation
  <2> QED BY <1>1, <2>1, <2>5 DEF InTime, TimelyParts, Raw
<1> QED BY <1>2, <1>3

\* Every step.
LEMMA NextTimely == TypeOK /\ Where /\ FreshInv /\ TimelyInv /\ [Next]_vars => TimelyInv'
<1> SUFFICES ASSUME TypeOK, Where, FreshInv, TimelyInv, [Next]_vars, ~kind'.late, uploads' = 0
             PROVE  TimelyParts'
    BY DEF TimelyInv
<1>1. InTime /\ ~UploadBegin
  BY NoUploads DEF FreshInv, TimelyInv, InTime
<1>2. CASE Thread
  BY <1>1, <1>2, BeginTimely, ClearTimely, CommandTimely, LineEndTimely, StepEndTimely,
     PromptedTimely DEF Thread
<1>3. CASE Upload
  BY <1>1, <1>3 DEF Upload, UploadPayload, InTime, FreshParts, Typed
<1>4. CASE Module
  BY <1>1, <1>4, AnswerTimely, AnnounceTimely, PublishTimely DEF Module
<1>5. CASE Environment
  BY <1>1, <1>5, EnvironmentTimely
<1>6. CASE UNCHANGED vars
  <2>1. UNCHANGED <<cloud_task_step, pc, rx, job, missing, overtaken>>
    BY <1>6 DEF vars
  <2> QED BY <1>1, <2>1 DEF InTime, TimelyParts, Raw, Has
<1> QED BY <1>2, <1>3, <1>4, <1>5, <1>6 DEF Next

-----------------------------------------------------------------------------
(* Types and confirmations: the theorems. *)

\* The first part of the invariant holds in every reachable state.
LEMMA FreshHolds == Spec => [](TypeOK /\ Where /\ FreshInv /\ TimelyInv)
<1>1. Init => TypeOK /\ Where /\ FreshInv /\ TimelyInv
  BY InitTyped, InitFresh, InitTimely
<1>2. TypeOK /\ Where /\ FreshInv /\ TimelyInv /\ [Next]_vars
      => (TypeOK /\ Where /\ FreshInv /\ TimelyInv)'
  BY NextTyped, NextFresh, NextTimely
<1> QED BY <1>1, <1>2, PTL DEF Spec

\* The state of the reporter and of the module stays well typed: cloud_task_step
\* stays a step of the switch in huawei_cloud_thread_entry, on every way back, and
\* the text buffer within its size.
THEOREM TypeCorrect == Spec => []TypeOK
BY FreshHolds, PTL

\* huawei_cloud_thread_entry takes +MQTTPUB:OK for the confirmation of the report
\* it has just sent.  Unless somebody uploads by hand it is, with a module that
\* answers in time, also when the board restarts in the middle of a session, and
\* with a late one unless a prompt or a confirmation of the round before arrives
\* between uart4_buffer_clear() and uart4_send().
THEOREM ConfirmationIsOwn == Spec => ReportedOkIsFresh
<1>1. TypeOK /\ Where /\ FreshInv /\ TimelyInv /\ [Next]_vars
      => [ReportedOk /\ uploads = 0 /\ (kind.late => ~overtaken) => fresh]_vars
  <2> SUFFICES ASSUME FreshInv, TimelyInv, ReportedOk, uploads = 0, kind.late => ~overtaken
               PROVE  fresh
    OBVIOUS
  <2>1. pc = "publish" /\ Contains(Confirmation) /\ FreshParts
    BY DEF ReportedOk, FreshInv
  <2>2. Has(Confirmation)
    BY <2>1, ContainsFacts DEF Confirmation
  <2>3. ~overtaken
    BY DEF TimelyInv, TimelyParts
  <2> QED BY <2>1, <2>2, <2>3 DEF FreshParts, Confirmed
<1> QED BY <1>1, FreshHolds, PTL DEF Spec, ReportedOkIsFresh

-----------------------------------------------------------------------------
(* What reaches the broker. *)

\* A board and a module that start together and work in time, nobody uploading.
Calm == InTime /\ WholeParts

\* The buffer is large enough for what the module says with that many faults.
RoomAssumed == RxCap >= 3 * MaxFaults + 7

\* The parts of Room are small numbers.
LEMMA RoomTypes ==
  /\ \A at, cmd : Due(at, cmd) \in Nat /\ Due(at, cmd) <= 3
  /\ \A up : Lost(up) \in Nat /\ Lost(up) <= 1
BY DEF Due, Lost

\* So is the rest of it.
LEMMA RoomNats ==
  ASSUME InTime
  PROVE  /\ rx \in Seq(Texts) /\ Len(rx) \in Nat /\ Len(rx) <= RxCap
         /\ faults \in Nat /\ MaxFaults \in Nat /\ faults <= MaxFaults /\ RxCap \in Nat
         /\ missing \in Nat
<1>1. rx \in Seq(Texts) /\ Len(rx) <= RxCap /\ faults \in 0 .. MaxFaults
  BY DEF InTime, TypeOK
<1>2. Len(rx) \in Nat
  BY <1>1
<1>3. missing \in Nat
  BY MissingNat DEF InTime
<1> QED BY <1>1, <1>2, <1>3, CloudAssumption

\* Nothing has happened at the start.
LEMMA InitWhole == Init => WholeInv
<1> SUFFICES ASSUME Init, ~kind.warm PROVE WholeParts
    BY DEF WholeInv
<1>1. missing = 0
  BY DEF Init
<1>2. pc = "sleep" /\ job = "none" /\ published = "none" /\ "none" \notin Payloads
  BY DEF Init, Payloads
<1>3. ~(missing > 0)
  BY <1>1
<1> QED BY <1>2, <1>3 DEF WholeParts, Room, Counting

\* The thread wakes up, builds a report, or clears the buffer.
LEMMA BeginWhole ==
  ASSUME Calm, Wake \/ Build \/ ClearText
  PROVE  WholeParts'
<1>1. /\ UNCHANGED <<job, missing, wifi, mqtt, published, faults>>
      /\ pc \in {"sleep", "run", "built"} /\ pc' \in {"run", "built", "cleared"}
      /\ pc' = "cleared" => rx' = <<>>
  BY DEF Wake, Build, ClearText, lineVars, rawVars, linkVars, cloudVars
<1>2. ~(missing > 0) /\ (job \in Payloads => job = "report") /\ published \in {"none", "report"}
  BY <1>1 DEF Calm, WholeParts
<1>3. Room'
  <2> SUFFICES ASSUME pc' = "cleared"
               PROVE  Len(rx') + Due(pc', job') + Lost(wifi') + Lost(mqtt') <= 3 * faults' + 5
    BY <1>1 DEF Room, Counting
  <2>1. Len(rx') = 0 /\ faults' \in Nat
    BY <1>1, RoomNats DEF Calm
  <2> QED BY <2>1, RoomTypes
<1> QED BY <1>1, <1>2, <1>3 DEF WholeParts

\* It types a command; the module does not wait for payload.
LEMMA CommandWhole ==
  ASSUME Calm, StepCommand
  PROVE  WholeParts'
<1>1. /\ UNCHANGED <<rx, wifi, mqtt, published, faults>> /\ pc = "cleared" /\ pc' = "typed"
      /\ Swallow(Command[cloud_task_step], 1) \/ Type(Command[cloud_task_step])
  BY DEF StepCommand, SendCommand, linkVars, cloudVars
<1>2. ~(missing > 0) /\ (job \in Payloads => job = "report") /\ published \in {"none", "report"}
  BY <1>1 DEF Calm, WholeParts
<1>3. UNCHANGED <<job, missing>>
  BY <1>1, <1>2 DEF Swallow, Type, rawVars
<1>4. Room'
  <2>1. Len(rx) + Due(pc, job) + Lost(wifi) + Lost(mqtt) <= 3 * faults + 5
    BY <1>1 DEF Calm, WholeParts, Room, Counting
  <2>2. Due(pc', job') = 0
    BY <1>1 DEF Due
  <2>3. Len(rx') + Due(pc', job') + Lost(wifi') + Lost(mqtt') <= 3 * faults' + 5
    <3>1. Len(rx) \in Nat /\ faults \in Nat
      BY RoomNats DEF Calm
    <3>2. Len(rx') = Len(rx) /\ faults' = faults /\ Lost(wifi') = Lost(wifi) /\ Lost(mqtt') = Lost(mqtt)
      BY <1>1
    <3> QED BY <2>1, <2>2, <3>1, <3>2, RoomTypes
  <2> QED BY <2>3 DEF Room
<1> QED BY <1>1, <1>2, <1>3, <1>4 DEF WholeParts

\* The line end starts the command, if the module was free when it was typed.
LEMMA LineEndWhole ==
  ASSUME Calm, LineEnd
  PROVE  WholeParts'
<1>1. /\ pc = "typed" /\ pc' \in {"prompt", "command"}
      /\ UNCHANGED <<rx, wifi, mqtt, published, faults>> /\ ExecuteLine
  BY DEF LineEnd, linkVars, cloudVars
<1>2. /\ ~(missing > 0) /\ (job \in Payloads => job = "report") /\ published \in {"none", "report"}
      /\ job # "MQTTPUBRAW"
  BY <1>1 DEF Calm, WholeParts, InTime, TimelyParts
<1>3. missing' = missing /\ (job' = job \/ job' = line)
  BY <1>1 DEF ExecuteLine, lineVars, rawVars
<1>4. line \notin Payloads
  <2>1. cloud_task_step \in 0 .. 7 /\ line \in {"empty", "spoilt", Command[cloud_task_step]}
    BY DEF Calm, InTime, TypeOK, FreshParts, Typed
  <2> QED BY <2>1, CommandFacts DEF Payloads
<1>5. Room'
  <2> SUFFICES ASSUME Counting'
               PROVE  Len(rx') + Due(pc', job') + Lost(wifi') + Lost(mqtt') <= 3 * faults' + 5
    BY DEF Room
  <2>1. line = "MQTTPUBRAW"
    BY <1>1, <1>2, <1>3 DEF Counting
  <2>2. Due(pc, job) = 0 /\ Due(pc', job') = 0
    BY <1>1 DEF Due
  <2>3. Len(rx) + Due(pc, job) + Lost(wifi) + Lost(mqtt) <= 3 * faults + 5
    BY <1>1, <2>1 DEF Calm, WholeParts, Room, Counting
  <2> QED BY <1>1, <2>2, <2>3
<1> QED BY <1>1, <1>2, <1>3, <1>4, <1>5 DEF WholeParts

\* A wait ends; with a prompt in the buffer the thread does not give up.
LEMMA StepEndWhole ==
  ASSUME Calm, StepSucceeds \/ StepFails \/ ReportedOk \/ ReportTimeout
  PROVE  WholeParts'
<1>1. /\ UNCHANGED <<job, missing, published>>
      /\ pc \in {"command", "prompt", "publish"} /\ pc' \in {"run", "sleep"}
  BY DEF StepSucceeds, StepFails, ReportedOk, ReportTimeout, lineVars, rawVars, cloudVars
<1>2. ~(missing > 0)
  <2>1. CASE pc = "prompt"
    <3>1. ReportTimeout
      BY <2>1 DEF StepSucceeds, StepFails, ReportedOk
    <3>2. ~Has(">")
      BY <2>1, <3>1, ContainsFacts DEF ReportTimeout
    <3> QED BY <3>2 DEF Calm, WholeParts
  <2>2. CASE pc # "prompt"
    BY <2>2 DEF Calm, WholeParts
  <2> QED BY <2>1, <2>2
<1>3. Room'
  BY <1>1 DEF Room, Counting
<1> QED BY <1>1, <1>2, <1>3 DEF Calm, WholeParts

\* The report is sent.
LEMMA PromptedWhole ==
  ASSUME Calm, Prompted
  PROVE  WholeParts'
<1>1. pc' = "publish" /\ published' = published /\ overtaken' = overtaken /\ ~overtaken
  BY DEF Prompted, cloudVars, Calm, InTime, TimelyParts
<1>2. FreshParts'
  BY PromptedFresh DEF Calm, InTime
<1>3. missing' = 0 /\ ~(missing' > 0) /\ (job' \in Payloads => job' = "report")
  BY <1>1, <1>2 DEF FreshParts, Confirmed, Payloads
<1>4. Room'
  BY <1>1 DEF Room, Counting
<1> QED BY <1>1, <1>3, <1>4 DEF Calm, WholeParts

\* The module answers a command other than an announcement: the texts have been
\* allowed for.
LEMMA AnswerWhole ==
  ASSUME Calm, DoPlain \/ DoJoin \/ DoSetup
  PROVE  WholeParts'
<1>1. /\ UNCHANGED <<pc, line, missing, published, faults>>
      /\ job # "none" /\ job' \in {"none", "joined"}
  BY DEF DoPlain, DoJoin, DoSetup, Answer, threadVars, rawVars, cloudVars
<1>2. ~(missing' > 0) /\ job' \notin Payloads /\ line \in {"empty", "spoilt"}
  BY <1>1, BusyNotRaw DEF Payloads, Calm
<1>3. Room'
  <2> SUFFICES ASSUME Counting'
               PROVE  Len(rx') + Due(pc', job') + Lost(wifi') + Lost(mqtt') <= 3 * faults + 5
    BY <1>1 DEF Room
  <2>1. pc = "cleared" /\ pc' = "cleared"
    BY <1>1, <1>2 DEF Counting
  <2>2. Len(rx) + Due(pc, job) + Lost(wifi) + Lost(mqtt) <= 3 * faults + 5
    BY <2>1 DEF Calm, WholeParts, Room, Counting
  <2>3. /\ rx \in Seq(Texts) /\ Len(rx) \in Nat /\ Len(rx) <= RxCap /\ faults \in Nat
        /\ {"OK", "ERROR", "WIFI GOT IP", "MQTTCONNECTED"} \subseteq Texts
    BY RoomNats DEF Calm, Texts
  <2>a. Len(rx) \in Nat /\ faults \in Nat
    BY <2>3
  <2>4. CASE DoPlain
    <3>1. /\ Receive(<<"OK">>) \/ Receive(<<"ERROR">>)
          /\ UNCHANGED <<wifi, mqtt>> /\ job' = "none"
      BY <2>4 DEF DoPlain, Answer, linkVars
    <3>2. Len(rx') \in Nat /\ Len(rx') <= Len(rx) + 1
      BY <2>3, <3>1, ReceiveOne
    <3>3. Due(pc', job') = 0 /\ Due(pc, job) >= 1 /\ Lost(wifi') = Lost(wifi) /\ Lost(mqtt') = Lost(mqtt)
      BY <1>1, <2>1, <3>1 DEF Due
    <3> QED BY <2>a, <2>2, <3>2, <3>3, RoomTypes
  <2>5. CASE DoJoin
    <3>1. /\ Receive(<<"WIFI GOT IP">>) \/ Receive(<<"ERROR">>)
          /\ job = "CWJAP" /\ ((job' = "joined" /\ wifi' = TRUE) \/ job' = "none")
      BY <2>5 DEF DoJoin, Answer
    <3>2. Len(rx') \in Nat /\ Len(rx') <= Len(rx) + 1
      BY <2>3, <3>1, ReceiveOne
    <3>3. Due(pc, job) = 3 /\ ((Due(pc', job') = 1 /\ Lost(wifi') = 0) \/ Due(pc', job') = 0)
      BY <2>1, <3>1 DEF Due, Lost
    <3> QED BY <2>a, <2>2, <3>2, <3>3, RoomTypes
  <2>6. CASE DoSetup
    <3>1. /\ \/ Receive(<<"OK">>) \/ Receive(<<"ERROR">>)
             \/ Receive(<<"MQTTCONNECTED", "OK">>) /\ mqtt' = TRUE
          /\ wifi' = wifi /\ job' = "none" /\ job # "joined"
      BY <2>6 DEF DoSetup, Answer
    <3>2. /\ Len(rx') \in Nat
          /\ Len(rx') <= Len(rx) + 1 \/ (Len(rx') <= Len(rx) + 2 /\ mqtt' = TRUE)
      BY <2>3, <3>1, ReceiveOne, ReceiveTwo
    <3>3. Due(pc, job) = 3 /\ Due(pc', job') = 0 /\ Lost(wifi') = Lost(wifi)
      BY <1>1, <2>1, <3>1 DEF Due, Lost
    <3>4. mqtt' = TRUE => Lost(mqtt') = 0
      BY DEF Lost
    <3> QED BY <2>a, <2>2, <3>2, <3>3, <3>4, RoomTypes
  <2> QED BY <2>4, <2>5, <2>6
<1> QED BY <1>1, <1>2, <1>3 DEF Calm, WholeParts

\* The module prompts for a report, and the prompt fits into the buffer.
LEMMA AnnounceWhole ==
  ASSUME Calm, RoomAssumed, DoAnnounce
  PROVE  WholeParts'
<1>1. /\ UNCHANGED <<pc, published>> /\ job' = "none" /\ "none" \notin Payloads
      /\ job \in {"MQTTPUBRAW", "MQTTPUBRAW test"}
  BY DEF DoAnnounce, Answer, threadVars, Payloads
<1>2. job = "MQTTPUBRAW" /\ pc = "prompt" /\ ~(missing > 0)
  <2>1. job = "MQTTPUBRAW"
    BY <1>1 DEF Calm, InTime, FreshParts, Typed
  <2> QED BY <2>1, BusyNotRaw DEF Calm, InTime, TimelyParts
<1>3. /\ rx \in Seq(Texts) /\ Len(rx) \in Nat /\ Len(rx) <= RxCap
      /\ faults \in Nat /\ MaxFaults \in Nat /\ faults <= MaxFaults /\ RxCap \in Nat
  BY RoomNats DEF Calm
<1>4. missing' > 0 => Has(">")'
  <2>1. CASE mqtt /\ Receive(<<"OK", ">">>)
    <3>1. Len(rx) + Due(pc, job) + Lost(wifi) + Lost(mqtt) <= 3 * faults + 5
      BY <1>2 DEF Calm, WholeParts, Room, Counting
    <3>2. Len(rx) <= 3 * faults + 5
      BY <1>3, <3>1, RoomTypes
    <3>3. Len(rx) + 2 <= RxCap
      BY <1>3, <3>2 DEF RoomAssumed
    <3>4. "OK" \in Texts /\ ">" \in Texts
      BY DEF Texts
    <3> QED BY <1>3, <2>1, <3>3, <3>4, ReceiveTwo DEF Has
  <2>2. CASE UNCHANGED rawVars
    BY <1>2, <2>2 DEF rawVars
  <2> QED BY <2>1, <2>2 DEF DoAnnounce, Answer
<1>5. Room'
  BY <1>1, <1>2 DEF Room, Counting
<1> QED BY <1>1, <1>2, <1>4, <1>5 DEF Calm, WholeParts

\* What is published is the report.
LEMMA PublishWhole ==
  ASSUME Calm, DoPublish
  PROVE  WholeParts'
<1>1. /\ UNCHANGED <<pc, line, missing>> /\ "none" \notin Payloads
      /\ job \in Payloads /\ job' = "none" /\ published' \in {job, published}
  BY DEF DoPublish, Answer, threadVars, rawVars, cloudVars, Payloads
<1>2. job = "report" /\ pc # "cleared" /\ ~(missing > 0) /\ line \in {"empty", "spoilt"}
  BY <1>1, BusyNotRaw DEF Calm, WholeParts, InTime, TimelyParts
<1>3. Room'
  BY <1>1, <1>2 DEF Room, Counting
<1> QED BY <1>1, <1>2, <1>3 DEF Calm, WholeParts

\* What a fault adds.
LEMMA FaultSum ==
  ASSUME NEW l \in Nat, NEW n \in Nat, NEW d \in Nat, NEW w \in Nat, NEW v \in Nat,
         NEW m \in Nat, NEW u \in Nat, NEW f \in Nat,
         l + d + w + m <= 3 * f + 5, n + v + u <= l + w + m + 3
  PROVE  n + d + v + u <= 3 * (f + 1) + 5
OBVIOUS

\* A connection is lost or comes back by itself: each fault brings at most three
\* texts, its own and those of the reconnection.
LEMMA LinkWhole ==
  ASSUME Calm, NetChange \/ Disconnect \/ Rejoin \/ AutoReconnect
  PROVE  WholeParts'
<1>1. UNCHANGED <<pc, line, job, missing, published>>
  BY DEF NetChange, Disconnect, Rejoin, AutoReconnect, threadVars, lineVars, rawVars, cloudVars
<1>2. /\ rx \in Seq(Texts) /\ Len(rx) \in Nat /\ Len(rx) <= RxCap /\ faults \in Nat
      /\ {"WIFI GOT IP", "MQTTCONNECTED", "MQTTDISCONNECTED"} \subseteq Texts
  BY RoomNats DEF Calm, Texts
<1>3. Got(rx) \subseteq Got(rx') /\ Len(rx') \in Nat /\ Len(rx') <= Len(rx) + 1
  <2>1. CASE rx' = rx
    <3>1. Len(rx) \in Nat
      BY <1>2
    <3>2. Len(rx) <= Len(rx) + 1
      BY <3>1
    <3> QED BY <2>1, <3>1, <3>2
  <2>2. CASE \/ Receive(<<"WIFI GOT IP">>) \/ Receive(<<"MQTTCONNECTED">>)
             \/ Receive(<<"MQTTDISCONNECTED">>)
    <3>1. PICK t \in Texts : Receive(<<t>>)
      BY <1>2, <2>2
    <3> QED BY <1>2, <3>1, ReceiveOne
  <2> QED BY <2>1, <2>2 DEF NetChange, Disconnect, Rejoin, AutoReconnect
<1>4. Has(">") => Has(">")'
  BY <1>3 DEF Has
<1>5. Room'
  <2> SUFFICES ASSUME Counting'
               PROVE  Len(rx') + Due(pc', job') + Lost(wifi') + Lost(mqtt') <= 3 * faults' + 5
    BY DEF Room
  <2>1. Due(pc', job') = Due(pc, job)
    BY <1>1 DEF Due
  <2>2. Len(rx) + Due(pc, job) + Lost(wifi) + Lost(mqtt) <= 3 * faults + 5
    BY <1>1 DEF Calm, WholeParts, Room, Counting
  <2>a. Len(rx) \in Nat /\ Len(rx') \in Nat /\ Len(rx') <= Len(rx) + 1 /\ faults \in Nat
    BY <1>2, <1>3
  <2>3. CASE NetChange
    BY <2>1, <2>2, <2>3 DEF NetChange
  <2>4. CASE Disconnect
    <3>1. faults' = faults + 1
      BY <2>4 DEF Disconnect, Fault
    <3>2. Len(rx') + Lost(wifi') + Lost(mqtt') <= Len(rx) + Lost(wifi) + Lost(mqtt) + 3
      BY <2>a, RoomTypes
    <3>3. Len(rx') + Due(pc, job) + Lost(wifi') + Lost(mqtt') <= 3 * (faults + 1) + 5
      BY <2>a, <2>2, <3>2, RoomTypes, FaultSum
    <3> QED BY <2>1, <3>1, <3>3
  <2>5. CASE Rejoin
    <3>1. UNCHANGED <<mqtt, faults>> /\ ~wifi /\ wifi'
      BY <2>5 DEF Rejoin
    <3>2. Lost(wifi) = 1 /\ Lost(wifi') = 0 /\ Lost(mqtt') = Lost(mqtt)
      BY <3>1 DEF Lost
    <3>3. faults' = faults
      BY <3>1
    <3> QED BY <2>a, <2>1, <2>2, <3>2, <3>3, RoomTypes
  <2>6. CASE AutoReconnect
    <3>1. UNCHANGED <<wifi, faults>> /\ ~mqtt /\ mqtt'
      BY <2>6 DEF AutoReconnect
    <3>2. Lost(mqtt) = 1 /\ Lost(mqtt') = 0 /\ Lost(wifi') = Lost(wifi)
      BY <3>1 DEF Lost
    <3>3. faults' = faults
      BY <3>1
    <3> QED BY <2>a, <2>1, <2>2, <3>2, <3>3, RoomTypes
  <2> QED BY <2>3, <2>4, <2>5, <2>6
<1> QED BY <1>1, <1>4, <1>5 DEF Calm, WholeParts

\* The module restarts.
LEMMA ResetWhole ==
  ASSUME Calm, ModuleReset
  PROVE  WholeParts'
<1>1. /\ UNCHANGED <<pc, published>> /\ faults' = faults + 1 /\ "none" \notin Payloads
      /\ line' = "empty" /\ job' = "none" /\ ~(missing' > 0) /\ Receive(<<"other">>)
  BY DEF ModuleReset, Fault, threadVars, cloudVars, Payloads
<1>2. rx \in Seq(Texts) /\ Len(rx) \in Nat /\ Len(rx) <= RxCap /\ faults \in Nat /\ "other" \in Texts
  BY RoomNats DEF Calm, Texts
<1>3. Len(rx') \in Nat /\ Len(rx') <= Len(rx) + 1
  BY <1>1, <1>2, ReceiveOne
<1>4. Room'
  <2> SUFFICES ASSUME Counting'
               PROVE  Len(rx') + Due(pc', job') + Lost(wifi') + Lost(mqtt') <= 3 * faults' + 5
    BY DEF Room
  <2>1. pc = "cleared"
    BY <1>1 DEF Counting
  <2>2. Len(rx) + Due(pc, job) + Lost(wifi) + Lost(mqtt) <= 3 * faults + 5
    BY <2>1 DEF Calm, WholeParts, Room, Counting
  <2>3. Due(pc', job') = 0
    BY <1>1 DEF Due
  <2> QED BY <1>1, <1>2, <1>3, <2>2, <2>3, RoomTypes
<1> QED BY <1>1, <1>4 DEF Calm, WholeParts

\* Every step.
LEMMA NextWhole == RoomAssumed /\ CloudInv /\ [Next]_vars => WholeInv'
<1> SUFFICES ASSUME RoomAssumed, CloudInv, [Next]_vars, ~kind'.late, ~kind'.warm, uploads' = 0
             PROVE  WholeParts'
    BY DEF WholeInv
<1>1. uploads = 0 /\ ~UploadBegin /\ kind' = kind
  BY NoUploads DEF CloudInv
<1>2. Calm
  BY <1>1 DEF CloudInv, FreshInv, TimelyInv, WholeInv, InTime, Calm
<1>3. CASE Thread
  BY <1>2, <1>3, BeginWhole, CommandWhole, LineEndWhole, StepEndWhole, PromptedWhole DEF Thread
<1>4. CASE Upload
  BY <1>1, <1>2, <1>4 DEF Upload, UploadPayload, Calm, InTime, FreshParts, Typed
<1>5. CASE Module
  BY <1>2, <1>5, AnswerWhole, AnnounceWhole, PublishWhole DEF Module
<1>6. CASE Environment
  BY <1>2, <1>6, LinkWhole, ResetWhole DEF Environment
<1>7. CASE UNCHANGED vars
  <2>1. UNCHANGED <<pc, rx, line, job, missing, wifi, mqtt, published, faults>>
    BY <1>7 DEF vars
  <2>2. Room' <=> Room
    BY <2>1 DEF Room, Counting, Due, Lost
  <2> QED BY <1>2, <2>1, <2>2 DEF Calm, WholeParts, Has
<1> QED BY <1>3, <1>4, <1>5, <1>6, <1>7 DEF Next

\* huawei_cloud_thread_entry, with a module that answers before the thread's
\* timeouts and delays end and starts with the board, publishes nothing but whole
\* reports: no AT command is swallowed into a payload and no report goes astray,
\* through any disconnects and resets whose texts uart4_recived_data has room for
\* between its clearing and the prompt.
THEOREM OnlyReports == RoomAssumed => (Spec => []OnlyWholeReports)
<1> SUFFICES ASSUME RoomAssumed PROVE Spec => []OnlyWholeReports
    OBVIOUS
<1>1. Init => CloudInv
  BY InitTyped, InitFresh, InitTimely, InitWhole DEF CloudInv
<1>2. CloudInv /\ [Next]_vars => CloudInv'
  BY NextTyped, NextFresh, NextTimely, NextWhole DEF CloudInv
<1>3. CloudInv => OnlyWholeReports
  BY DEF CloudInv, WholeInv, WholeParts, OnlyWholeReports
<1> QED BY <1>1, <1>2, <1>3, PTL DEF Spec
=============================================================================
