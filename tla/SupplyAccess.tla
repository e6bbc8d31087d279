---------------------------- MODULE SupplyAccess ----------------------------
(***************************************************************************)
(* How users read and set the power supply: the SCPI commands              *)
(* (riden_scpi.cpp) and the web pages (riden_http_server.cpp), both by way *)
(* of the register accessors of riden_modbus.cpp.                          *)
(*                                                                         *)
(* One transaction on the link is one step.  loop() runs one command or    *)
(* request at a time, but the supply goes on measuring, and its front      *)
(* panel may be used, between any two transactions of a request.  What a   *)
(* transaction does is RidenBus in short: it may be carried out without    *)
(* the caller hearing of it, and with a supply that refuses nothing, a     *)
(* caller that hears of success has its data (SuccessfulCallsAreDone).     *)
(*                                                                         *)
(* Operators marked "Fault:" are wrong versions of the operator that       *)
(* follows them; no other definition uses them.  They stand for mistakes   *)
(* in the code that a property of this module must catch.                  *)
(***************************************************************************)
EXTENDS RidenRegisters, Sequences

CONSTANTS SupplyId,     \* the identification of the supply
          Contents,     \* what its registers hold at first
          Amounts,      \* voltages and currents users ask for, see Fine
          Choices,      \* presets, brightness levels and languages they ask for
          Dates, Times, \* dates and times they ask for
          Changing,     \* fields the supply or its front panel may change
          MaxChanges    \* bound: how often the supply's registers change

ASSUME SupplyAssumption ==
    /\ Known(SupplyId)
    /\ Contents \in [Registers -> Word]
    /\ Amounts \subseteq Int /\ Choices \subseteq Int
    /\ Dates \subseteq [1 .. 3 -> Nat] /\ Times \subseteq [1 .. 3 -> Nat]
    /\ Changing \subseteq Fields \ {"Preset", "Language", "Brightness"}
    /\ MaxChanges \in Nat

\* The supply comes in a state it has: its preset, brightness, language and output.
ASSUME LegalContents ==
    /\ Contents[First("Preset")] \in 1 .. 9
    /\ Contents[First("Brightness")] \in 0 .. 5
    /\ Contents[First("Language")] \in 0 .. 4
    /\ Contents[First("Output")] \in {0, 1}

VARIABLES
    regs,       \* the supply's registers
    changes,    \* how often they have changed
    job,        \* the request under way
    values,     \* get_all_values(): the registers read so far
    reply,      \* what the last command or request was answered, if it was
    asked,      \* history: what each setting was last set to, if it still is
    during      \* history: what each field has been during the present readout

vars == <<regs, changes, job, values, reply, asked, during>>

Nothing == <<>>
NoReadout == [f \in Fields |-> {}]
Nobody == [to |-> "nobody"]
Idle == [op |-> "idle"]
Refused == [to |-> "refused"]
Failed == [to |-> "failed"]

\* Settings, by the name of the SCPI command, and their first registers.
\* Fault: the limits of M1 are set.
RegisterOfM1 ==
    [SourceVoltage |-> First("VoltageSet"), SourceCurrent |-> First("CurrentSet"),
     SourceVoltageLimit |-> First("M1") + 2, SourceCurrentLimit |-> First("M1") + 3,
     OutputState |-> First("Output"), SystemBeeperState |-> First("Buzzer"),
     Rcl |-> First("Preset"), DisplayBrightness |-> First("Brightness"),
     DisplayLanguage |-> First("Language"),
     SystemDate |-> First("Date"), SystemTime |-> First("Time")]
Register ==
    [SourceVoltage |-> First("VoltageSet"), SourceCurrent |-> First("CurrentSet"),
     SourceVoltageLimit |-> First("M0") + 2, SourceCurrentLimit |-> First("M0") + 3,
     OutputState |-> First("Output"), SystemBeeperState |-> First("Buzzer"),
     Rcl |-> First("Preset"), DisplayBrightness |-> First("Brightness"),
     DisplayLanguage |-> First("Language"),
     SystemDate |-> First("Date"), SystemTime |-> First("Time")]

Settings == DOMAIN Register
Numbers == {"SourceVoltage", "SourceCurrent", "SourceVoltageLimit", "SourceCurrentLimit"}
Switches == {"OutputState", "SystemBeeperState"}
ChoiceCommands == {"Rcl", "DisplayBrightness", "DisplayLanguage"}
ClockCommands == {"SystemDate", "SystemTime"}

Volts == {"SourceVoltage", "SourceVoltageLimit"}
Multi(c) == IF c \in Volts THEN TypeOf(SupplyId).v ELSE TypeOf(SupplyId).i

Init ==
    /\ regs = Contents /\ changes = 0
    /\ job = Idle /\ values = Nothing /\ reply = Nobody
    /\ asked = [c \in Settings |-> Nothing]
    /\ during = NoReadout

-----------------------------------------------------------------------------
(* Transactions.                                                           *)

\* "done": carried out, and the caller hears of it; "unheard": carried out,
\* the answer is lost or late; "lost": not carried out.
Outcomes == {"done", "unheard", "lost"}

Overwrite(first, words) ==
    [r \in Registers |-> IF r \in first .. first + Len(words) - 1
                         THEN words[r - first + 1] ELSE regs[r]]

Change == changes < MaxChanges /\ changes' = changes + 1

\* write_holding_register(s): setting c is given words, for a user who asked for v.
Write(c, v, first, words, outcome) ==
    /\ regs' = IF outcome = "lost" THEN regs ELSE Overwrite(first, words)
    /\ asked' = [asked EXCEPT ![c] = IF outcome = "done" THEN <<v>> ELSE Nothing]

\* The handlers' last lines: SCPI_RES_OK, or SCPI_ERROR_COMMAND.
Acknowledge(c, outcome) ==
    reply' = IF outcome = "done" THEN [to |-> c] ELSE Failed

-----------------------------------------------------------------------------
(* The supply: measurements, and the front panel.                          *)

\* The supply measures; its front panel switches the output and changes
\* settings; and recalling a preset changes the set values.
Changed(f, r) == IF f = "Output" THEN 1 - regs[r] ELSE (regs[r] + 1) % 65536

Drift(f) ==
    /\ Change
    /\ regs' = [r \in Registers |-> IF r \in RegistersOf(f) THEN Changed(f, r) ELSE regs[r]]
    /\ asked' = [c \in Settings |-> IF Register[c] \in RegistersOf(f) THEN Nothing ELSE asked[c]]
    /\ during' = IF job.op = "read"
                 THEN [g \in Fields |-> during[g] \cup {Content(regs', g)}] ELSE during
    /\ UNCHANGED <<job, values, reply>>

-----------------------------------------------------------------------------
(* SCPI: setting.                                                          *)

Free == job = Idle /\ UNCHANGED job /\ values' = Nothing /\ during' = NoReadout
Refuse == reply' = Refused /\ UNCHANGED <<regs, changes, asked>>

Units == {"none", "volt", "ampere", "other"}
UnitOf(c) == IF c \in Volts THEN "volt" ELSE "ampere"

\* A voltage or a current.  handle_set_v() and handle_set_i() are this with no
\* unit; text that is no number counts as zero there.
SetNumber(c, unit, q) ==
    /\ Free
    /\ IF unit \notin {"none", UnitOf(c)} THEN Refuse
       ELSE \E outcome \in Outcomes, word \in Converted(q, Multi(c)) :
                /\ Change /\ Write(c, q, Register[c], <<word>>, outcome)
                /\ Acknowledge(c, outcome)

\* Fault: the number of presets itself is compared.
LegalOrZero(c, v) ==
    CASE c = "Rcl" -> 0 <= v /\ v <= NumberOfPresets
      [] c = "DisplayBrightness" -> 0 <= v /\ v <= 5
      [] c = "DisplayLanguage" -> 0 <= v /\ v <= 4
Legal(c, v) ==
    CASE c = "Rcl" -> v >= 1 /\ v - 1 < NumberOfPresets
      [] c = "DisplayBrightness" -> 0 <= v /\ v <= 5
      [] c = "DisplayLanguage" -> 0 <= v /\ v <= 4

\* A preset, a brightness level or a language.
SetChoice(c, v) ==
    /\ Free
    /\ IF ~Legal(c, v) THEN Refuse
       ELSE \E outcome \in Outcomes :
                /\ Change /\ Write(c, v, Register[c], <<v>>, outcome)
                /\ Acknowledge(c, outcome)

\* The output and the beeper.
SetSwitch(c, on) ==
    /\ Free
    /\ \E outcome \in Outcomes :
           /\ Change /\ Write(c, on, Register[c], <<on>>, outcome)
           /\ Acknowledge(c, outcome)

\* The date or the time, with no check but the width of set_date()'s and
\* set_time()'s parameters, which cut what does not fit.
ParameterSize(c) == IF c = "SystemDate" THEN 65536 ELSE 256
SetClock(c, parts) ==
    /\ Free
    /\ \E outcome \in Outcomes :
           /\ Change
           /\ Write(c, parts, Register[c],
                    [i \in 1 .. 3 |-> parts[i] % ParameterSize(c)], outcome)
           /\ Acknowledge(c, outcome)

-----------------------------------------------------------------------------
(* SCPI: asking.                                                           *)

\* What each question reads.
SystemQuestions ==
    [DisplayBrightnessQ |-> "Brightness", DisplayLanguageQ |-> "Language",
     SystemDateQ |-> "Date", SystemTimeQ |-> "Time",
     OutputStateQ |-> "Output", OutputModeQ |-> "OutputMode", SystemBeeperStateQ |-> "Buzzer"]
SourceQuestions ==
    [SourceVoltageQ |-> "VoltageSet", SourceCurrentQ |-> "CurrentSet",
     SourceVoltageProtectionTrippedQ |-> "Protection",
     SourceCurrentProtectionTrippedQ |-> "Protection"]
MeasureQuestions ==
    [MeasureVoltageQ |-> "VoltageOut", MeasureCurrentQ |-> "CurrentOut",
     MeasurePowerQ |-> "PowerOut",
     MeasureSystemTemperatureQ |-> "SystemTemperatureCelsius",
     MeasureProbeTemperatureQ |-> "ProbeTemperatureCelsius"]
Questions == DOMAIN SystemQuestions \cup DOMAIN SourceQuestions \cup DOMAIN MeasureQuestions
AskedField ==
    [question \in Questions |->
        CASE question \in DOMAIN SystemQuestions -> SystemQuestions[question]
          [] question \in DOMAIN SourceQuestions -> SourceQuestions[question]
          [] question \in DOMAIN MeasureQuestions -> MeasureQuestions[question]]

\* A question is answered by one transaction, or with an error.
Ask(question) ==
    /\ Free
    /\ reply' \in {[to |-> question, words |-> Content(regs, AskedField[question])], Failed}
    /\ UNCHANGED <<regs, changes, asked>>

-----------------------------------------------------------------------------
(* The web pages.                                                          *)

\* handle_status_get() and handle_psu_get(): the start of get_all_values().
StartReadout(subset) ==
    /\ job' = [op |-> "read", subset |-> subset, next |-> 0]
    /\ values' = Nothing
    /\ during' = [f \in Fields |-> {Content(regs', f)}]
    /\ reply' = Nobody

StatusGet == job = Idle /\ UNCHANGED <<regs, changes, asked>> /\ StartReadout(TRUE)
PsuGet == job = Idle /\ UNCHANGED <<regs, changes, asked>> /\ StartReadout(FALSE)

GiveUp == /\ job' = Idle /\ values' = Nothing /\ during' = NoReadout
          /\ reply' = Failed

\* What values[] holds of a register that was not read.
Unread == 70000

Report(read, subset) ==
    LET word(r) == IF r \in DOMAIN read THEN read[r] ELSE Unread
    IN  [f \in ReportedFields(subset) |-> [p \in 1 .. Width(f) |-> word(Look(f) + p - 1)]]

\* One turn of get_all_values()'s loop, and the report after the last.
ReadChunk ==
    /\ job.op = "read"
    /\ LET chunk == Chunk(job.next, job.subset)
           next == job.next + ChunkSize
       IN  /\ values' = [r \in DOMAIN values \cup chunk |->
                             IF r \in chunk THEN regs[r] ELSE values[r]]
           /\ IF next < Total(job.subset)
              THEN job' = [job EXCEPT !.next = next] /\ UNCHANGED reply
              ELSE job' = Idle /\ reply' = [to |-> "readout", report |-> Report(values', job.subset)]
    /\ UNCHANGED <<regs, changes, asked, during>>

ReadFails == job.op = "read" /\ GiveUp /\ UNCHANGED <<regs, changes, asked>>

\* handle_toggle_out(): a state that cannot be read counts as off.
ToggleOut ==
    /\ job = Idle /\ Change
    /\ job' \in {[op |-> "switch", on |-> regs[First("Output")] # 0], [op |-> "switch", on |-> FALSE]}
    /\ values' = Nothing /\ during' = NoReadout /\ reply' = Nobody
    /\ UNCHANGED <<regs, asked>>

ToggleSwitch ==
    /\ job.op = "switch"
    /\ \E outcome \in Outcomes :
           LET on == IF job.on THEN 0 ELSE 1
           IN  /\ Write("OutputState", on, First("Output"), <<on>>, outcome)
               /\ UNCHANGED changes
               /\ IF outcome = "done" THEN StartReadout(TRUE) ELSE GiveUp

-----------------------------------------------------------------------------
Scpi == \/ \E c \in Numbers, unit \in Units, q \in Amounts : SetNumber(c, unit, q)
        \/ \E c \in ChoiceCommands, v \in Choices : SetChoice(c, v)
        \/ \E c \in Switches, on \in {0, 1} : SetSwitch(c, on)
        \/ \E date \in Dates : SetClock("SystemDate", date)
        \/ \E time \in Times : SetClock("SystemTime", time)
        \/ \E question \in Questions : Ask(question)
Web == StatusGet \/ PsuGet \/ ReadChunk \/ ReadFails \/ ToggleOut \/ ToggleSwitch
Next == Scpi \/ Web \/ \E f \in Changing : Drift(f)

Spec == Init /\ [][Next]_vars

-----------------------------------------------------------------------------
(* Properties.                                                             *)

\* The question that reads back what a command sets.
Question ==
    [SourceVoltage |-> "SourceVoltageQ", SourceCurrent |-> "SourceCurrentQ",
     OutputState |-> "OutputStateQ", SystemBeeperState |-> "SystemBeeperStateQ",
     DisplayBrightness |-> "DisplayBrightnessQ", DisplayLanguage |-> "DisplayLanguageQ",
     SystemDate |-> "SystemDateQ", SystemTime |-> "SystemTimeQ"]

\* Every variable keeps to its values: registers hold 16 bits, and a readout
\* answers with words that were read, every one of them.
TypeOK ==
    /\ regs \in [Registers -> Word]
    /\ changes \in 0 .. MaxChanges
    /\ \/ job = Idle
       \/ job \in [op : {"switch"}, on : BOOLEAN]
       \/ job \in [op : {"read"}, subset : BOOLEAN, next : {ChunkSize * i : i \in 0 .. 5}]
    /\ DOMAIN values \subseteq Registers /\ \A r \in DOMAIN values : values[r] \in Word
    /\ \/ reply \in {Nobody, Refused, Failed} \cup [to : Settings]
       \/ /\ reply.to \in Questions
          /\ reply.words \in [1 .. Width(AskedField[reply.to]) -> Word]
       \/ /\ reply.to = "readout"
          /\ \E subset \in BOOLEAN : DOMAIN reply.report = ReportedFields(subset)
          /\ \A f \in DOMAIN reply.report : reply.report[f] \in [1 .. Width(f) -> Word]
    /\ DOMAIN asked = Settings
    /\ DOMAIN during = Fields

\* A report of the web pages is true of every field: what it says of power,
\* energy, a temperature, the date, the time or a preset, which are several
\* words each, the supply held at one moment of the readout, although the
\* readout takes several transactions.  The calibration lies across two of
\* them and is true word by word only.
ReportsAreTrue ==
    reply.to = "readout" /\ job = Idle =>
        /\ \A f \in DOMAIN reply.report \ {"Calibration"} : reply.report[f] \in during[f]
        /\ "Calibration" \in DOMAIN reply.report =>
               \A p \in 1 .. Width("Calibration") :
                   \E words \in during["Calibration"] :
                       reply.report["Calibration"][p] = words[p]

\* word is what q comes to, or one count less.
WithinOneCount(c, q, word) ==
    LET short == q * Multi(c) - word * Fine IN 0 <= short /\ short <= Fine

Holds(c, v, words) ==
    CASE c \in Numbers -> Fits(v, Multi(c)) => WithinOneCount(c, v, words[1])
      [] c \in Switches \cup ChoiceCommands -> words[1] = v
      [] c \in ClockCommands -> \A i \in 1 .. 3 : v[i] < ParameterSize(c) => words[i] = v[i]

\* A setting that was acknowledged, and nobody has changed since, is read back
\* as it was asked for; a voltage or current is never above what was asked for,
\* and at most one count below.  The limits, which nobody can ask for, are those
\* of the set values in use, M0.
SetThenRead ==
    \A c \in Settings : asked[c] # Nothing =>
        /\ c \in DOMAIN Question /\ reply.to = Question[c] =>
               Holds(c, asked[c][1], reply.words)
        /\ c = "SourceVoltageLimit" => Holds(c, asked[c][1], <<Content(regs, "M0")[3]>>)
        /\ c = "SourceCurrentLimit" => Holds(c, asked[c][1], <<Content(regs, "M0")[4]>>)

\* No command puts the supply into a setting it does not have: a preset but
\* M1 to M9, a brightness above 5, a language above 4, also with a parameter
\* that would come to a legal one in eight bits.
SettingsStayLegal ==
    /\ regs[First("Preset")] \in 1 .. 9
    /\ regs[First("Brightness")] \in 0 .. 5
    /\ regs[First("Language")] \in 0 .. 4

\* "Set the output voltage" (SCPI_COMMANDS.md:89): a voltage the supply can
\* be set to, acknowledged, is the one read back.
SetIsExact ==
    LET c == "SourceVoltage" IN
    asked[c] # Nothing /\ reply.to = Question[c] =>
        LET q == asked[c][1] IN
        Fits(q, Multi(c)) /\ (q * Multi(c)) % Fine = 0 =>
            reply.words[1] * Fine = q * Multi(c)
=============================================================================
