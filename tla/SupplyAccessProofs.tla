------------------------- MODULE SupplyAccessProofs -------------------------
(***************************************************************************)
(* Proofs about SupplyAccess: which settings the supply can be in, what a  *)
(* report of the web pages is true of, and what a setting is read back as, *)
(* for all supplies, contents, amounts, choices, dates and bounds.         *)
(***************************************************************************)
EXTENDS SupplyAccess, TLAPS

-----------------------------------------------------------------------------
(* The registers.                                                          *)

LEMMA Spans ==
    \A f \in Fields : /\ First(f) \in Nat /\ Width(f) \in 1 .. 8
                      /\ First(f) + Width(f) <= 120
BY DEF Fields, Span, First, Width

\* The three settings with a legal range lie in no other field.
LEMMA FieldsApart ==
    \A f \in Fields \ {"Preset", "Brightness", "Language"} :
        {19, 71, 72} \cap RegistersOf(f) = {}
BY DEF Fields, Span, RegistersOf, First, Width

LEMMA LegalPlaces == First("Preset") = 19 /\ First("Brightness") = 72 /\ First("Language") = 71
BY DEF Span, First

LEMMA OtherPlaces ==
    /\ First("VoltageSet") = 8 /\ First("CurrentSet") = 9 /\ First("Output") = 18
    /\ First("Buzzer") = 69 /\ First("M0") = 80 /\ First("Date") = 48 /\ First("Time") = 51
BY DEF Span, First

LEMMA SettingPlaces ==
    /\ Settings = Numbers \cup Switches \cup ChoiceCommands \cup ClockCommands
    /\ \A c \in Numbers \cup Switches : Register[c] \in {8, 9, 18, 69, 82, 83}
    /\ Register["Rcl"] = 19 /\ Register["DisplayBrightness"] = 72 /\ Register["DisplayLanguage"] = 71
    /\ Register["SystemDate"] = 48 /\ Register["SystemTime"] = 51
BY LegalPlaces, OtherPlaces
   DEF Settings, Register, Numbers, Switches, ChoiceCommands, ClockCommands

\* Where a readout may stand between two transactions.
Marks == {0, 20, 40, 60, 80, 100}

\* No field but the calibration lies across the end of a transaction.
LEMMA OneTransaction ==
    \A f \in Fields \ {"Calibration"}, n \in Marks :
        n <= First(f) \/ First(f) + Width(f) <= n
BY DEF Fields, Span, First, Width, Marks

LEMMA CalibrationIsField == "Calibration" \in Fields \ SubsetFields
BY DEF Fields, Span, SubsetFields

LEMMA InSubset == \A f \in SubsetFields : f \in Fields /\ First(f) + Width(f) <= 43
BY DEF Fields, Span, First, Width, SubsetFields

LEMMA PresetPlaces ==
    \A i \in 1 .. 9 : Presets[i] \in Fields /\ First(Presets[i]) = 80 + 4 * i
BY DEF Fields, Span, First, Presets

\* A report takes a field from where the field is, and all it reports of is read.
LEMMA Reported ==
    ASSUME NEW subset \in BOOLEAN, NEW f \in ReportedFields(subset)
    PROVE  /\ f \in Fields
           /\ Look(f) = First(f)
           /\ First(f) + Width(f) <= Total(subset)
<1>1. ReportedFields(subset) \subseteq Fields
  <2>1. OptionFields \subseteq Fields
    BY DEF Fields, Span, OptionFields
  <2>2. QED
    BY <2>1, InSubset, PresetPlaces DEF ReportedFields, PresetFields, NumberOfPresets
<1>2. Look(f) = First(f)
  <2>1. CASE f \notin PresetFields
    BY <2>1 DEF Look
  <2>2. CASE f \in PresetFields
    <3>1. PICK i \in 1 .. 9 : Presets[i] = f
      BY <2>2 DEF PresetFields, NumberOfPresets
    <3>2. \A j \in 1 .. 9 : Presets[j] = f => 80 + 4 * j = 80 + 4 * i
      BY <3>1, PresetPlaces
    <3>3. (CHOOSE j \in 1 .. 9 : Presets[j] = f) = i
      BY <3>1, <3>2
    <3>4. QED
      BY <2>2, <3>1, <3>3, PresetPlaces, OtherPlaces DEF Look, NumberOfPresets
  <2>3. QED
    BY <2>1, <2>2
<1>3. First(f) + Width(f) <= Total(subset)
  <2>1. First("M9") = 116
    BY DEF Span, First
  <2>2. CASE subset
    BY <2>2, InSubset DEF ReportedFields, Total, SubsetEnd
  <2>3. CASE ~subset
    BY <1>1, <2>1, <2>3, Spans DEF Total, LastRegister
  <2>4. QED
    BY <2>2, <2>3
<1>4. QED
  BY <1>1, <1>2, <1>3

-----------------------------------------------------------------------------
(* Settings stay legal.                                                    *)

\* A write that does not reach the three registers leaves them legal.
LEMMA ElsewhereIsLegal ==
    ASSUME SettingsStayLegal, NEW first, NEW words,
           regs' = regs \/ regs' = Overwrite(first, words),
           \A r \in {19, 71, 72} : r \notin first .. first + Len(words) - 1
    PROVE  SettingsStayLegal'
<1>1. \A r \in {19, 71, 72} : Overwrite(first, words)[r] = regs[r]
  <2> DEFINE written == first .. first + Len(words) - 1
  <2>1. \A r \in {19, 71, 72} : r \in Registers /\ r \notin written
    BY DEF Registers
  <2>2. Overwrite(first, words) =
            [r \in Registers |-> IF r \in written THEN words[r - first + 1] ELSE regs[r]]
    BY DEF Overwrite
  <2> HIDE DEF written
  <2>3. QED
    BY <2>1, <2>2
<1>2. \A r \in {19, 71, 72} : regs'[r] = regs[r]
  BY <1>1
<1>3. QED
  BY <1>2, LegalPlaces DEF SettingsStayLegal

LEMMA SettingsLegalStep ==
    SettingsStayLegal /\ [Next]_vars => SettingsStayLegal'
<1> SUFFICES ASSUME SettingsStayLegal, [Next]_vars
             PROVE  SettingsStayLegal'
  OBVIOUS
<1>0. ASSUME UNCHANGED regs
      PROVE  SettingsStayLegal'
  BY <1>0 DEF SettingsStayLegal
<1>1. ASSUME NEW c \in Numbers, NEW unit \in Units, NEW q \in Amounts, SetNumber(c, unit, q)
      PROVE  SettingsStayLegal'
  <2>1. CASE Refuse
    BY <2>1, <1>0 DEF Refuse
  <2>2. ASSUME NEW outcome \in Outcomes, NEW word, Write(c, q, Register[c], <<word>>, outcome)
        PROVE  SettingsStayLegal'
    <3>1. Register[c] \in {8, 9, 18, 69, 82, 83}
      BY SettingPlaces
    <3>2. \A r \in {19, 71, 72} : r \notin Register[c] .. Register[c] + Len(<<word>>) - 1
      BY <3>1
    <3>3. regs' = regs \/ regs' = Overwrite(Register[c], <<word>>)
      BY <2>2 DEF Write
    <3>4. QED
      BY <3>2, <3>3, ElsewhereIsLegal
  <2>3. QED
    BY <1>1, <2>1, <2>2 DEF SetNumber
<1>2. ASSUME NEW c \in ChoiceCommands, NEW v \in Choices, SetChoice(c, v)
      PROVE  SettingsStayLegal'
  <2>1. CASE Refuse
    BY <2>1, <1>0 DEF Refuse
  <2>2. ASSUME Legal(c, v), NEW outcome \in Outcomes, Write(c, v, Register[c], <<v>>, outcome)
        PROVE  SettingsStayLegal'
    <3>1. v \in Int
      BY SupplyAssumption
    <3>2. /\ c = "Rcl" => v \in 1 .. 9
          /\ c = "DisplayBrightness" => v \in 0 .. 5
          /\ c = "DisplayLanguage" => v \in 0 .. 4
      <4>1. Legal("Rcl", v) => v >= 1 /\ v - 1 < 9
        BY DEF Legal, NumberOfPresets
      <4>2. Legal("DisplayBrightness", v) => 0 <= v /\ v <= 5
        BY DEF Legal
      <4>3. Legal("DisplayLanguage", v) => 0 <= v /\ v <= 4
        BY DEF Legal
      <4>4. QED
        BY <2>2, <3>1, <4>1, <4>2, <4>3
    <3>3. Register[c] \in {19, 71, 72}
      BY SettingPlaces DEF ChoiceCommands
    <3>4. \A r \in Register[c] .. Register[c] + Len(<<v>>) - 1 : r = Register[c]
      BY <3>3
    <3>5. \A r \in {19, 71, 72} :
              Overwrite(Register[c], <<v>>)[r] = IF r = Register[c] THEN v ELSE regs[r]
      BY <3>3, <3>4 DEF Overwrite, Registers
    <3>6. regs' = regs \/ \A r \in {19, 71, 72} : regs'[r] = IF r = Register[c] THEN v ELSE regs[r]
      BY <2>2, <3>5 DEF Write
    <3>7. QED
      BY <3>2, <3>6, SettingPlaces, LegalPlaces DEF ChoiceCommands, SettingsStayLegal
  <2>3. QED
    BY <1>2, <2>1, <2>2 DEF SetChoice
<1>3. ASSUME NEW c \in Switches, NEW on \in {0, 1}, SetSwitch(c, on)
      PROVE  SettingsStayLegal'
  <2>1. PICK outcome \in Outcomes : Write(c, on, Register[c], <<on>>, outcome)
    BY <1>3 DEF SetSwitch
  <2>2. Register[c] \in {8, 9, 18, 69, 82, 83}
    BY SettingPlaces
  <2>3. \A r \in {19, 71, 72} : r \notin Register[c] .. Register[c] + Len(<<on>>) - 1
    BY <2>2
  <2>4. regs' = regs \/ regs' = Overwrite(Register[c], <<on>>)
    BY <2>1 DEF Write
  <2>5. QED
    BY <2>3, <2>4, ElsewhereIsLegal
<1>4. ASSUME NEW c \in ClockCommands, NEW parts, SetClock(c, parts)
      PROVE  SettingsStayLegal'
  <2> DEFINE words == [i \in 1 .. 3 |-> parts[i] % ParameterSize(c)]
  <2>1. PICK outcome \in Outcomes : Write(c, parts, Register[c], words, outcome)
    BY <1>4 DEF SetClock
  <2>2. Register[c] \in {48, 51}
    BY SettingPlaces DEF ClockCommands
  <2>3. Len(words) = 3
    OBVIOUS
  <2> HIDE DEF words
  <2>4. \A r \in {19, 71, 72} : r \notin Register[c] .. Register[c] + Len(words) - 1
    BY <2>2, <2>3
  <2>5. regs' = regs \/ regs' = Overwrite(Register[c], words)
    BY <2>1 DEF Write
  <2>6. QED
    BY <2>4, <2>5, ElsewhereIsLegal
<1>5. ASSUME ToggleSwitch
      PROVE  SettingsStayLegal'
  <2>1. PICK outcome \in Outcomes, on \in {0, 1} :
            Write("OutputState", on, First("Output"), <<on>>, outcome)
    BY <1>5 DEF ToggleSwitch
  <2>2. \A r \in {19, 71, 72} : r \notin First("Output") .. First("Output") + Len(<<on>>) - 1
    BY OtherPlaces
  <2>3. regs' = regs \/ regs' = Overwrite(First("Output"), <<on>>)
    BY <2>1 DEF Write
  <2>4. QED
    BY <2>2, <2>3, ElsewhereIsLegal
<1>6. ASSUME NEW f \in Changing, Drift(f)
      PROVE  SettingsStayLegal'
  <2>1. {19, 71, 72} \cap RegistersOf(f) = {}
    BY FieldsApart, SupplyAssumption
  <2>2. QED
    BY <1>6, <2>1, LegalPlaces DEF Drift, SettingsStayLegal, Registers
<1>7. CASE \E question \in Questions : Ask(question)
  BY <1>7, <1>0 DEF Ask
<1>8. CASE StatusGet \/ PsuGet \/ ReadChunk \/ ReadFails \/ ToggleOut
  BY <1>8, <1>0 DEF StatusGet, PsuGet, ReadChunk, ReadFails, ToggleOut
<1>9. CASE UNCHANGED vars
  BY <1>9, <1>0 DEF vars
<1>10. QED
  BY <1>1, <1>2, <1>3, <1>4, <1>5, <1>6, <1>7, <1>8, <1>9 DEF Next, Scpi, Web, ClockCommands

\* Whatever the users ask for and however their requests end, the supply is in
\* a setting it has: handle_preset(), handle_brightness() and handle_language()
\* refuse the others, and no other command writes those registers.
THEOREM SettingsLegal == Spec => []SettingsStayLegal
<1>1. Init => SettingsStayLegal
  BY LegalContents DEF Init, SettingsStayLegal
<1>2. QED
  BY <1>1, SettingsLegalStep, PTL DEF Spec

-----------------------------------------------------------------------------
(* Reports are true.                                                       *)

\* During a readout: where it stands, the registers it has read, and that
\* "during" keeps up with the supply.
Standing ==
    /\ job = [op |-> "read", subset |-> job.subset, next |-> job.next]
    /\ job.subset \in BOOLEAN
    /\ job.next \in Marks /\ job.next < Total(job.subset)
    /\ DOMAIN values = {r \in Registers : r < job.next}
    /\ \A f \in Fields : Content(regs, f) \in during[f]

\* What has been read of every field, if it has been read.
ReadSoFar ==
    /\ \A f \in Fields \ {"Calibration"} :
           First(f) + Width(f) <= job.next => Content(values, f) \in during[f]
    /\ \A p \in 1 .. Width("Calibration") :
           First("Calibration") + p - 1 < job.next =>
               \E words \in during["Calibration"] :
                   values[First("Calibration") + p - 1] = words[p]

ReadInv == job.op = "read" => Standing /\ ReadSoFar
RInv == ReadInv /\ ReportsAreTrue

LEMMA Totals == \A subset \in BOOLEAN : Total(subset) \in {43, 120}
<1>1. First("M9") = 116
  BY DEF Span, First
<1>2. QED
  BY <1>1 DEF Total, SubsetEnd, LastRegister

LEMMA NoReadoutName ==
    /\ "readout" \notin Settings
    /\ "readout" \notin Questions
    /\ Nobody.to # "readout" /\ Refused.to # "readout" /\ Failed.to # "readout"
    /\ Idle.op # "read"
BY SettingPlaces
   DEF Numbers, Switches, ChoiceCommands, ClockCommands, Questions,
       SystemQuestions, SourceQuestions, MeasureQuestions, Nobody, Refused, Failed, Idle

\* A request that leaves no readout and no report.
LEMMA NoReport ==
    ASSUME job'.op # "read", reply'.to # "readout"
    PROVE  RInv'
BY DEF RInv, ReadInv, ReportsAreTrue

LEMMA ReadoutStarts ==
    ASSUME NEW subset \in BOOLEAN, StartReadout(subset)
    PROVE  RInv'
<1>1. /\ job' = [op |-> "read", subset |-> subset, next |-> 0]
      /\ values' = <<>>
      /\ \A f \in Fields : Content(regs, f)' \in during'[f]
      /\ reply' = Nobody
  BY DEF StartReadout, Nothing, Content, Words
<1>2. 0 \in Marks /\ 0 < Total(subset)
  BY Totals DEF Marks
<1>3. {r \in Registers : r < 0} = {}
  BY DEF Registers
<1>4. Standing'
  BY <1>1, <1>2, <1>3 DEF Standing
<1>5. ReadSoFar'
  <2>1. \A f \in Fields : ~(First(f) + Width(f) <= 0)
    BY Spans
  <2>2. \A p \in 1 .. Width("Calibration") : ~(First("Calibration") + p - 1 < 0)
    BY Spans, CalibrationIsField
  <2>3. QED
    BY <1>1, <2>1, <2>2 DEF ReadSoFar
<1>6. ReportsAreTrue'
  BY <1>1, NoReadoutName DEF ReportsAreTrue
<1>7. QED
  BY <1>4, <1>5, <1>6 DEF RInv, ReadInv

\* One turn of the loop reads the fields whose registers are next, whole, and
\* leaves what was read before.
LEMMA ChunkIsRead ==
    ASSUME RInv, ReadChunk
    PROVE  \A n : n = job.next + 20 =>
           /\ DOMAIN values' = {r \in Registers : r < n /\ r < Total(job.subset)}
           /\ \A f \in Fields \ {"Calibration"} :
                  First(f) + Width(f) <= n /\ First(f) + Width(f) <= Total(job.subset)
                  => Content(values', f) \in during[f]
           /\ \A p \in 1 .. Width("Calibration") :
                  First("Calibration") + p - 1 < n
                  /\ First("Calibration") + p - 1 < Total(job.subset) =>
                      \E words \in during["Calibration"] :
                          values'[First("Calibration") + p - 1] = words[p]
<1> DEFINE next == job.next
           total == Total(job.subset)
           chunk == Chunk(next, job.subset)
<1>1. Standing /\ ReadSoFar
  BY DEF RInv, ReadInv, ReadChunk
<1>2. next \in Marks /\ next \in 0 .. 100 /\ next < total /\ total \in {43, 120}
  BY <1>1, Totals DEF Standing, Marks
<1>3. DOMAIN values = {r \in Registers : r < next}
  BY <1>1 DEF Standing
<1>4. values' = [r \in DOMAIN values \cup chunk |-> IF r \in chunk THEN regs[r] ELSE values[r]]
  BY DEF ReadChunk
<1>5. chunk = {r \in next .. next + 19 : r < total}
  BY <1>2 DEF Chunk, ChunkSize
<1>6. \A f \in Fields : Content(regs, f) \in during[f]
  BY <1>1 DEF Standing
<1>7. /\ \A f \in Fields \ {"Calibration"} :
             First(f) + Width(f) <= next => Content(values, f) \in during[f]
      /\ \A p \in 1 .. Width("Calibration") :
             First("Calibration") + p - 1 < next =>
                 \E words \in during["Calibration"] :
                     values[First("Calibration") + p - 1] = words[p]
  BY <1>1 DEF ReadSoFar
<1> HIDE DEF next, total, chunk
<1>8. \A r \in Registers : r < next => values'[r] = values[r]
  BY <1>2, <1>3, <1>4, <1>5
<1>9. \A r \in Registers : next <= r /\ r < next + 20 /\ r < total => values'[r] = regs[r]
  BY <1>2, <1>4, <1>5 DEF Registers
<1>10. DOMAIN values' = {r \in Registers : r < next + 20 /\ r < total}
  BY <1>2, <1>3, <1>4, <1>5 DEF Registers
<1>11. ASSUME NEW f \in Fields \ {"Calibration"},
              First(f) + Width(f) <= next + 20, First(f) + Width(f) <= total
       PROVE  Content(values', f) \in during[f]
  <2>0. /\ First(f) \in Nat /\ Width(f) \in 1 .. 8 /\ First(f) + Width(f) <= 120
        /\ RegistersOf(f) = First(f) .. First(f) + Width(f) - 1
    BY Spans DEF RegistersOf
  <2>01. \A p \in 1 .. Width(f) : First(f) + p - 1 \in RegistersOf(f)
    BY <2>0
  <2>02. \A r \in RegistersOf(f) :
            r \in Nat /\ First(f) <= r /\ r < First(f) + Width(f)
    BY <2>0
  <2>1. next <= First(f) \/ First(f) + Width(f) <= next
    BY <1>2, OneTransaction
  <2>2. CASE First(f) + Width(f) <= next
    <3>1. \A r \in RegistersOf(f) : r \in Registers /\ r < next
      <4>1. ASSUME NEW r \in RegistersOf(f)
            PROVE  r \in Registers /\ r < next
        <5>1. r \in Nat /\ r < First(f) + Width(f)
          BY <2>02
        <5>2. QED
          BY <1>2, <2>0, <2>2, <5>1 DEF Registers
      <4>2. QED
        BY <4>1
    <3>2. \A r \in RegistersOf(f) : values'[r] = values[r]
      BY <3>1, <1>8
    <3>3. \A p \in 1 .. Width(f) : values'[First(f) + p - 1] = values[First(f) + p - 1]
      BY <2>01, <3>2
    <3>4. Content(values', f) = Content(values, f)
      BY <3>3 DEF Content, Words
    <3>5. QED
      BY <1>7, <2>2, <3>4
  <2>3. CASE next <= First(f)
    <3>1. \A r \in RegistersOf(f) : r \in Registers /\ next <= r /\ r < next + 20 /\ r < total
      <4>1. ASSUME NEW r \in RegistersOf(f)
            PROVE  r \in Registers /\ next <= r /\ r < next + 20 /\ r < total
        <5>1. r \in Nat /\ First(f) <= r /\ r < First(f) + Width(f)
          BY <2>02
        <5> DEFINE from == First(f)
                   upto == First(f) + Width(f)
        <5>2. /\ from \in Nat /\ upto \in Nat /\ next \in Nat /\ total \in Nat
              /\ next <= from /\ upto <= next + 20 /\ upto <= 120 /\ upto <= total
              /\ from <= r /\ r < upto
          BY <1>2, <1>11, <2>0, <2>3, <5>1, SMTT(30)
        <5> HIDE DEF from, upto
        <5>3. next <= r /\ r < next + 20
          BY <5>1, <5>2
        <5>4. r < 120 /\ r < total
          BY <5>1, <5>2
        <5>5. QED
          BY <5>1, <5>3, <5>4 DEF Registers
      <4>2. QED
        BY <4>1
    <3>2. \A r \in RegistersOf(f) : values'[r] = regs[r]
      BY <3>1, <1>9
    <3>3. \A p \in 1 .. Width(f) : values'[First(f) + p - 1] = regs[First(f) + p - 1]
      BY <2>01, <3>2
    <3>4. Content(values', f) = Content(regs, f)
      BY <3>3 DEF Content, Words
    <3>5. QED
      BY <1>6, <3>4
  <2>4. QED
    BY <2>1, <2>2, <2>3
<1>12. ASSUME NEW p \in 1 .. Width("Calibration"),
              First("Calibration") + p - 1 < next + 20, First("Calibration") + p - 1 < total
       PROVE  \E words \in during["Calibration"] :
                  values'[First("Calibration") + p - 1] = words[p]
  <2> DEFINE r == First("Calibration") + p - 1
  <2>1. r \in Registers /\ r \in Nat
    BY Spans, CalibrationIsField DEF Registers
  <2>2. CASE r < next
    BY <1>7, <1>8, <2>1, <2>2
  <2>3. CASE next <= r
    <3>1. values'[r] = regs[r]
      BY <1>9, <1>12, <2>1, <2>3
    <3>2. Content(regs, "Calibration")[p] = regs[r]
      BY DEF Content, Words
    <3>3. QED
      BY <1>6, <3>1, <3>2, CalibrationIsField
  <2>4. QED
    BY <1>2, <2>1, <2>2, <2>3
<1>13. QED
  BY <1>10, <1>11, <1>12 DEF next, total

\* The report after the last turn of the loop is of registers that were read.
LEMMA ReportIsRead ==
    ASSUME RInv, ReadChunk, job'.op # "read"
    PROVE  /\ job' = Idle /\ job.subset \in BOOLEAN
           /\ reply' = [to |-> "readout", report |-> Report(values', job.subset)]
           /\ \A f \in ReportedFields(job.subset) :
                  /\ \A p \in 1 .. Width(f) : First(f) + p - 1 \in DOMAIN values'
                  /\ reply'.report[f] = Content(values', f)
<1> DEFINE n == job.next + 20
           subset == job.subset
<1>1. Standing
  BY DEF RInv, ReadInv, ReadChunk
<1>2. n \in Nat /\ subset \in BOOLEAN /\ Total(subset) \in {43, 120}
  BY <1>1, Totals DEF Standing, Marks
<1>3. DOMAIN values' = {r \in Registers : r < n /\ r < Total(subset)}
  BY ChunkIsRead
<1>4. job = [op |-> "read", subset |-> job.subset, next |-> job.next]
  BY <1>1 DEF Standing
<1>5. /\ ~(n < Total(subset)) /\ job' = Idle
      /\ reply' = [to |-> "readout", report |-> Report(values', subset)]
  <2>1. [job EXCEPT !.next = n].op = "read"
    BY <1>4
  <2>2. QED
    BY <2>1 DEF ReadChunk, ChunkSize
<1> HIDE DEF n, subset
<1>6. ASSUME NEW f \in ReportedFields(subset)
      PROVE  /\ \A p \in 1 .. Width(f) : First(f) + p - 1 \in DOMAIN values'
             /\ reply'.report[f] = Content(values', f)
  <2>1. f \in Fields /\ Look(f) = First(f) /\ First(f) + Width(f) <= Total(subset)
    BY <1>2, Reported
  <2>2. \A p \in 1 .. Width(f) : First(f) + p - 1 \in DOMAIN values'
    <3>1. ASSUME NEW p \in 1 .. Width(f)
          PROVE  First(f) + p - 1 \in Registers
                 /\ First(f) + p - 1 < n /\ First(f) + p - 1 < Total(subset)
      <4>1. First(f) \in Nat /\ Width(f) \in 1 .. 8 /\ p \in 1 .. 8 /\ p <= Width(f)
        BY <2>1, Spans
      <4>2. QED
        BY <1>2, <1>5, <2>1, <4>1 DEF Registers
    <3>2. QED
      BY <1>3, <3>1
  <2>3. reply'.report[f] = [p \in 1 .. Width(f) |->
            IF First(f) + p - 1 \in DOMAIN values' THEN values'[First(f) + p - 1] ELSE Unread]
    BY <1>5, <2>1 DEF Report
  <2>4. QED
    BY <2>2, <2>3 DEF Content, Words
<1>7. QED
  BY <1>2, <1>5, <1>6 DEF subset

LEMMA ChunkStep ==
    ASSUME RInv, ReadChunk
    PROVE  RInv'
<1> DEFINE n == job.next + 20
           subset == job.subset
<1>1. Standing /\ ReadSoFar
  BY DEF RInv, ReadInv, ReadChunk
<1>2. /\ job.next \in Marks /\ n \in Nat /\ subset \in BOOLEAN
      /\ job.next < Total(subset) /\ Total(subset) \in {43, 120}
  BY <1>1, Totals DEF Standing, Marks
<1>3. /\ DOMAIN values' = {r \in Registers : r < n /\ r < Total(subset)}
      /\ \A f \in Fields \ {"Calibration"} :
             First(f) + Width(f) <= n /\ First(f) + Width(f) <= Total(subset)
             => Content(values', f) \in during[f]
      /\ \A p \in 1 .. Width("Calibration") :
             First("Calibration") + p - 1 < n
             /\ First("Calibration") + p - 1 < Total(subset) =>
                 \E words \in during["Calibration"] :
                     values'[First("Calibration") + p - 1] = words[p]
  BY ChunkIsRead
<1>4. /\ regs' = regs /\ during' = during
      /\ \/ n < Total(subset) /\ job' = [job EXCEPT !.next = n] /\ reply' = reply
         \/ /\ ~(n < Total(subset)) /\ job' = Idle
            /\ reply' = [to |-> "readout", report |-> Report(values', subset)]
  BY DEF ReadChunk, ChunkSize
<1>5. job = [op |-> "read", subset |-> subset, next |-> job.next]
  BY <1>1 DEF Standing
<1>6. \A f \in Fields : Content(regs, f) \in during[f]
  BY <1>1 DEF Standing
<1>7. \A f \in Fields : First(f) \in Nat /\ Width(f) \in 1 .. 8
  BY Spans
<1> HIDE DEF n, subset
<1>8. CASE n < Total(subset) /\ job' = [job EXCEPT !.next = n] /\ reply' = reply
  <2>1. job' = [op |-> "read", subset |-> subset, next |-> n]
    BY <1>5, <1>8
  <2>2. n \in Marks
    BY <1>2, <1>8 DEF n, Marks
  <2>3. {r \in Registers : r < n /\ r < Total(subset)} = {r \in Registers : r < n}
    BY <1>2, <1>8 DEF Registers
  <2>4. Standing'
    <3>1. \A f \in Fields : Content(regs, f)' \in during'[f]
      BY <1>4, <1>6 DEF Content, Words
    <3>2. job'.subset = subset /\ job'.next = n
      BY <2>1
    <3>3. Total(job'.subset) = Total(subset)
      BY <3>2
    <3>4. job' = [op |-> "read", subset |-> job'.subset, next |-> job'.next]
      BY <2>1, <3>2
    <3>5. DOMAIN values' = {r \in Registers : r < job'.next}
      BY <1>3, <2>3, <3>2
    <3>6. QED
      BY <1>2, <1>8, <2>2, <3>1, <3>2, <3>3, <3>4, <3>5 DEF Standing
  <2>5. \A f \in Fields \ {"Calibration"} :
            First(f) + Width(f) <= n => Content(values', f) \in during'[f]
    BY <1>2, <1>3, <1>4, <1>7, <1>8
  <2>6. \A p \in 1 .. Width("Calibration") :
            First("Calibration") + p - 1 < n =>
                \E words \in during'["Calibration"] :
                    values'[First("Calibration") + p - 1] = words[p]
    BY <1>2, <1>3, <1>4, <1>7, <1>8, CalibrationIsField
  <2>7. ReadSoFar'
    BY <2>1, <2>5, <2>6 DEF ReadSoFar, Content, Words
  <2>8. ReportsAreTrue'
    BY <2>1, NoReadoutName DEF ReportsAreTrue
  <2>9. QED
    BY <2>4, <2>7, <2>8 DEF RInv, ReadInv
<1>9. CASE ~(n < Total(subset)) /\ job' = Idle
           /\ reply' = [to |-> "readout", report |-> Report(values', subset)]
  <2>1. DOMAIN reply'.report = ReportedFields(subset)
    BY <1>9 DEF Report
  <2>2. ASSUME NEW f \in ReportedFields(subset)
        PROVE  reply'.report[f] = Content(values', f) /\ First(f) + Width(f) <= Total(subset)
    <3>1. job'.op # "read" /\ f \in ReportedFields(job.subset)
      BY <1>9, NoReadoutName DEF subset
    <3>2. reply'.report[f] = Content(values', f)
      BY <3>1, ReportIsRead
    <3>3. QED
      BY <1>2, <3>2, Reported
  <2>3. ASSUME NEW f \in ReportedFields(subset) \ {"Calibration"}
        PROVE  reply'.report[f] \in during'[f]
    <3>1. f \in Fields /\ First(f) + Width(f) <= n /\ First(f) + Width(f) <= Total(subset)
      <4>1. f \in Fields /\ First(f) + Width(f) <= Total(subset)
        BY <1>2, Reported
      <4>2. QED
        BY <1>2, <1>7, <1>9, <4>1
    <3>2. QED
      BY <1>3, <1>4, <2>2, <3>1
  <2>4. ASSUME "Calibration" \in ReportedFields(subset), NEW p \in 1 .. Width("Calibration")
        PROVE  \E words \in during'["Calibration"] : reply'.report["Calibration"][p] = words[p]
    <3>1. /\ reply'.report["Calibration"][p] = values'[First("Calibration") + p - 1]
          /\ First("Calibration") + Width("Calibration") <= Total(subset)
      BY <2>2, <2>4 DEF Content, Words
    <3>2. /\ First("Calibration") + p - 1 < n
          /\ First("Calibration") + p - 1 < Total(subset)
      BY <1>2, <1>7, <1>9, <3>1, CalibrationIsField
    <3>3. QED
      BY <1>3, <1>4, <3>1, <3>2
  <2>5. ReportsAreTrue'
    BY <2>1, <2>3, <2>4 DEF ReportsAreTrue
  <2>6. ReadInv'
    BY <1>9, NoReadoutName DEF ReadInv
  <2>7. QED
    BY <2>5, <2>6 DEF RInv
<1>10. QED
  BY <1>4, <1>8, <1>9

LEMMA DriftStep ==
    ASSUME RInv, NEW g \in Changing, Drift(g)
    PROVE  RInv'
<1>1. /\ job' = job /\ values' = values /\ reply' = reply
      /\ during' = IF job.op = "read"
                   THEN [f \in Fields |-> during[f] \cup {Content(regs', f)}] ELSE during
  BY DEF Drift
<1>2. CASE job.op = "read"
  <2>1. Standing /\ ReadSoFar
    BY <1>2 DEF RInv, ReadInv
  <2>2. \A f \in Fields : during[f] \subseteq during'[f] /\ Content(regs', f) \in during'[f]
    BY <1>1, <1>2
  <2>3. Standing'
    <3>1. \A f \in Fields : Content(regs, f)' \in during'[f]
      BY <2>2 DEF Content, Words
    <3>2. QED
      BY <1>1, <2>1, <3>1 DEF Standing
  <2>4. \A f \in Fields \ {"Calibration"} :
            First(f) + Width(f) <= job.next => Content(values, f) \in during'[f]
    BY <2>1, <2>2 DEF ReadSoFar
  <2>5. \A p \in 1 .. Width("Calibration") :
            First("Calibration") + p - 1 < job.next =>
                \E words \in during'["Calibration"] :
                    values[First("Calibration") + p - 1] = words[p]
    BY <2>1, <2>2, CalibrationIsField DEF ReadSoFar
  <2>6. ReadSoFar'
    BY <1>1, <2>4, <2>5 DEF ReadSoFar, Content, Words
  <2>7. ReportsAreTrue'
    BY <1>1, <1>2, NoReadoutName DEF ReportsAreTrue
  <2>8. QED
    BY <2>3, <2>6, <2>7 DEF RInv, ReadInv
<1>3. CASE job.op # "read"
  BY <1>1, <1>3 DEF RInv, ReadInv, ReportsAreTrue
<1>4. QED
  BY <1>2, <1>3

LEMMA ReportStep ==
    RInv /\ [Next]_vars => RInv'
<1> SUFFICES ASSUME RInv, [Next]_vars
             PROVE  RInv'
  OBVIOUS
<1>1. ASSUME Free, reply'.to # "readout"
      PROVE  RInv'
  BY <1>1, NoReadoutName, NoReport DEF Free
<1>2. ASSUME NEW c \in Settings, NEW outcome, Acknowledge(c, outcome)
      PROVE  reply'.to # "readout"
  BY <1>2, NoReadoutName DEF Acknowledge
<1>3. ASSUME Refuse
      PROVE  reply'.to # "readout"
  BY <1>3, NoReadoutName DEF Refuse
<1>4. ASSUME NEW c \in Numbers, NEW unit \in Units, NEW q \in Amounts, SetNumber(c, unit, q)
      PROVE  RInv'
  BY <1>1, <1>2, <1>3, <1>4, SettingPlaces DEF SetNumber
<1>5. ASSUME NEW c \in ChoiceCommands, NEW v \in Choices, SetChoice(c, v)
      PROVE  RInv'
  BY <1>1, <1>2, <1>3, <1>5, SettingPlaces DEF SetChoice
<1>6. ASSUME NEW c \in Switches, NEW on \in {0, 1}, SetSwitch(c, on)
      PROVE  RInv'
  BY <1>1, <1>2, <1>6, SettingPlaces DEF SetSwitch
<1>7. ASSUME NEW c \in ClockCommands, NEW parts, SetClock(c, parts)
      PROVE  RInv'
  BY <1>1, <1>2, <1>7, SettingPlaces DEF SetClock
<1>8. ASSUME NEW question \in Questions, Ask(question)
      PROVE  RInv'
  BY <1>1, <1>8, NoReadoutName DEF Ask
<1>9. CASE StatusGet \/ PsuGet
  BY <1>9, ReadoutStarts DEF StatusGet, PsuGet
<1>10. ASSUME GiveUp
       PROVE  RInv'
  BY <1>10, NoReadoutName, NoReport DEF GiveUp
<1>11. CASE ReadChunk
  BY <1>11, ChunkStep
<1>12. CASE ReadFails
  BY <1>10, <1>12 DEF ReadFails
<1>13. CASE ToggleOut
  <2>1. job'.op # "read" /\ reply'.to # "readout"
    BY <1>13, NoReadoutName DEF ToggleOut
  <2>2. QED
    BY <2>1, NoReport
<1>14. CASE ToggleSwitch
  BY <1>10, <1>14, ReadoutStarts DEF ToggleSwitch
<1>15. ASSUME NEW f \in Changing, Drift(f)
       PROVE  RInv'
  BY <1>15, DriftStep
<1>16. CASE UNCHANGED vars
  BY <1>16 DEF vars, RInv, ReadInv, ReportsAreTrue, Standing, ReadSoFar, Content, Words
<1>17. QED
  BY <1>4, <1>5, <1>6, <1>7, <1>8, <1>9, <1>11, <1>12, <1>13, <1>14, <1>15, <1>16
     DEF Next, Scpi, Web, ClockCommands

\* What a page of the web server reports was true at a moment of its readout,
\* whatever the supply holds and however it changes while it is read: no field
\* but the calibration lies in two transactions of get_all_values(), the presets
\* are looked for where they are, and the registers of a report are all read.
THEOREM TrueReports == Spec => []ReportsAreTrue
<1>1. Init => RInv
  BY NoReadoutName DEF Init, RInv, ReadInv, ReportsAreTrue
<1>2. RInv => ReportsAreTrue
  BY DEF RInv
<1>3. QED
  BY <1>1, <1>2, ReportStep, PTL DEF Spec

-----------------------------------------------------------------------------
(* What is set is read.                                                    *)

LEMMA WordRange == \A n \in Int : (0 <= n /\ n <= 65535) <=> n \in Word
BY SMTT(30) DEF Word

LEMMA OneCount ==
    ASSUME NEW x \in Int, NEW n \in Int, 0 <= n, n <= 65535,
           x >= 0 => n * 10000 <= x /\ x < n * 10000 + 10000,
           NEW word, word = n \/ (word = n - 1 /\ n > 0 /\ n * 10000 = x)
    PROVE  /\ word \in Int /\ 0 <= word /\ word <= 65535
           /\ x >= 0 => 0 <= x - word * 10000 /\ x - word * 10000 <= 10000
<1>1. CASE word = n
  BY <1>1
<1>2. CASE word = n - 1 /\ n > 0 /\ n * 10000 = x
  BY <1>2
<1>3. QED
  BY <1>1, <1>2

LEMMA Undefined ==
    ASSUME NEW n \in Int, NEW word \in {n % 65536, (n - 1) % 65536, 0, 65535}
    PROVE  word \in Int /\ 0 <= word /\ word <= 65535
<1>1. /\ n % 65536 \in Int /\ 0 <= n % 65536 /\ n % 65536 <= 65535
      /\ (n - 1) % 65536 \in Int /\ 0 <= (n - 1) % 65536 /\ (n - 1) % 65536 <= 65535
  OBVIOUS
<1>2. QED
  BY <1>1

\* The conversions: what a number comes to is a register's content, and if the
\* number fits it is within one count, from below.
LEMMA ConvertedIsClose ==
    ASSUME NEW q \in Int, NEW multi \in {100, 1000, 10000}, NEW word \in Converted(q, multi)
    PROVE  /\ word \in Word
           /\ Fits(q, multi) => 0 <= q * multi - word * Fine /\ q * multi - word * Fine <= Fine
<1> DEFINE x == q * multi
           n == InCounts(q, multi)
<1>1. x \in Int /\ (q >= 0 => x >= 0)
  OBVIOUS
<1>2. n \in Int /\ (x >= 0 => n * 10000 <= x /\ x < n * 10000 + 10000)
  <2>1. n = IF -10000 < x /\ x < 0 THEN 0 ELSE x \div 10000
    BY DEF InCounts, Fine
  <2> HIDE DEF x, n
  <2>2. QED
    BY <1>1, <2>1
<1>3. Truncated(n, multi) = n \/ (Truncated(n, multi) = n - 1 /\ n > 0)
  BY DEF Truncated
<1>4. CASE n \in Word
  <2>1. word = IF n * Fine = x THEN Truncated(n, multi) ELSE n
    BY <1>4 DEF Converted
  <2>2. word = n \/ (word = n - 1 /\ n > 0 /\ n * 10000 = x)
    BY <1>3, <2>1 DEF Fine
  <2>3. 0 <= n /\ n <= 65535
    BY <1>2, <1>4, WordRange
  <2> HIDE DEF x, n
  <2>4. /\ word \in Int /\ 0 <= word /\ word <= 65535
        /\ x >= 0 => 0 <= x - word * 10000 /\ x - word * 10000 <= 10000
    BY <1>1, <1>2, <2>2, <2>3, OneCount
  <2>5. QED
    BY <1>1, <2>4, WordRange DEF Fits, Fine, x
<1>5. CASE n \notin Word
  <2>1. word \in {n % 65536, (n - 1) % 65536, 0, 65535}
    BY <1>5 DEF Converted
  <2>2. ~Fits(q, multi)
    BY <1>5 DEF Fits
  <2> HIDE DEF x, n
  <2>3. word \in Int /\ 0 <= word /\ word <= 65535
    BY <1>2, <2>1, Undefined
  <2>4. QED
    BY <2>2, <2>3, WordRange
<1>6. QED
  BY <1>4, <1>5

LEMMA Multis == \A c \in Numbers : Multi(c) \in {100, 1000, 10000}
<1>1. PICK t \in Types : SupplyId \in t.ids
  BY SupplyAssumption DEF Known
<1>2. TypeOf(SupplyId) \in Types
  BY <1>1 DEF TypeOf
<1>3. \A u \in Types : u.v \in {100, 1000, 10000} /\ u.i \in {100, 1000, 10000}
  BY DEF Types
<1>4. QED
  BY <1>2, <1>3 DEF Multi

\* A setting is held, and an amount is what the conversion makes of it.
Stores(c, v, words) ==
    Holds(c, v, words) /\ (c \in Numbers => words[1] \in Converted(v, Multi(c)))

LEMMA NumberIsHeld ==
    ASSUME NEW c \in Numbers, NEW q \in Amounts, NEW word \in Converted(q, Multi(c))
    PROVE  word \in Word /\ Stores(c, q, <<word>>)
<1>1. q \in Int
  BY SupplyAssumption
<1>2. /\ word \in Word
      /\ Fits(q, Multi(c)) => 0 <= q * Multi(c) - word * Fine /\ q * Multi(c) - word * Fine <= Fine
  BY <1>1, Multis, ConvertedIsClose
<1>3. Fits(q, Multi(c)) => WithinOneCount(c, q, word)
  BY <1>2 DEF WithinOneCount
<1>4. <<word>>[1] = word
  OBVIOUS
<1>5. c \notin Switches \cup ChoiceCommands /\ c \notin ClockCommands
  BY DEF Numbers, Switches, ChoiceCommands, ClockCommands
<1>6. Stores(c, q, <<word>>)
  BY <1>3, <1>4, <1>5 DEF Stores, Holds
<1>7. QED
  BY <1>2, <1>6

Length(c) == IF c \in ClockCommands THEN 3 ELSE 1
PlacesOf(c) == Register[c] .. Register[c] + Length(c) - 1
Held(c) == [i \in 1 .. Length(c) |-> regs[Register[c] + i - 1]]

LEMMA ExactPlaces ==
    /\ Register["SourceVoltage"] = 8 /\ Register["SourceCurrent"] = 9
    /\ Register["SourceVoltageLimit"] = 82 /\ Register["SourceCurrentLimit"] = 83
    /\ Register["OutputState"] = 18 /\ Register["SystemBeeperState"] = 69
    /\ Register["Rcl"] = 19 /\ Register["DisplayBrightness"] = 72 /\ Register["DisplayLanguage"] = 71
    /\ Register["SystemDate"] = 48 /\ Register["SystemTime"] = 51
BY LegalPlaces, OtherPlaces DEF Register

\* No two settings share a register.
LEMMA SettingsApart ==
    ASSUME NEW c \in Settings, NEW d \in Settings, c # d
    PROVE  PlacesOf(c) \cap PlacesOf(d) = {}
BY ExactPlaces, SettingPlaces
   DEF PlacesOf, Length, Numbers, Switches, ChoiceCommands, ClockCommands

LEMMA SettingsInside ==
    \A c \in Settings : /\ Register[c] \in Nat /\ Length(c) \in {1, 3}
                        /\ PlacesOf(c) \subseteq Registers
BY ExactPlaces, SettingPlaces
   DEF PlacesOf, Registers, Length, Numbers, Switches, ChoiceCommands, ClockCommands

\* A field has all registers of a setting if it has the first, or none.
LEMMA WholeSettings ==
    ASSUME NEW f \in Fields, NEW c \in Settings, Register[c] \notin RegistersOf(f)
    PROVE  PlacesOf(c) \cap RegistersOf(f) = {}
<1>1. CASE c \in ClockCommands
  <2>1. \A g \in Fields : /\ 48 \notin RegistersOf(g) => {48, 49, 50} \cap RegistersOf(g) = {}
                          /\ 51 \notin RegistersOf(g) => {51, 52, 53} \cap RegistersOf(g) = {}
    BY DEF Fields, Span, RegistersOf, First, Width
  <2>2. \/ c = "SystemDate" /\ PlacesOf(c) = {48, 49, 50}
        \/ c = "SystemTime" /\ PlacesOf(c) = {51, 52, 53}
    <3>1. Length(c) = 3 /\ c \in {"SystemDate", "SystemTime"}
      BY <1>1 DEF Length, ClockCommands
    <3>2. 48 .. 48 + 3 - 1 = {48, 49, 50} /\ 51 .. 51 + 3 - 1 = {51, 52, 53}
      OBVIOUS
    <3>3. QED
      BY <3>1, <3>2, ExactPlaces DEF PlacesOf
  <2>3. QED
    BY <2>1, <2>2, ExactPlaces
<1>2. CASE c \notin ClockCommands
  <2>1. PlacesOf(c) = {Register[c]}
    BY <1>2, SettingsInside DEF PlacesOf, Length
  <2>2. QED
    BY <2>1
<1>3. QED
  BY <1>1, <1>2

\* Every question reads the registers that its command writes.
LEMMA QuestionFields ==
    /\ Question["SourceVoltage"] = "SourceVoltageQ" /\ AskedField["SourceVoltageQ"] = "VoltageSet"
    /\ Question["SourceCurrent"] = "SourceCurrentQ" /\ AskedField["SourceCurrentQ"] = "CurrentSet"
    /\ Question["OutputState"] = "OutputStateQ" /\ AskedField["OutputStateQ"] = "Output"
    /\ Question["SystemBeeperState"] = "SystemBeeperStateQ" /\ AskedField["SystemBeeperStateQ"] = "Buzzer"
    /\ Question["DisplayBrightness"] = "DisplayBrightnessQ" /\ AskedField["DisplayBrightnessQ"] = "Brightness"
    /\ Question["DisplayLanguage"] = "DisplayLanguageQ" /\ AskedField["DisplayLanguageQ"] = "Language"
    /\ Question["SystemDate"] = "SystemDateQ" /\ AskedField["SystemDateQ"] = "Date"
    /\ Question["SystemTime"] = "SystemTimeQ" /\ AskedField["SystemTimeQ"] = "Time"
BY DEF Question, AskedField, Questions, SystemQuestions, SourceQuestions, MeasureQuestions

LEMMA QuestionNames ==
    /\ DOMAIN Question = {"SourceVoltage", "SourceCurrent", "OutputState", "SystemBeeperState",
                          "DisplayBrightness", "DisplayLanguage", "SystemDate", "SystemTime"}
    /\ DOMAIN Question \subseteq Settings
    /\ \A c \in DOMAIN Question :
           Question[c] \notin Settings \cup {"refused", "failed", "nobody", "readout"}
BY SettingPlaces DEF Question, Numbers, Switches, ChoiceCommands, ClockCommands

LEMMA ReadBack ==
    ASSUME NEW c \in DOMAIN Question
    PROVE  Content(regs, AskedField[Question[c]]) = Held(c)
<1>1. /\ First("VoltageSet") = 8 /\ First("CurrentSet") = 9 /\ First("Output") = 18
      /\ First("Buzzer") = 69 /\ First("Brightness") = 72 /\ First("Language") = 71
      /\ First("Date") = 48 /\ First("Time") = 51
      /\ Width("VoltageSet") = 1 /\ Width("CurrentSet") = 1 /\ Width("Output") = 1
      /\ Width("Buzzer") = 1 /\ Width("Brightness") = 1 /\ Width("Language") = 1
      /\ Width("Date") = 3 /\ Width("Time") = 3
  BY DEF Span, First, Width
<1>2. /\ First(AskedField[Question[c]]) = Register[c]
      /\ Width(AskedField[Question[c]]) = Length(c)
  BY <1>1, QuestionFields, QuestionNames, ExactPlaces DEF Length, ClockCommands
<1>3. QED
  BY <1>2 DEF Content, Words, Held

LEMMA ChoiceIsHeld ==
    ASSUME NEW c \in Switches \cup ChoiceCommands, NEW v
    PROVE  Stores(c, v, <<v>>)
<1>1. c \notin Numbers /\ c \notin ClockCommands
  BY DEF Numbers, Switches, ChoiceCommands, ClockCommands
<1>2. <<v>>[1] = v
  OBVIOUS
<1>3. QED
  BY <1>1, <1>2 DEF Stores, Holds

LEMMA ClockIsHeld ==
    ASSUME NEW c \in ClockCommands, NEW parts \in [1 .. 3 -> Nat]
    PROVE  Stores(c, parts, [i \in 1 .. 3 |-> parts[i] % ParameterSize(c)])
<1>1. c \notin Numbers /\ c \notin Switches \cup ChoiceCommands
  BY DEF Numbers, Switches, ChoiceCommands, ClockCommands
<1>2. \A i \in 1 .. 3 : parts[i] < ParameterSize(c) => parts[i] % ParameterSize(c) = parts[i]
  BY DEF ParameterSize
<1>3. QED
  BY <1>1, <1>2 DEF Stores, Holds

\* What was acknowledged is in the registers, and in the answer to its question.
SetIsHeld ==
    \A c \in Settings : asked[c] # Nothing => Stores(c, asked[c][1], Held(c))
AnswerIsHeld ==
    \A c \in DOMAIN Question :
        asked[c] # Nothing /\ reply.to = Question[c] => Stores(c, asked[c][1], reply.words)
SInv == DOMAIN asked = Settings /\ SetIsHeld /\ AnswerIsHeld

LEMMA SetReadFollows == SInv => SetThenRead
<1> SUFFICES ASSUME SInv
             PROVE  SetThenRead
  OBVIOUS
<1>1. ASSUME NEW c \in Settings, asked[c] # Nothing,
             c \in DOMAIN Question, reply.to = Question[c]
      PROVE  Holds(c, asked[c][1], reply.words)
  BY <1>1 DEF SInv, AnswerIsHeld, Stores
<1>2. ASSUME NEW c \in {"SourceVoltageLimit", "SourceCurrentLimit"}, asked[c] # Nothing
      PROVE  Holds(c, asked[c][1], <<regs[Register[c]]>>)
  <2>1. c \in Numbers /\ c \in Settings /\ c \notin Switches \cup ChoiceCommands
        /\ c \notin ClockCommands
    BY SettingPlaces DEF Numbers, Switches, ChoiceCommands, ClockCommands
  <2>2. Held(c)[1] = regs[Register[c]]
    BY <2>1, SettingsInside DEF Held, Length
  <2>3. Holds(c, asked[c][1], Held(c))
    BY <1>2, <2>1 DEF SInv, SetIsHeld, Stores
  <2>4. QED
    BY <2>1, <2>2, <2>3 DEF Holds
<1>3. Content(regs, "M0")[3] = regs[82] /\ Content(regs, "M0")[4] = regs[83]
  <2>1. First("M0") = 80 /\ Width("M0") = 4
    BY DEF First, Width, Span
  <2>2. QED
    BY <2>1 DEF Content, Words
<1>4. QED
  BY <1>1, <1>2, <1>3, ExactPlaces DEF SetThenRead

\* A write of setting c.
LEMMA WriteStep ==
    ASSUME SInv, NEW c \in Settings, NEW v, NEW words, NEW outcome \in Outcomes,
           Write(c, v, Register[c], words, outcome),
           words = [i \in 1 .. Length(c) |-> words[i]], Len(words) = Length(c),
           Stores(c, v, words),
           \A d \in DOMAIN Question : reply'.to # Question[d]
    PROVE  SInv'
<1> DEFINE written == PlacesOf(c)
<1>1. /\ asked' = [asked EXCEPT ![c] = IF outcome = "done" THEN <<v>> ELSE Nothing]
      /\ regs' = regs \/ regs' = Overwrite(Register[c], words)
      /\ outcome = "done" => regs' = Overwrite(Register[c], words)
  BY DEF Write, Outcomes
<1>2. Overwrite(Register[c], words) =
          [r \in Registers |-> IF r \in written THEN words[r - Register[c] + 1] ELSE regs[r]]
  BY DEF Overwrite, PlacesOf
<1>3. \A d \in Settings : PlacesOf(d) \subseteq Registers
  BY SettingsInside
<1>4. \A d \in Settings \ {c} : written \cap PlacesOf(d) = {}
  BY SettingsApart
<1>5. \A d \in Settings : \A i \in 1 .. Length(d) : Register[d] + i - 1 \in PlacesOf(d)
  <2>1. ASSUME NEW d \in Settings, NEW i \in 1 .. Length(d)
        PROVE  Register[d] + i - 1 \in PlacesOf(d)
    <3>1. Register[d] \in Nat /\ Length(d) \in Nat
      BY SettingsInside
    <3>2. QED
      BY <3>1 DEF PlacesOf
  <2>2. QED
    BY <2>1
<1> HIDE DEF written
<1>6. ASSUME NEW d \in Settings \ {c}
      PROVE  Held(d)' = Held(d)
  <2>1. \A i \in 1 .. Length(d) : regs'[Register[d] + i - 1] = regs[Register[d] + i - 1]
    BY <1>1, <1>2, <1>3, <1>4, <1>5
  <2>2. QED
    BY <2>1 DEF Held, Length
<1>7. ASSUME outcome = "done"
      PROVE  Held(c)' = words
  <2>1. \A i \in 1 .. Length(c) : Register[c] + i - 1 \in written /\ Register[c] + i - 1 \in Registers
    BY <1>3, <1>5 DEF written
  <2>2. \A i \in 1 .. Length(c) : regs'[Register[c] + i - 1] = words[i]
    <3>1. ASSUME NEW i \in 1 .. Length(c)
          PROVE  regs'[Register[c] + i - 1] = words[i]
      <4>1. Register[c] \in Int /\ i \in Int
        BY SettingsInside
      <4> DEFINE r == Register[c] + i - 1
      <4>2. r - Register[c] + 1 = i
        BY <4>1
      <4>3. r \in written /\ r \in Registers
        BY <2>1
      <4>4. regs' = [q \in Registers |->
                        IF q \in written THEN words[q - Register[c] + 1] ELSE regs[q]]
        BY <1>1, <1>2, <1>7
      <4> HIDE DEF r
      <4>5. regs'[r] = words[i]
        BY <4>2, <4>3, <4>4
      <4>6. QED
        BY <4>5 DEF r
    <3>2. QED
      BY <3>1
  <2>3. Held(c)' = [i \in 1 .. Length(c) |-> words[i]]
    BY <2>2 DEF Held, Length
  <2>4. QED
    BY <2>3
<1>8. DOMAIN asked' = Settings
  BY <1>1 DEF SInv
<1>9. ASSUME NEW d \in Settings, asked'[d] # Nothing
      PROVE  Stores(d, asked'[d][1], Held(d)')
  <2>1. CASE d = c
    <3>1. outcome = "done" /\ asked'[c] = <<v>>
      BY <1>1, <1>9, <2>1 DEF SInv
    <3>2. asked'[c][1] = v
      BY <3>1
    <3>3. QED
      BY <1>7, <2>1, <3>1, <3>2
  <2>2. CASE d # c
    <3>1. asked'[d] = asked[d]
      BY <1>1, <2>2 DEF SInv
    <3>2. Stores(d, asked[d][1], Held(d))
      BY <1>9, <3>1 DEF SInv, SetIsHeld
    <3>3. QED
      BY <1>6, <2>2, <3>1, <3>2
  <2>3. QED
    BY <2>1, <2>2
<1>10. SetIsHeld'
  BY <1>9 DEF SetIsHeld, Stores, Holds, Fits, WithinOneCount
<1>11. AnswerIsHeld'
  BY DEF AnswerIsHeld
<1>12. QED
  BY <1>8, <1>10, <1>11 DEF SInv

\* A step that sets nothing, and gives no new answer to a question.
LEMMA NothingSet ==
    ASSUME SInv, UNCHANGED <<regs, asked>>,
           UNCHANGED reply \/ \A d \in DOMAIN Question : reply'.to # Question[d]
    PROVE  SInv'
<1>1. DOMAIN asked' = Settings /\ SetIsHeld'
  <2>1. \A c \in Settings : Held(c)' = Held(c)
    BY DEF Held, Length
  <2>2. \A c \in Settings : asked'[c] # Nothing => Stores(c, asked'[c][1], Held(c)')
    BY <2>1 DEF SInv, SetIsHeld
  <2>3. QED
    BY <2>2 DEF SInv, SetIsHeld
<1>2. AnswerIsHeld'
  BY DEF SInv, AnswerIsHeld
<1>3. QED
  BY <1>1, <1>2 DEF SInv

LEMMA AskStep ==
    ASSUME SInv, NEW question \in Questions, Ask(question)
    PROVE  SInv'
<1>1. UNCHANGED <<regs, asked>>
  BY DEF Ask
<1>2. CASE reply' = Failed
  BY <1>1, <1>2, NothingSet, QuestionNames DEF Failed
<1>3. CASE reply' = [to |-> question, words |-> Content(regs, AskedField[question])]
  <2>1. ASSUME NEW c \in DOMAIN Question, asked'[c] # Nothing, reply'.to = Question[c]
        PROVE  Stores(c, asked'[c][1], reply'.words)
    <3>1. question = Question[c] /\ reply'.words = Content(regs, AskedField[question])
      BY <1>3, <2>1
    <3>2. reply'.words = Held(c)
      BY <3>1, ReadBack
    <3>3. c \in Settings /\ asked[c] # Nothing /\ asked'[c] = asked[c]
      BY <1>1, <2>1, QuestionNames
    <3>4. Stores(c, asked[c][1], Held(c))
      BY <3>3 DEF SInv, SetIsHeld
    <3>5. QED
      BY <3>2, <3>3, <3>4
  <2>2. AnswerIsHeld'
    BY <2>1 DEF AnswerIsHeld, Stores, Holds, Fits, WithinOneCount
  <2>3. DOMAIN asked' = Settings /\ SetIsHeld'
    BY <1>1 DEF SInv, SetIsHeld, Held, Length
  <2>4. QED
    BY <2>2, <2>3 DEF SInv
<1>4. QED
  BY <1>2, <1>3 DEF Ask

LEMMA DriftKeepsSet ==
    ASSUME SInv, NEW f \in Changing, Drift(f)
    PROVE  SInv'
<1>1. /\ regs' = [r \in Registers |-> IF r \in RegistersOf(f) THEN Changed(f, r) ELSE regs[r]]
      /\ asked' = [c \in Settings |-> IF Register[c] \in RegistersOf(f) THEN Nothing ELSE asked[c]]
      /\ reply' = reply
  BY DEF Drift
<1>2. f \in Fields
  BY SupplyAssumption
<1>3. ASSUME NEW c \in Settings, asked'[c] # Nothing
      PROVE  asked'[c] = asked[c] /\ Held(c)' = Held(c)
  <2>1. Register[c] \notin RegistersOf(f) /\ asked'[c] = asked[c]
    BY <1>1, <1>3
  <2>2. PlacesOf(c) \cap RegistersOf(f) = {}
    BY <1>2, <2>1, WholeSettings
  <2>3. \A i \in 1 .. Length(c) : Register[c] + i - 1 \in PlacesOf(c)
    BY SettingsInside DEF PlacesOf
  <2>4. \A i \in 1 .. Length(c) : regs'[Register[c] + i - 1] = regs[Register[c] + i - 1]
    BY <1>1, <2>2, <2>3, SettingsInside
  <2>5. QED
    BY <2>1, <2>4 DEF Held, Length
<1>4. \A c \in Settings : asked'[c] # Nothing => Stores(c, asked'[c][1], Held(c)')
  BY <1>3 DEF SInv, SetIsHeld
<1>5. SetIsHeld'
  BY <1>4 DEF SetIsHeld
<1>6. AnswerIsHeld'
  BY <1>1, <1>3, QuestionNames DEF SInv, AnswerIsHeld
<1>7. DOMAIN asked' = Settings
  BY <1>1
<1>8. QED
  BY <1>5, <1>6, <1>7 DEF SInv

LEMMA SetStep ==
    SInv /\ [Next]_vars => SInv'
<1> SUFFICES ASSUME SInv, [Next]_vars
             PROVE  SInv'
  OBVIOUS
<1>1. ASSUME NEW c \in Settings, NEW outcome, Acknowledge(c, outcome)
      PROVE  \A d \in DOMAIN Question : reply'.to # Question[d]
  BY <1>1, QuestionNames DEF Acknowledge, Failed
<1>2. ASSUME Refuse
      PROVE  SInv'
  <2>1. \A d \in DOMAIN Question : reply'.to # Question[d]
    BY <1>2, QuestionNames DEF Refuse, Refused
  <2>2. UNCHANGED <<regs, asked>>
    BY <1>2 DEF Refuse
  <2>3. QED
    BY <2>1, <2>2, NothingSet
<1>3. ASSUME NEW c \in Numbers, NEW unit \in Units, NEW q \in Amounts, SetNumber(c, unit, q)
      PROVE  SInv'
  <2>1. ASSUME NEW outcome \in Outcomes, NEW word \in Converted(q, Multi(c)),
               Write(c, q, Register[c], <<word>>, outcome), Acknowledge(c, outcome)
        PROVE  SInv'
    <3>1. c \in Settings /\ Length(c) = 1
      BY SettingPlaces DEF Length, Numbers, ClockCommands
    <3>2. <<word>> = [i \in 1 .. 1 |-> <<word>>[i]] /\ Len(<<word>>) = 1
      OBVIOUS
    <3>3. Stores(c, q, <<word>>)
      BY NumberIsHeld
    <3>4. \A d \in DOMAIN Question : reply'.to # Question[d]
      BY <1>1, <2>1, <3>1
    <3>5. QED
      BY <2>1, <3>1, <3>2, <3>3, <3>4, WriteStep
  <2>2. QED
    BY <1>2, <1>3, <2>1 DEF SetNumber
<1>4. ASSUME NEW c \in Switches \cup ChoiceCommands, NEW v, NEW outcome \in Outcomes,
             Write(c, v, Register[c], <<v>>, outcome),
             \A d \in DOMAIN Question : reply'.to # Question[d]
      PROVE  SInv'
  <2>1. c \in Settings /\ Length(c) = 1
    BY SettingPlaces DEF Length, Switches, ChoiceCommands, ClockCommands
  <2>2. <<v>> = [i \in 1 .. 1 |-> <<v>>[i]] /\ Len(<<v>>) = 1
    OBVIOUS
  <2>3. QED
    BY <1>4, <2>1, <2>2, ChoiceIsHeld, WriteStep
<1>5. ASSUME NEW c \in ChoiceCommands, NEW v \in Choices, SetChoice(c, v)
      PROVE  SInv'
  <2>1. ASSUME NEW outcome \in Outcomes, Write(c, v, Register[c], <<v>>, outcome),
               Acknowledge(c, outcome)
        PROVE  SInv'
    BY <1>1, <1>4, <2>1, SettingPlaces
  <2>2. QED
    BY <1>2, <1>5, <2>1 DEF SetChoice
<1>6. ASSUME NEW c \in Switches, NEW on \in {0, 1}, SetSwitch(c, on)
      PROVE  SInv'
  <2>1. PICK outcome \in Outcomes :
            Write(c, on, Register[c], <<on>>, outcome) /\ Acknowledge(c, outcome)
    BY <1>6 DEF SetSwitch
  <2>2. QED
    BY <1>1, <1>4, <2>1, SettingPlaces
<1>7. ASSUME NEW c \in ClockCommands, NEW parts \in [1 .. 3 -> Nat], SetClock(c, parts)
      PROVE  SInv'
  <2> DEFINE words == [i \in 1 .. 3 |-> parts[i] % ParameterSize(c)]
  <2>1. PICK outcome \in Outcomes :
            Write(c, parts, Register[c], words, outcome) /\ Acknowledge(c, outcome)
    BY <1>7 DEF SetClock
  <2>2. c \in Settings /\ Length(c) = 3
    BY SettingPlaces DEF Length
  <2>3. words = [i \in 1 .. 3 |-> words[i]] /\ Len(words) = 3
    OBVIOUS
  <2>4. Stores(c, parts, words)
    BY ClockIsHeld
  <2>5. \A d \in DOMAIN Question : reply'.to # Question[d]
    BY <1>1, <2>1, <2>2
  <2> HIDE DEF words
  <2>6. QED
    BY <2>1, <2>2, <2>3, <2>4, <2>5, WriteStep
<1>8. ASSUME NEW question \in Questions, Ask(question)
      PROVE  SInv'
  BY <1>8, AskStep
<1>9. \A d \in DOMAIN Question :
          Nobody.to # Question[d] /\ Failed.to # Question[d] /\ "readout" # Question[d]
  BY QuestionNames DEF Nobody, Failed
<1>10. CASE StatusGet \/ PsuGet
  BY <1>9, <1>10, NothingSet DEF StatusGet, PsuGet, StartReadout
<1>11. CASE ReadChunk
  <2>1. UNCHANGED <<regs, asked>> /\ (reply' = reply \/ reply'.to = "readout")
    BY <1>11 DEF ReadChunk
  <2>2. QED
    BY <1>9, <2>1, NothingSet
<1>12. CASE ReadFails
  BY <1>9, <1>12, NothingSet DEF ReadFails, GiveUp
<1>13. CASE ToggleOut
  BY <1>9, <1>13, NothingSet DEF ToggleOut
<1>14. CASE ToggleSwitch
  <2>1. PICK outcome \in Outcomes, on \in {0, 1} :
            /\ Write("OutputState", on, First("Output"), <<on>>, outcome)
            /\ StartReadout(TRUE) \/ GiveUp
    BY <1>14 DEF ToggleSwitch
  <2>2. \A d \in DOMAIN Question : reply'.to # Question[d]
    BY <1>9, <2>1 DEF StartReadout, GiveUp
  <2>3. "OutputState" \in Switches /\ First("Output") = Register["OutputState"]
    BY ExactPlaces, OtherPlaces DEF Switches
  <2>4. QED
    BY <1>4, <2>1, <2>2, <2>3
<1>15. ASSUME NEW f \in Changing, Drift(f)
       PROVE  SInv'
  BY <1>15, DriftKeepsSet
<1>16. CASE UNCHANGED vars
  BY <1>16, NothingSet DEF vars
<1>17. ASSUME NEW date \in Dates, SetClock("SystemDate", date)
       PROVE  SInv'
  BY <1>7, <1>17, SupplyAssumption DEF ClockCommands
<1>18. ASSUME NEW time \in Times, SetClock("SystemTime", time)
       PROVE  SInv'
  BY <1>7, <1>18, SupplyAssumption DEF ClockCommands
<1>19. QED
  BY <1>3, <1>5, <1>6, <1>8, <1>10, <1>11, <1>12, <1>13, <1>14, <1>15, <1>16, <1>17, <1>18
     DEF Next, Scpi, Web

LEMMA InitSet == Init => SInv
<1> SUFFICES ASSUME Init
             PROVE  SInv
  OBVIOUS
<1>1. DOMAIN asked = Settings /\ \A c \in Settings : asked[c] = Nothing
  BY DEF Init
<1>2. QED
  BY <1>1, QuestionNames DEF SInv, SetIsHeld, AnswerIsHeld

\* Whatever is asked for, and however the supply changes, a setting that was
\* acknowledged and not changed since is read back as it was asked for, a voltage
\* or a current within one count and never above: setter and question mean the
\* same registers, no other setter writes them, and the conversions of
\* riden_modbus.cpp lose no more than that.
THEOREM SettingIsRead == Spec => []SetThenRead
BY InitSet, SetStep, SetReadFollows, PTL DEF Spec

\* Only amounts are asked for as a voltage.
AskedAmounts == asked["SourceVoltage"] # Nothing => asked["SourceVoltage"][1] \in Amounts

LEMMA AskedStep ==
    ASSUME SInv, AskedAmounts, [Next]_vars
    PROVE  AskedAmounts'
<1> DEFINE c == "SourceVoltage"
<1>1. ASSUME NEW d, NEW v, NEW first, NEW words, NEW outcome,
             Write(d, v, first, words, outcome), d = c => v \in Amounts
      PROVE  AskedAmounts'
  <2>1. DOMAIN asked = Settings /\ c \in Settings
    BY SettingPlaces DEF SInv, Numbers
  <2>2. asked'[c] \in {asked[c], Nothing} \/ (d = c /\ asked'[c] = <<v>>)
    BY <1>1, <2>1 DEF Write
  <2>3. <<v>>[1] = v
    OBVIOUS
  <2>4. QED
    BY <1>1, <2>2, <2>3 DEF AskedAmounts
<1>2. c \notin ChoiceCommands /\ c \notin Switches /\ c \notin ClockCommands /\ c # "OutputState"
  BY DEF ChoiceCommands, Switches, ClockCommands
<1>3. CASE UNCHANGED asked
  BY <1>3 DEF AskedAmounts
<1>4. CASE \E f \in Changing : Drift(f)
  <2>1. asked'[c] \in {asked[c], Nothing}
    BY <1>4, SettingPlaces DEF Drift, Numbers
  <2>2. QED
    BY <2>1 DEF AskedAmounts
<1>5. CASE \E d \in Numbers, unit \in Units, q \in Amounts : SetNumber(d, unit, q)
  BY <1>1, <1>3, <1>5 DEF SetNumber, Refuse
<1>6. CASE \E d \in ChoiceCommands, v \in Choices : SetChoice(d, v)
  BY <1>1, <1>2, <1>3, <1>6 DEF SetChoice, Refuse
<1>7. CASE \E d \in Switches, on \in {0, 1} : SetSwitch(d, on)
  BY <1>1, <1>2, <1>7 DEF SetSwitch
<1>8. CASE \E parts : SetClock("SystemDate", parts) \/ SetClock("SystemTime", parts)
  BY <1>1, <1>8 DEF SetClock
<1>9. CASE ToggleSwitch
  BY <1>1, <1>9 DEF ToggleSwitch
<1>10. CASE \/ Refuse \/ StatusGet \/ PsuGet \/ ReadChunk \/ ReadFails \/ ToggleOut
            \/ \E question \in Questions : Ask(question)
  BY <1>3, <1>10 DEF Refuse, StatusGet, PsuGet, StartReadout, ReadChunk, ReadFails, GiveUp,
                     ToggleOut, Ask
<1>11. QED
  BY <1>3, <1>4, <1>5, <1>6, <1>7, <1>8, <1>9, <1>10 DEF Next, Scpi, Web, vars

\* An amount that is a whole number of counts comes to that number.
LEMMA WholeCounts ==
    ASSUME NEW q \in Int, NEW multi \in {100, 1000, 10000}, q >= 0, (q * multi) % Fine = 0
    PROVE  q * multi = InCounts(q, multi) * Fine
<1> DEFINE x == q * multi
<1>1. x \in Int /\ x >= 0
  OBVIOUS
<1>2. InCounts(q, multi) = x \div 10000
  BY <1>1 DEF InCounts, Fine
<1>3. x % 10000 = 0
  BY DEF Fine
<1> HIDE DEF x
<1>4. x = (x \div 10000) * 10000
  BY <1>1, <1>3
<1>5. QED
  BY <1>2, <1>4 DEF Fine, x

\* "Set the output voltage": where it is true.  If no voltage that users ask for comes to
\* a count that binary fractions miss, a voltage the supply can be set to is the one read
\* back (set_voltage_set(), voltage_to_value()).
THEOREM ExactUnlessMissed ==
    ASSUME \A n \in Word : (n > 0 /\ \E q \in Amounts : q * Multi("SourceVoltage") = n * Fine)
                               => ~FallsShort(n, Multi("SourceVoltage"))
    PROVE  Spec => []SetIsExact
<1> DEFINE c == "SourceVoltage"
<1>1. Init => SInv /\ AskedAmounts
  BY InitSet, SettingPlaces DEF Init, AskedAmounts, Numbers
<1>2. SInv /\ AskedAmounts /\ [Next]_vars => SInv' /\ AskedAmounts'
  BY SetStep, AskedStep
<1>3. SInv /\ AskedAmounts => SetIsExact
  <2> SUFFICES ASSUME SInv, AskedAmounts, asked[c] # Nothing, reply.to = Question[c],
                      Fits(asked[c][1], Multi(c)), (asked[c][1] * Multi(c)) % Fine = 0
               PROVE  reply.words[1] * Fine = asked[c][1] * Multi(c)
    BY DEF SetIsExact
  <2> DEFINE q == asked[c][1]
             n == InCounts(q, Multi(c))
  <2>1. c \in Numbers /\ c \in DOMAIN Question
    BY QuestionNames DEF Numbers
  <2>2. q \in Amounts /\ q \in Int /\ Multi(c) \in {100, 1000, 10000}
    <3>1. q \in Amounts
      BY DEF AskedAmounts
    <3>2. Multi(c) \in {100, 1000, 10000}
      BY <2>1, Multis
    <3> HIDE DEF q
    <3>3. q \in Int
      BY <3>1, SupplyAssumption
    <3>4. QED
      BY <3>1, <3>2, <3>3
  <2>3. reply.words[1] \in Converted(q, Multi(c))
    BY <2>1 DEF SInv, AnswerIsHeld, Stores
  <2>4. n \in Word /\ q >= 0
    BY DEF Fits
  <2>5. q * Multi(c) = n * Fine
    BY <2>2, <2>4, WholeCounts
  <2>6. Truncated(n, Multi(c)) = n
    <3>1. CASE n > 0
      BY <2>2, <2>4, <2>5, <3>1 DEF Truncated
    <3>2. CASE ~(n > 0)
      BY <3>2 DEF Truncated
    <3>3. QED
      BY <3>1, <3>2
  <2>7. reply.words[1] = n
    BY <2>3, <2>4, <2>5, <2>6 DEF Converted
  <2>8. QED
    BY <2>5, <2>7
<1>4. QED
  BY <1>1, <1>2, <1>3, PTL DEF Spec

-----------------------------------------------------------------------------
(* Type correctness.                                                       *)

RegsType == regs \in [Registers -> Word] /\ regs[18] \in {0, 1}
JobType ==
    \/ job = Idle
    \/ job \in [op : {"switch"}, on : BOOLEAN]
    \/ job \in [op : {"read"}, subset : BOOLEAN, next : {ChunkSize * i : i \in 0 .. 5}]
ValuesType == DOMAIN values \subseteq Registers /\ \A r \in DOMAIN values : values[r] \in Word
ReplyType ==
    \/ reply \in {Nobody, Refused, Failed} \cup [to : Settings]
    \/ /\ reply.to \in Questions
       /\ reply.words \in [1 .. Width(AskedField[reply.to]) -> Word]
    \/ /\ reply.to = "readout"
       /\ \E subset \in BOOLEAN : DOMAIN reply.report = ReportedFields(subset)
       /\ \A f \in DOMAIN reply.report : reply.report[f] \in [1 .. Width(f) -> Word]
HistoryType == changes \in 0 .. MaxChanges /\ DOMAIN asked = Settings /\ DOMAIN during = Fields

RestType == JobType /\ ValuesType /\ ReplyType /\ HistoryType

LEMMA TypeFollows == RegsType /\ RestType => TypeOK
BY DEF RegsType, RestType, JobType, ValuesType, ReplyType, HistoryType, TypeOK

LEMMA MarksAre == {ChunkSize * i : i \in 0 .. 5} = Marks
<1>1. \A i \in 0 .. 5 : ChunkSize * i \in Marks
  BY DEF ChunkSize, Marks
<1>2. \A m \in Marks : \E i \in 0 .. 5 : m = ChunkSize * i
  <2>1. /\ 0 = ChunkSize * 0 /\ 20 = ChunkSize * 1 /\ 40 = ChunkSize * 2
        /\ 60 = ChunkSize * 3 /\ 80 = ChunkSize * 4 /\ 100 = ChunkSize * 5
    BY DEF ChunkSize
  <2>2. QED
    BY <2>1 DEF Marks
<1>3. QED
  BY <1>1, <1>2

LEMMA ContentWords ==
    ASSUME NEW content, NEW f \in Fields,
           \A p \in 1 .. Width(f) : content[First(f) + p - 1] \in Word
    PROVE  Content(content, f) \in [1 .. Width(f) -> Word]
BY DEF Content, Words

LEMMA HeldWords ==
    ASSUME RegsType, NEW f \in Fields
    PROVE  Content(regs, f) \in [1 .. Width(f) -> Word]
<1>1. ASSUME NEW p \in 1 .. Width(f)
      PROVE  regs[First(f) + p - 1] \in Word
  <2>1. First(f) + p - 1 \in Registers
    BY Spans DEF Registers
  <2>2. QED
    BY <2>1 DEF RegsType
<1>2. QED
  BY <1>1, ContentWords

LEMMA AskedFields == \A question \in Questions : AskedField[question] \in Fields
BY DEF AskedField, Questions, SystemQuestions, SourceQuestions, MeasureQuestions, Fields, Span

\* Words written keep the registers to words, and the output to on or off.
LEMMA WrittenWords ==
    ASSUME RegsType, NEW first \in Nat, NEW words, Len(words) \in Nat,
           \A i \in 1 .. Len(words) : words[i] \in Word,
           18 \in first .. first + Len(words) - 1 => words[18 - first + 1] \in {0, 1},
           regs' = regs \/ regs' = Overwrite(first, words)
    PROVE  RegsType'
<1>1. CASE regs' = regs
  BY <1>1 DEF RegsType
<1>2. CASE regs' = Overwrite(first, words)
  <2> DEFINE written == first .. first + Len(words) - 1
  <2>1. regs' = [r \in Registers |-> IF r \in written THEN words[r - first + 1] ELSE regs[r]]
    BY <1>2 DEF Overwrite
  <2>2. \A r \in written : r - first + 1 \in 1 .. Len(words)
    OBVIOUS
  <2>3. 18 \in written => words[18 - first + 1] \in {0, 1}
    OBVIOUS
  <2>4. 18 \in Registers
    BY DEF Registers
  <2> HIDE DEF written
  <2>5. \A r \in Registers : regs'[r] \in Word
    BY <2>1, <2>2 DEF RegsType
  <2>6. regs'[18] \in {0, 1}
    BY <2>1, <2>3, <2>4 DEF RegsType
  <2>7. QED
    BY <2>1, <2>5, <2>6 DEF RegsType
<1>3. QED
  BY <1>1, <1>2

LEMMA DriftWords ==
    ASSUME RegsType, NEW f \in Changing, Drift(f)
    PROVE  RegsType'
<1>1. regs' = [r \in Registers |-> IF r \in RegistersOf(f) THEN Changed(f, r) ELSE regs[r]]
  BY DEF Drift
<1>2. f \in Fields
  BY SupplyAssumption
<1>3. RegistersOf("Output") = {18} /\ \A g \in Fields \ {"Output"} : 18 \notin RegistersOf(g)
  BY SMTT(30) DEF RegistersOf, First, Width, Span, Fields
<1>4. 18 \in Registers
  BY DEF Registers
<1>5. \A r \in Registers : regs[r] \in Int /\ (regs[r] + 1) % 65536 \in Word
  <2>0. \A n \in Word : n \in Int
    BY DEF Word
  <2>1. \A r \in Registers : regs[r] \in Int
    BY <2>0 DEF RegsType
  <2>2. \A n \in Int : (n + 1) % 65536 \in Int
                       /\ 0 <= (n + 1) % 65536 /\ (n + 1) % 65536 <= 65535
    OBVIOUS
  <2>3. QED
    BY <2>1, <2>2, WordRange
<1>6. 0 \in Word /\ 1 \in Word
  BY WordRange
<1>7. CASE f = "Output"
  <2>1. \A r \in RegistersOf(f) : Changed(f, r) \in {0, 1} /\ r = 18
    BY <1>3, <1>7 DEF Changed, RegsType
  <2>2. QED
    BY <1>1, <1>4, <1>6, <2>1, <1>3, <1>7 DEF RegsType
<1>8. CASE f # "Output"
  <2>1. \A r \in Registers : Changed(f, r) \in Word
    BY <1>5, <1>8 DEF Changed
  <2>2. 18 \notin RegistersOf(f)
    BY <1>2, <1>3, <1>8
  <2>3. QED
    BY <1>1, <1>4, <2>1, <2>2 DEF RegsType
<1>9. QED
  BY <1>7, <1>8

LEMMA RegsTypeStep ==
    RegsType /\ [Next]_vars => RegsType'
<1> SUFFICES ASSUME RegsType, [Next]_vars
             PROVE  RegsType'
  OBVIOUS
<1>0. ASSUME UNCHANGED regs
      PROVE  RegsType'
  BY <1>0 DEF RegsType
<1>1. ASSUME NEW c \in Numbers \cup Switches \cup ChoiceCommands, NEW v, NEW word \in Word,
             c \in Switches => word \in {0, 1},
             NEW outcome, Write(c, v, Register[c], <<word>>, outcome)
      PROVE  RegsType'
  <2>1. Register[c] \in Nat /\ (Register[c] = 18 => c \in Switches)
    BY ExactPlaces DEF Numbers, Switches, ChoiceCommands
  <2> DEFINE words == <<word>>
  <2>2. Len(words) = 1 /\ words[1] = word
    OBVIOUS
  <2>3. regs' = regs \/ regs' = Overwrite(Register[c], words)
    BY <1>1 DEF Write
  <2> HIDE DEF words
  <2>4. 18 \in Register[c] .. Register[c] + Len(words) - 1 => words[18 - Register[c] + 1] \in {0, 1}
    <3>1. ASSUME 18 \in Register[c] .. Register[c] + Len(words) - 1
          PROVE  Register[c] = 18
      BY <2>1, <2>2, <3>1
    <3>2. 18 - 18 + 1 = 1
      OBVIOUS
    <3>3. QED
      BY <1>1, <2>1, <2>2, <3>1, <3>2
  <2>5. \A i \in 1 .. Len(words) : words[i] \in Word
    BY <2>2
  <2>6. Len(words) \in Nat
    BY <2>2
  <2>7. QED
    BY <2>1, <2>3, <2>4, <2>5, <2>6, WrittenWords
<1>2. 0 \in Word /\ 1 \in Word
  BY WordRange
<1>3. ASSUME NEW c \in Numbers, NEW unit \in Units, NEW q \in Amounts, SetNumber(c, unit, q)
      PROVE  RegsType'
  <2>1. CASE Refuse
    BY <1>0, <2>1 DEF Refuse
  <2>2. ASSUME NEW outcome \in Outcomes, NEW word \in Converted(q, Multi(c)),
               Write(c, q, Register[c], <<word>>, outcome)
        PROVE  RegsType'
    <3>1. word \in Word /\ c \notin Switches
      BY NumberIsHeld DEF Numbers, Switches
    <3>2. QED
      BY <1>1, <2>2, <3>1
  <2>3. QED
    BY <1>3, <2>1, <2>2 DEF SetNumber
<1>4. ASSUME NEW c \in ChoiceCommands, NEW v \in Choices, SetChoice(c, v)
      PROVE  RegsType'
  <2>1. CASE Refuse
    BY <1>0, <2>1 DEF Refuse
  <2>2. ASSUME Legal(c, v), NEW outcome \in Outcomes, Write(c, v, Register[c], <<v>>, outcome)
        PROVE  RegsType'
    <3>1. v \in Int
      BY SupplyAssumption
    <3>2. /\ Legal("Rcl", v) => v >= 1 /\ v - 1 < 9
          /\ Legal("DisplayBrightness", v) => 0 <= v /\ v <= 5
          /\ Legal("DisplayLanguage", v) => 0 <= v /\ v <= 4
      BY DEF Legal, NumberOfPresets
    <3>3. 0 <= v /\ v <= 65535
      BY <2>2, <3>1, <3>2 DEF ChoiceCommands
    <3>4. v \in Word /\ c \notin Switches
      BY <3>1, <3>3, WordRange DEF ChoiceCommands, Switches
    <3>5. QED
      BY <1>1, <2>2, <3>4
  <2>3. QED
    BY <1>4, <2>1, <2>2 DEF SetChoice
<1>5. ASSUME NEW c \in Switches, NEW on \in {0, 1}, SetSwitch(c, on)
      PROVE  RegsType'
  BY <1>1, <1>2, <1>5 DEF SetSwitch
<1>6. ASSUME NEW c \in ClockCommands, NEW parts \in [1 .. 3 -> Nat], SetClock(c, parts)
      PROVE  RegsType'
  <2> DEFINE words == [i \in 1 .. 3 |-> parts[i] % ParameterSize(c)]
  <2>1. PICK outcome \in Outcomes : Write(c, parts, Register[c], words, outcome)
    BY <1>6 DEF SetClock
  <2>2. Register[c] \in {48, 51}
    BY ExactPlaces DEF ClockCommands
  <2>3. \A i \in 1 .. 3 : words[i] \in Word
    <3>1. \A n \in Nat : /\ n % 65536 \in Int /\ 0 <= n % 65536 /\ n % 65536 <= 65535
                         /\ n % 256 \in Int /\ 0 <= n % 256 /\ n % 256 <= 65535
      OBVIOUS
    <3>2. \A n \in Nat : n % 65536 \in Word /\ n % 256 \in Word
      BY <3>1, WordRange
    <3>3. QED
      BY <3>2 DEF ParameterSize
  <2>4. Len(words) = 3
    OBVIOUS
  <2> HIDE DEF words
  <2>5. 18 \notin Register[c] .. Register[c] + Len(words) - 1
    BY <2>2, <2>4
  <2>6. regs' = regs \/ regs' = Overwrite(Register[c], words)
    BY <2>1 DEF Write
  <2>7. QED
    BY <2>2, <2>3, <2>4, <2>5, <2>6, WrittenWords
<1>7. CASE ToggleSwitch
  <2>1. PICK outcome \in Outcomes, on \in {0, 1} :
            Write("OutputState", on, First("Output"), <<on>>, outcome)
    BY <1>7 DEF ToggleSwitch
  <2>2. "OutputState" \in Switches /\ First("Output") = Register["OutputState"]
    BY ExactPlaces, OtherPlaces DEF Switches
  <2>3. QED
    BY <1>1, <1>2, <2>1, <2>2
<1>8. ASSUME NEW f \in Changing, Drift(f)
      PROVE  RegsType'
  BY <1>8, DriftWords
<1>9. ASSUME NEW question \in Questions, Ask(question)
      PROVE  RegsType'
  BY <1>0, <1>9 DEF Ask
<1>10. CASE StatusGet \/ PsuGet \/ ReadChunk \/ ReadFails \/ ToggleOut
  BY <1>0, <1>10 DEF StatusGet, PsuGet, ReadChunk, ReadFails, ToggleOut
<1>11. CASE UNCHANGED vars
  BY <1>0, <1>11 DEF vars
<1>12. ASSUME NEW date \in Dates, SetClock("SystemDate", date)
       PROVE  RegsType'
  BY <1>6, <1>12, SupplyAssumption DEF ClockCommands
<1>13. ASSUME NEW time \in Times, SetClock("SystemTime", time)
       PROVE  RegsType'
  BY <1>6, <1>13, SupplyAssumption DEF ClockCommands
<1>14. QED
  BY <1>3, <1>4, <1>5, <1>7, <1>8, <1>9, <1>10, <1>11, <1>12, <1>13 DEF Next, Scpi, Web

\* An answer or an acknowledgement, with no request under way.
LEMMA AnswerType ==
    ASSUME RestType, Free, HistoryType', ReplyType'
    PROVE  RestType'
<1>1. JobType'
  BY DEF Free, JobType
<1>2. ValuesType'
  BY DEF Free, Nothing, ValuesType
<1>3. QED
  BY <1>1, <1>2 DEF RestType

LEMMA ReadoutType ==
    ASSUME NEW subset \in BOOLEAN, StartReadout(subset)
    PROVE  JobType' /\ ValuesType' /\ ReplyType' /\ DOMAIN during' = Fields
<1>1. 0 \in Marks
  BY DEF Marks
<1>2. JobType'
  BY <1>1, MarksAre DEF StartReadout, JobType
<1>3. ValuesType' /\ ReplyType' /\ DOMAIN during' = Fields
  BY DEF StartReadout, Nothing, ValuesType, ReplyType
<1>4. QED
  BY <1>2, <1>3

LEMMA ChunkType ==
    ASSUME RInv, RegsType, RestType, ReadChunk
    PROVE  RestType'
<1>1. Standing
  BY DEF RInv, ReadInv, ReadChunk
<1>2. /\ DOMAIN values' \subseteq Registers
      /\ \A r \in DOMAIN values' : values'[r] \in Word
  <2> DEFINE chunk == Chunk(job.next, job.subset)
  <2>1. values' = [r \in DOMAIN values \cup chunk |-> IF r \in chunk THEN regs[r] ELSE values[r]]
    BY DEF ReadChunk
  <2>2. DOMAIN values' \subseteq Registers
    BY ChunkIsRead
  <2> HIDE DEF chunk
  <2>3. chunk \subseteq Registers
    BY <2>1, <2>2
  <2>4. QED
    BY <2>1, <2>2, <2>3 DEF RestType, ValuesType, RegsType
<1>3. HistoryType'
  BY DEF ReadChunk, RestType, HistoryType
<1>4. /\ job = [op |-> "read", subset |-> job.subset, next |-> job.next]
      /\ job.subset \in BOOLEAN /\ job.next \in Marks /\ Total(job.subset) \in {43, 120}
  BY <1>1, Totals DEF Standing
<1>5. CASE job'.op = "read"
  <2>1. /\ job.next + 20 < Total(job.subset) /\ reply' = reply
        /\ job' = [job EXCEPT !.next = job.next + 20]
    BY <1>5, NoReadoutName DEF ReadChunk, ChunkSize
  <2>2. job.next + 20 \in Marks
    BY <1>4, <2>1 DEF Marks
  <2>3. job' = [op |-> "read", subset |-> job.subset, next |-> job.next + 20]
    BY <1>4, <2>1
  <2>4. JobType'
    BY <1>4, <2>2, <2>3, MarksAre DEF JobType
  <2>5. QED
    BY <1>2, <1>3, <2>1, <2>4 DEF RestType, ReplyType, ValuesType
<1>6. CASE job'.op # "read"
  <2>1. /\ job' = Idle
        /\ reply' = [to |-> "readout", report |-> Report(values', job.subset)]
        /\ \A f \in ReportedFields(job.subset) :
               /\ \A p \in 1 .. Width(f) : First(f) + p - 1 \in DOMAIN values'
               /\ reply'.report[f] = Content(values', f)
    BY <1>6, ReportIsRead
  <2>2. DOMAIN reply'.report = ReportedFields(job.subset)
    BY <2>1 DEF Report
  <2>3. \A f \in DOMAIN reply'.report : reply'.report[f] \in [1 .. Width(f) -> Word]
    BY <1>2, <1>4, <2>1, <2>2, Reported, ContentWords
  <2>4. ReplyType'
    BY <1>4, <2>1, <2>2, <2>3 DEF ReplyType
  <2>5. QED
    BY <1>2, <1>3, <2>1, <2>4 DEF RestType, JobType, ValuesType
<1>7. QED
  BY <1>5, <1>6

LEMMA RestTypeStep ==
    RInv /\ RegsType /\ RestType /\ [Next]_vars => RestType'
<1> SUFFICES ASSUME RInv, RegsType, RestType, [Next]_vars
             PROVE  RestType'
  OBVIOUS
<1>1. ASSUME Change
      PROVE  changes' \in 0 .. MaxChanges
  BY <1>1, SupplyAssumption DEF Change, RestType, HistoryType
<1>2. ASSUME NEW c, NEW v, NEW first, NEW words, NEW outcome,
             Write(c, v, first, words, outcome)
      PROVE  DOMAIN asked' = Settings
  BY <1>2 DEF Write, RestType, HistoryType
<1>3. ASSUME Free
      PROVE  DOMAIN during' = Fields
  BY <1>3 DEF Free, NoReadout
<1>4. ASSUME Free, Refuse
      PROVE  RestType'
  BY <1>3, <1>4, AnswerType DEF Refuse, RestType, HistoryType, ReplyType
<1>5. ASSUME NEW c \in Settings, NEW v, NEW first, NEW words, NEW outcome, Free, Change,
             Write(c, v, first, words, outcome), Acknowledge(c, outcome)
      PROVE  RestType'
  <2>1. HistoryType'
    BY <1>1, <1>2, <1>3, <1>5 DEF HistoryType
  <2>2. ReplyType'
    BY <1>5 DEF Acknowledge, ReplyType
  <2>3. QED
    BY <1>5, <2>1, <2>2, AnswerType
<1>6. ASSUME NEW c \in Numbers, NEW unit \in Units, NEW q \in Amounts, SetNumber(c, unit, q)
      PROVE  RestType'
  BY <1>4, <1>5, <1>6, SettingPlaces DEF SetNumber
<1>7. ASSUME NEW c \in ChoiceCommands, NEW v \in Choices, SetChoice(c, v)
      PROVE  RestType'
  BY <1>4, <1>5, <1>7, SettingPlaces DEF SetChoice
<1>8. ASSUME NEW c \in Switches, NEW on \in {0, 1}, SetSwitch(c, on)
      PROVE  RestType'
  BY <1>5, <1>8, SettingPlaces DEF SetSwitch
<1>9. ASSUME NEW c \in ClockCommands, NEW parts, SetClock(c, parts)
      PROVE  RestType'
  BY <1>5, <1>9, SettingPlaces DEF SetClock
<1>10. ASSUME NEW question \in Questions, Ask(question)
       PROVE  RestType'
  <2>1. HistoryType'
    BY <1>3, <1>10 DEF Ask, RestType, HistoryType
  <2>2. Content(regs, AskedField[question]) \in [1 .. Width(AskedField[question]) -> Word]
    BY AskedFields, HeldWords
  <2>3. ReplyType'
    BY <1>10, <2>2 DEF Ask, ReplyType
  <2>4. Free
    BY <1>10 DEF Ask
  <2>5. QED
    BY <2>1, <2>3, <2>4, AnswerType
<1>11. CASE StatusGet \/ PsuGet
  BY <1>11, ReadoutType DEF StatusGet, PsuGet, RestType, HistoryType
<1>12. ASSUME GiveUp
       PROVE  JobType' /\ ValuesType' /\ ReplyType' /\ DOMAIN during' = Fields
  BY <1>12 DEF GiveUp, JobType, ValuesType, Nothing, NoReadout, ReplyType
<1>13. CASE ReadChunk
  BY <1>13, ChunkType
<1>14. CASE ReadFails
  BY <1>12, <1>14 DEF ReadFails, RestType, HistoryType
<1>15. CASE ToggleOut
  <2>1. JobType'
    <3> DEFINE on == regs[First("Output")] # 0
    <3>1. job' = [op |-> "switch", on |-> on] \/ job' = [op |-> "switch", on |-> FALSE]
      BY <1>15 DEF ToggleOut
    <3>2. on \in BOOLEAN
      OBVIOUS
    <3> HIDE DEF on
    <3>3. \A b \in BOOLEAN : [op |-> "switch", on |-> b] \in [op : {"switch"}, on : BOOLEAN]
      OBVIOUS
    <3>4. QED
      BY <3>1, <3>2, <3>3, Zenon DEF JobType
  <2>2. ValuesType' /\ ReplyType' /\ HistoryType'
    BY <1>1, <1>15 DEF ToggleOut, Nothing, NoReadout, ValuesType, ReplyType, RestType, HistoryType
  <2>3. QED
    BY <2>1, <2>2 DEF RestType
<1>16. CASE ToggleSwitch
  <2>1. PICK outcome \in Outcomes, on \in {0, 1} :
            /\ Write("OutputState", on, First("Output"), <<on>>, outcome)
            /\ changes' = changes
            /\ StartReadout(TRUE) \/ GiveUp
    BY <1>16 DEF ToggleSwitch
  <2>2. DOMAIN asked' = Settings
    BY <1>2, <2>1
  <2>3. JobType' /\ ValuesType' /\ ReplyType' /\ DOMAIN during' = Fields
    BY <1>12, <2>1, ReadoutType
  <2>4. QED
    BY <2>1, <2>2, <2>3 DEF RestType, HistoryType
<1>17. ASSUME NEW f \in Changing, Drift(f)
       PROVE  RestType'
  <2>1. HistoryType'
    <3>1. Change /\ DOMAIN asked' = Settings
      BY <1>17 DEF Drift
    <3>2. DOMAIN during' = Fields
      BY <1>17 DEF Drift, RestType, HistoryType
    <3>3. QED
      BY <1>1, <3>1, <3>2 DEF HistoryType
  <2>2. QED
    BY <1>17, <2>1 DEF Drift, RestType, JobType, ValuesType, ReplyType
<1>18. CASE UNCHANGED vars
  BY <1>18 DEF vars, RestType, JobType, ValuesType, ReplyType, HistoryType
<1>19. QED
  BY <1>6, <1>7, <1>8, <1>9, <1>10, <1>11, <1>13, <1>14, <1>15, <1>16, <1>17, <1>18
     DEF Next, Scpi, Web, ClockCommands

\* Registers hold 16 bits, and a page answers with words that were read, every
\* one of them, for all contents the supply comes with.
THEOREM SupplyTypeCorrect == Spec => []TypeOK
<1>1. Init => RInv /\ RegsType /\ RestType
  <2> SUFFICES ASSUME Init
               PROVE  RInv /\ RegsType /\ RestType
    OBVIOUS
  <2>1. RInv
    BY NoReadoutName DEF Init, RInv, ReadInv, ReportsAreTrue
  <2>2. RegsType
    BY SupplyAssumption, LegalContents, OtherPlaces DEF Init, RegsType
  <2>3. HistoryType
    BY SupplyAssumption DEF Init, HistoryType, NoReadout
  <2>4. JobType /\ ValuesType /\ ReplyType
    BY DEF Init, JobType, ValuesType, Nothing, ReplyType
  <2>5. QED
    BY <2>1, <2>2, <2>3, <2>4 DEF RestType
<1>2. RegsType /\ RestType => TypeOK
  BY TypeFollows
<1>3. QED
  BY <1>1, <1>2, ReportStep, RegsTypeStep, RestTypeStep, PTL DEF Spec
=============================================================================
