--------------------------- MODULE RidenRegisters ---------------------------
(***************************************************************************)
(* The power supply as RidenModbus sees it (riden_modbus_registers.h,      *)
(* riden_modbus.cpp): registers of 16 bits, what each stands for, where    *)
(* the accessors look for it, and how a number becomes a register's        *)
(* content.                                                                *)
(*                                                                         *)
(* Voltages and currents asked for are in ten thousandths of a volt or an  *)
(* ampere, as fine as any supply counts; registers hold counts, of which   *)
(* "multi" make a volt or an ampere.                                       *)
(*                                                                         *)
(* Operators marked "Fault:" are wrong versions of the operator that       *)
(* follows them; no other definition uses them.                            *)
(***************************************************************************)
EXTENDS Integers

Word == 0 .. 65535

\* What the supply keeps: the first register and the number of registers.  The
\* clock is read as one and set in parts.
Span ==
    [Id |-> <<0, 1>>, SerialNumber |-> <<1, 2>>, Firmware |-> <<3, 1>>,
     SystemTemperatureCelsius |-> <<4, 2>>, SystemTemperatureFahrenheit |-> <<6, 2>>,
     VoltageSet |-> <<8, 1>>, CurrentSet |-> <<9, 1>>,
     VoltageOut |-> <<10, 1>>, CurrentOut |-> <<11, 1>>, PowerOut |-> <<12, 2>>,
     VoltageIn |-> <<14, 1>>, Keypad |-> <<15, 1>>, Protection |-> <<16, 1>>,
     OutputMode |-> <<17, 1>>, Output |-> <<18, 1>>, Preset |-> <<19, 1>>,
     CurrentRange |-> <<20, 1>>, BatteryMode |-> <<32, 1>>, VoltageBattery |-> <<33, 1>>,
     ProbeTemperatureCelsius |-> <<34, 2>>, ProbeTemperatureFahrenheit |-> <<36, 2>>,
     AH |-> <<38, 2>>, WH |-> <<40, 2>>, Clock |-> <<48, 6>>,
     Date |-> <<48, 3>>, Time |-> <<51, 3>>, Calibration |-> <<55, 8>>,
     TakeOk |-> <<66, 1>>, TakeOut |-> <<67, 1>>, PowerOnBoot |-> <<68, 1>>,
     Buzzer |-> <<69, 1>>, Logo |-> <<70, 1>>, Language |-> <<71, 1>>, Brightness |-> <<72, 1>>,
     M0 |-> <<80, 4>>, M1 |-> <<84, 4>>, M2 |-> <<88, 4>>, M3 |-> <<92, 4>>, M4 |-> <<96, 4>>,
     M5 |-> <<100, 4>>, M6 |-> <<104, 4>>, M7 |-> <<108, 4>>, M8 |-> <<112, 4>>, M9 |-> <<116, 4>>]

Fields == DOMAIN Span
First(f) == Span[f][1]
Width(f) == Span[f][2]
RegistersOf(f) == First(f) .. First(f) + Width(f) - 1
Registers == 0 .. 119
SubsetEnd == 42
LastRegister == First("M9") + 3

\* The words of field f where "at" is its first register.
Words(content, f, at) == [p \in 1 .. Width(f) |-> content[at + p - 1]]
Content(content, f) == Words(content, f, First(f))

-----------------------------------------------------------------------------
(* get_all_values(): registers are read twenty at a time.                  *)

NumberOfPresets == 9
\* Fault: one register more at a time.
ChunkSizeAndOne == 21
ChunkSize == 20

\* Fault: the last register of the range is not counted.
TotalButOne(subset) == IF subset THEN SubsetEnd ELSE LastRegister
Total(subset) == (IF subset THEN SubsetEnd ELSE LastRegister) + 1

Chunk(first, subset) ==
    {r \in first .. first + ChunkSize - 1 : r < Total(subset)}

SubsetFields ==
    {"SystemTemperatureCelsius", "SystemTemperatureFahrenheit", "VoltageSet", "CurrentSet",
     "VoltageOut", "CurrentOut", "PowerOut", "VoltageIn", "Keypad", "Protection",
     "OutputMode", "Output", "CurrentRange", "BatteryMode", "VoltageBattery",
     "ProbeTemperatureCelsius", "ProbeTemperatureFahrenheit", "AH", "WH"}
OptionFields ==
    {"Clock", "TakeOk", "TakeOut", "PowerOnBoot", "Buzzer", "Logo", "Language",
     "Brightness", "Calibration"}
\* presets[0] refers to M1.
Presets == <<"M1", "M2", "M3", "M4", "M5", "M6", "M7", "M8", "M9">>
PresetFields == {Presets[i] : i \in 1 .. NumberOfPresets}

ReportedFields(subset) ==
    IF subset THEN SubsetFields ELSE SubsetFields \cup OptionFields \cup PresetFields

\* Where in the registers read the value of field f is taken from.
Look(f) ==
    IF f \in PresetFields
    THEN LET index == (CHOOSE i \in 1 .. NumberOfPresets : Presets[i] = f) - 1
         IN  First("M0") + 4 * (index + 1)
    ELSE First(f)

-----------------------------------------------------------------------------
(* Numbers.                                                                *)

\* begin(): what the identification says of the counts per volt and ampere.
\* The RD6012P's current depends on its range, which the dongle disregards.
Types ==
    {[ids |-> 60180 .. 60189, v |-> 100, i |-> 100],                   \* RD6018
     [ids |-> 60120 .. 60124, v |-> 100, i |-> 100],                   \* RD6012
     [ids |-> 60125 .. 60129, v |-> 1000, i |-> 100],                  \* RD6012P
     [ids |-> 60060 .. 60064, v |-> 100, i |-> 1000],                  \* RD6006
     [ids |-> {60065}, v |-> 1000, i |-> 10000],                       \* RD6006P
     [ids |-> {60301} \cup (60241 .. 65535), v |-> 100, i |-> 100]}    \* RD6030, RD6024
Known(id) == \E t \in Types : id \in t.ids
TypeOf(id) == CHOOSE t \in Types : id \in t.ids

Fine == 10000

PowerOf2[k \in Nat] == IF k = 0 THEN 1 ELSE 2 * PowerOf2[k - 1]
\* n * 2^k modulo m
Shifted[k \in Nat, n \in Nat, m \in Nat] ==
    IF k = 0 THEN n % m ELSE (2 * Shifted[k - 1, n, m]) % m

\* M * 2^a <= n, for any integer a
Reaches(n, M, a) ==
    IF a >= 0 THEN M * PowerOf2[a] <= n ELSE M <= n * PowerOf2[-a]

\* Whether uint16_t(d * M) is n - 1, where n > 0 and the double d is as near to
\* n / M as a double can be.
\* A quotient has 53 binary digits, k of them after the point.  If it was
\* rounded down, the product is below n by rem / 2^k; it is n nevertheless
\* unless that is more than half the distance of doubles just below n.
FallsShort(n, M) ==
    LET a == CHOOSE a \in -14 .. 16 : Reaches(n, M, a) /\ ~Reaches(n, M, a + 1)
        e == CHOOSE e \in 0 .. 15 : PowerOf2[e] <= n /\ n < PowerOf2[e + 1]
        k == 52 - a
        part == Shifted[k, n, 2 * M]
        rem == part % M
        down == 2 * rem < M \/ (2 * rem = M /\ part < M)
        half == e - a - 1 - (IF n = PowerOf2[e] THEN 1 ELSE 0)
    IN  down /\ (half < 0 => rem > 0) /\ (half >= 0 => rem > PowerOf2[half])
Truncated(n, M) == IF n > 0 /\ FallsShort(n, M) THEN n - 1 ELSE n

\* What q comes to in counts, cut towards zero.
InCounts(q, multi) ==
    IF -Fine < q * multi /\ q * multi < 0 THEN 0 ELSE (q * multi) \div Fine

Fits(q, multi) == q >= 0 /\ InCounts(q, multi) \in Word

\* voltage_to_value() and current_to_value().  The conversion of a number that
\* does not fit is undefined: it wraps or saturates.
Converted(q, multi) ==
    LET n == InCounts(q, multi)
    IN  IF n \in Word
        THEN {IF n * Fine = q * multi THEN Truncated(n, multi) ELSE n}
        ELSE {n % 65536, (n - 1) % 65536, 0, 65535}
=============================================================================
