------------------------------ MODULE Nau7802 ------------------------------
(***************************************************************************)
(* The NAU7802 converter of the gas sensor and the register access of its  *)
(* library: every change of a field reads the whole register, replaces the *)
(* field and writes the register back.  A read that fails returns 0xFF,    *)
(* and the caller cannot tell; a write that fails changes nothing.         *)
(*                                                                         *)
(* Only the fields on which readings depend are kept.  Of the chip: it     *)
(* converts when both sections are powered, the reset bit is clear and the *)
(* clock is the internal one (no crystal is fitted).                       *)
(***************************************************************************)
EXTENDS Naturals

CONSTANT MaxFaults   \* bound on the register accesses that fail
ASSUME FaultBound == MaxFaults \in Nat

VARIABLES
  reg,     \* the value of every field
  calOf,   \* the configuration of the last calibration, or CalError
  conv,    \* what is in the output register: nothing, or a conversion that is
           \* "right", "wrong" (made under another configuration) or "old"
  ready,   \* the CR bit
  faults   \* history: the accesses that failed

chipVars == <<reg, calOf, conv, ready, faults>>

PuCtrl == {"RR", "PUD", "PUA", "OSCS", "AVDDS"}
Ctrl1  == {"GAIN", "VLDO"}
Ctrl2  == {"CRS", "CALS", "CHS"}
Fields == PuCtrl \cup Ctrl1 \cup Ctrl2
RegisterOf(field) == CHOOSE register \in {PuCtrl, Ctrl1, Ctrl2} : field \in register

Default == [field \in Fields |-> 0]
Ones    == [field \in Fields |-> IF field \in {"GAIN", "VLDO", "CRS"} THEN 7 ELSE 1]

\* The configuration that adc_setup asks for, and adc_gasResistivity assumes.
ConfigFields == {"AVDDS", "VLDO", "GAIN", "CRS", "CHS"}
Config(r) == [field \in ConfigFields |-> r[field]]
Uncalibrated == [field \in ConfigFields |-> 0]
CalError     == [field \in ConfigFields |-> 7]   \* no configuration: the CAL_ERR bit
Wanted == [field \in ConfigFields |-> CASE field = "VLDO" -> 7 [] field = "AVDDS" -> 1 [] OTHER -> 0]

Converting(r) == r["PUD"] = 1 /\ r["PUA"] = 1 /\ r["RR"] = 0 /\ r["OSCS"] = 0

ChipInit == /\ reg = Default /\ calOf = Uncalibrated
            /\ conv = "none" /\ ready = FALSE /\ faults = 0

\* What a write of the fields of one register makes of the chip: the reset bit
\* holds everything else at its default.
Written(register, value) ==
  IF register = PuCtrl
    THEN IF value["RR"] = 1 THEN [Default EXCEPT !["RR"] = 1]
                            ELSE [f \in Fields |-> IF f \in PuCtrl THEN value[f] ELSE reg[f]]
    ELSE IF reg["RR"] = 1 THEN reg
                          ELSE [f \in Fields |-> IF f \in register THEN value[f] ELSE reg[f]]

\* setBit, clearBit, setGain, setSampleRate, setLDO.
Put(field, v, readFails) == [IF readFails THEN Ones ELSE reg EXCEPT ![field] = v]

Fails(k) == faults + k <= MaxFaults /\ faults' = faults + k

Rmw(field, v) ==
  \E readFails, writeFails \in BOOLEAN :
    /\ Fails((IF readFails THEN 1 ELSE 0) + (IF writeFails THEN 1 ELSE 0))
    /\ reg' = IF writeFails THEN reg ELSE Written(RegisterOf(field), Put(field, v, readFails))
    /\ IF reg'["RR"] = 1 THEN calOf' = Uncalibrated /\ conv' = "none" /\ ready' = FALSE
       ELSE /\ UNCHANGED <<calOf, ready>>
            /\ conv' = IF Converting(reg') \/ conv = "none" THEN conv ELSE "old"

\* The chip finishes a calibration, well or with an error.
Calibrate ==
  /\ Converting(reg) /\ reg["CALS"] = 1
  /\ calOf' \in {Config(reg), CalError}
  /\ reg' = [reg EXCEPT !["CALS"] = 0]
  /\ UNCHANGED <<conv, ready, faults>>

\* The chip finishes a conversion.
Quality == IF Config(reg) = Wanted /\ calOf = Wanted THEN "right" ELSE "wrong"
Convert ==
  /\ Converting(reg) /\ reg["CALS"] = 0
  /\ conv' = Quality /\ ready' = TRUE
  /\ UNCHANGED <<reg, calOf, faults>>

\* The supply of the board goes and comes back, or stays.
ChipRestart(powerLost) ==
  /\ IF powerLost THEN reg' = Default /\ calOf' = Uncalibrated /\ conv' = "none" /\ ready' = FALSE
                  ELSE UNCHANGED <<reg, calOf, conv, ready>>
  /\ UNCHANGED faults
=============================================================================
