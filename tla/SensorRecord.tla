---------------------------- MODULE SensorRecord ----------------------------
(***************************************************************************)
(* The sensors of a record: how setup() leaves the thermometer and the     *)
(* converter of the gas sensor, and what sd_recordData prints of them.     *)
(*                                                                         *)
(* todo is the program still to run, as a sequence of operations; a        *)
(* function that is called puts its own before the rest.  A delay is long  *)
(* enough for a measurement of the thermometer and for a conversion.       *)
(*                                                                         *)
(* The fifty and three hundred readings of adc_setup are one each.  Both   *)
(* begin() find their sensors, the thermometer and the environment sensor: *)
(* Recorder has the stop that follows when the thermometer is not found.   *)
(***************************************************************************)
EXTENDS Nau7802, Sequences

VARIABLES
  todo,
  adcHasPower,
  reading,      \* the last result of adc_getReading
  tmpMode,      \* of the thermometer
  tmpReg,       \* when the temperature in its register was measured, setup also for before
  phase,        \* setup, the first record, or a later one
  row,          \* the columns of the present row, an empty one as ""
  disturbed,    \* history: an access of the converter has failed since the last start
  calFailed     \* history: calibrateAFE has returned false since then

vars == <<chipVars, todo, adcHasPower, reading, tmpMode, tmpReg, phase, row,
          disturbed, calFailed>>

-----------------------------------------------------------------------------
(* The program *)

Put1(field, v) == <<"put", field, v>>
Op(name) == <<name>>

\* NAU7802::reset, powerUp, powerDown, setLDO, calibrateAFE.  (Mutant:
\* calibrateAFE does not start a calibration.)
Reset     == <<Put1("RR", 1), Put1("RR", 0)>>
PowerUp   == <<Put1("PUD", 1), Put1("PUA", 1)>>
PowerDown == <<Put1("PUD", 0), Put1("PUA", 0), Op("powered_off")>>
SetLDO(v) == <<Put1("VLDO", v), Put1("AVDDS", 1)>>
CalibrateOnlyWaits == <<Op("calibrated")>>
CalibrateAFE == <<Put1("CALS", 1), Op("calibrated")>>

AdcBegin == Reset \o PowerUp \o SetLDO(4) \o <<Put1("GAIN", 7), Put1("CRS", 3)>> \o CalibrateAFE
AdcSetup == <<Put1("GAIN", 0), Put1("CRS", 0)>> \o SetLDO(7) \o <<Put1("CHS", 0)>>
            \o CalibrateAFE \o PowerDown
            \o <<Op("adc_powerUp"), Op("reading"), Op("adc_powerUp"), Op("reading")>> \o PowerDown

TmpSetup == <<Op("tmp_reset"), <<"tmp_mode", "continuous">>, Op("delay"),
              <<"tmp_mode", "one_shot">>, Op("delay")>>

Setup == TmpSetup \o <<Op("adc_begin")>> \o AdcSetup \o <<Op("adc_powerUp"), Op("loop")>>
Record == <<Op("adc_powerUp"), Op("reading"), Op("adc"), Op("tmp"), Op("env"), Op("rest"),
            Op("flush"), Op("delay"), Op("loop")>>

At(name) == todo # <<>> /\ Head(todo)[1] = name
Continue == todo' = Tail(todo)
Run(ops) == todo' = ops \o Tail(todo)

-----------------------------------------------------------------------------
(* The gas sensor *)

Register ==
  /\ At("put")
  /\ Rmw(Head(todo)[2], Head(todo)[3])
  /\ disturbed' = (disturbed \/ faults' > faults)
  /\ Continue
  /\ UNCHANGED <<adcHasPower, reading, tmpMode, tmpReg, phase, row, calFailed>>

\* NAU7802::begin asks twice for an answer and gives up; nobody stops then.
Begin ==
  /\ At("adc_begin")
  /\ \/ Run(AdcBegin) /\ UNCHANGED <<faults, disturbed>>
     \/ Fails(2) /\ Continue /\ disturbed' = TRUE
  /\ UNCHANGED <<reg, calOf, conv, ready, adcHasPower, reading, tmpMode, tmpReg, phase, row, calFailed>>

\* waitForCalibrateAFE(1000): the chip has finished, well or not, or a second is over;
\* begin() and adc_setup go on whatever it returns.
Calibrated ==
  /\ At("calibrated")
  /\ calFailed' = (calFailed \/ reg["CALS"] = 1 \/ calOf = CalError)
  /\ Continue
  /\ UNCHANGED <<chipVars, adcHasPower, reading, tmpMode, tmpReg, phase, row, disturbed>>

\* (Mutant: the flag is forgotten.)
PoweredOffUnnoted ==
  /\ At("powered_off")
  /\ Continue
  /\ UNCHANGED <<chipVars, adcHasPower, reading, tmpMode, tmpReg, phase, row, disturbed, calFailed>>
PoweredOff ==
  /\ At("powered_off")
  /\ adcHasPower' = FALSE
  /\ Continue
  /\ UNCHANGED <<chipVars, reading, tmpMode, tmpReg, phase, row, disturbed, calFailed>>

AdcPowerUp ==
  /\ At("adc_powerUp")
  /\ IF adcHasPower THEN Continue ELSE Run(PowerUp \o <<Op("adc_delay"), Op("powered_on")>>)
  /\ UNCHANGED <<chipVars, adcHasPower, reading, tmpMode, tmpReg, phase, row, disturbed, calFailed>>

\* delay(600): a chip that converts has made a conversion when it is over.
AdcDelay ==
  /\ At("adc_delay")
  /\ Converting(reg) /\ reg["CALS"] = 0 => conv = Quality /\ ready
  /\ Continue
  /\ UNCHANGED <<chipVars, adcHasPower, reading, tmpMode, tmpReg, phase, row, disturbed, calFailed>>

PoweredOn ==
  /\ At("powered_on")
  /\ adcHasPower' = TRUE
  /\ Continue
  /\ UNCHANGED <<chipVars, reading, tmpMode, tmpReg, phase, row, disturbed, calFailed>>

\* while (!available()) and getReading: a status that cannot be read is taken for
\* ready; a result that cannot be read is 0 and leads to another turn.
Seen == \/ ready /\ UNCHANGED <<faults, disturbed>>
        \/ ~ready /\ Fails(1) /\ disturbed' = TRUE
GetReading ==
  /\ At("reading")
  /\ Seen
  /\ IF conv = "none" THEN UNCHANGED <<todo, reading, conv>>
     ELSE reading' = conv /\ conv' = "old" /\ Continue
  /\ ready' = FALSE
  /\ UNCHANGED <<reg, calOf, adcHasPower, tmpMode, tmpReg, phase, row, calFailed>>
GetReadingFails ==
  /\ At("reading") /\ ready
  /\ Fails(1) /\ disturbed' = TRUE
  /\ UNCHANGED <<reg, calOf, conv, ready, todo, adcHasPower, reading, tmpMode, tmpReg, phase, row, calFailed>>

Chip == /\ Calibrate \/ Convert
        /\ UNCHANGED <<todo, adcHasPower, reading, tmpMode, tmpReg, phase, row, disturbed, calFailed>>

-----------------------------------------------------------------------------
(* The thermometer *)

\* A measurement, if the mode has one.
Measures ==
  /\ tmpReg' = IF tmpMode = "shutdown" THEN tmpReg ELSE phase
  /\ tmpMode' = IF tmpMode = "one_shot" THEN "shutdown" ELSE tmpMode

\* reset() and its RegisterBits::write, whose result nobody reads: a lost write
\* leaves the chip as the last life has left it, a lost read does no harm.
TmpReset ==
  /\ At("tmp_reset")
  /\ \/ tmpMode' = "continuous" /\ UNCHANGED faults
     \/ Fails(1) /\ tmpMode' \in {tmpMode, "continuous"}
     \/ Fails(2) /\ UNCHANGED tmpMode
  /\ Run(<<Op("tmp_wait")>>)
  /\ UNCHANGED <<reg, calOf, conv, ready, adcHasPower, reading, tmpReg, phase, row, disturbed, calFailed>>

\* waitForData(), without a limit: flags that cannot be read are taken for data.
TmpWait ==
  /\ At("tmp_wait")
  /\ \/ tmpMode # "shutdown" /\ Measures /\ UNCHANGED faults
     \/ Fails(1) /\ UNCHANGED <<tmpMode, tmpReg>>
  /\ Continue
  /\ UNCHANGED <<reg, calOf, conv, ready, adcHasPower, reading, phase, row, disturbed, calFailed>>

\* RegisterBits::write: with a failed read every other bit of the configuration is
\* written as 1, the one that resets the chip too.
TmpSetMode ==
  /\ At("tmp_mode")
  /\ \/ tmpMode' = Head(todo)[2] /\ UNCHANGED faults
     \/ Fails(1) /\ (tmpMode' = "continuous" \/ UNCHANGED tmpMode)
  /\ Continue
  /\ UNCHANGED <<reg, calOf, conv, ready, adcHasPower, reading, tmpReg, phase, row, disturbed, calFailed>>

\* A delay, in which the thermometer measures as its mode says.
Delay ==
  /\ At("delay")
  /\ Measures
  /\ Continue
  /\ UNCHANGED <<chipVars, adcHasPower, reading, phase, row, disturbed, calFailed>>

-----------------------------------------------------------------------------
(* The row *)

\* loop() has printed the row and its new line.  (Mutant: the row goes on.)
LoopSameLine ==
  /\ At("loop")
  /\ phase' = IF phase = "setup" THEN "first" ELSE "later"
  /\ row' = Append(row, "time")
  /\ todo' = Record
  /\ UNCHANGED <<chipVars, adcHasPower, reading, tmpMode, tmpReg, disturbed, calFailed>>
Loop ==
  /\ At("loop")
  /\ phase' = IF phase = "setup" THEN "first" ELSE "later"
  /\ row' = <<"time">>
  /\ todo' = Record
  /\ UNCHANGED <<chipVars, adcHasPower, reading, tmpMode, tmpReg, disturbed, calFailed>>

Later == <<"volts", "charge", "ohms", "ppm", "moisture", "end">>
Prints(columns) ==
  /\ row' = row \o columns
  /\ Continue
  /\ UNCHANGED <<chipVars, adcHasPower, reading, tmpMode, tmpReg, phase, disturbed, calFailed>>

\* bme_printReadings: endReading starts a measurement, waits for it, and fetches it.
EnvPrints ==
  /\ At("env")
  /\ \/ Prints(<<"degrees", "pressure", "humidity", "gas">>)
     \/ Prints(<<"", "", "", "", "">>)

RowPrints == \/ At("adc") /\ Prints(<<"adc">>)
             \/ At("tmp") /\ Prints(<<"tmp">>)
             \/ EnvPrints
             \/ At("rest") /\ Prints(Later)
             \/ At("flush") /\ Prints(<<>>)

-----------------------------------------------------------------------------
Init == /\ ChipInit
        /\ todo = Setup /\ adcHasPower = FALSE /\ reading = "none"
        /\ tmpMode = "continuous" /\ tmpReg = "setup"
        /\ phase = "setup" /\ row = <<>> /\ disturbed = FALSE /\ calFailed = FALSE

Restart ==
  /\ \E powerLost \in BOOLEAN :
       ChipRestart(powerLost) /\ tmpMode' = IF powerLost THEN "continuous" ELSE tmpMode
  /\ todo' = Setup /\ adcHasPower' = FALSE /\ reading' = "none"
  /\ phase' = "setup" /\ row' = <<>>
  /\ disturbed' = FALSE /\ calFailed' = FALSE
  /\ tmpReg' = "setup"

Adc == \/ Register \/ Begin \/ Calibrated \/ PoweredOff \/ AdcPowerUp \/ AdcDelay
       \/ PoweredOn \/ GetReading \/ GetReadingFails
Program == Adc \/ TmpReset \/ TmpWait \/ TmpSetMode \/ Delay \/ Loop \/ RowPrints

Next == Program \/ Chip \/ Restart
Spec == Init /\ [][Next]_vars

\* The processor runs, without an access that has to fail, and a chip that converts
\* finishes its conversions.
FairSpec == Spec /\ WF_vars(Program /\ faults' = faults) /\ WF_vars(Chip)

-----------------------------------------------------------------------------
Qualities == {"none", "old", "right", "wrong"}

TypeOK ==
  /\ reg \in [Fields -> 0..7] /\ calOf \in [ConfigFields -> 0..7]
  /\ conv \in Qualities /\ reading \in Qualities
  /\ {ready, adcHasPower, disturbed, calFailed} \subseteq BOOLEAN
  /\ faults \in 0..MaxFaults
  /\ tmpMode \in {"continuous", "one_shot", "shutdown"}
  /\ tmpReg \in {"setup", "first", "later"} /\ phase \in {"setup", "first", "later"}
  /\ Len(row) <= 14

\* After a start without a failed access and with both calibrations well ended, a
\* result that adc_setup ignores, the converter is right, whatever an earlier life has
\* left in its registers: each reading is a conversion of its own, made since the last
\* power-up, under the configuration that adc_gasResistivity assumes and calibrated
\* for it (adc_setup, adc_powerUp, adc_getReading).
ReadingRight == ~disturbed /\ ~calFailed => reading \in {"none", "right"}

\* Records go on for ever unless the processor restarts for ever or one of two endless
\* waits has met its case: the reset of the thermometer was lost after a start that
\* found it shut down, or a failed access has left a converter that stands still
\* (Adafruit_TMP117::reset, waitForData; adc_getReading).
RecordsContinue ==
  \/ []<>At("flush")
  \/ []<>At("tmp_reset")
  \/ <>[](At("tmp_wait") /\ tmpMode = "shutdown" /\ faults > 0)
  \/ <>[](At("reading") /\ ~Converting(reg) /\ disturbed)

\* Adafruit_TMP117/examples/basic_test/basic_test.ino:31 on getEvent: "fill the
\* empty event object with the current measurements": the temperature of a record
\* was not measured before the record before it.
TemperatureCurrent == At("tmp") /\ phase = "later" => tmpReg # "setup"
=============================================================================
