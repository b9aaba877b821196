--------------------------- MODULE RecorderProofs ---------------------------
(***************************************************************************)
(* Theorems about Recorder for every choice of Faults and of the counts:   *)
(* type correctness, the order of heater and boost supply, and the window  *)
(* of the GNSS rail.                                                       *)
(***************************************************************************)
EXTENDS Recorder, TLAPS

Transfer == [low : SUBSET Pins, high : SUBSET Pins]

\* Every function that switches pins consists of transfers of pins of the chip.
LEMMA LedTestType == /\ DOMAIN LedTest = 1..17
                     /\ \A i \in 1..17 : \/ LedTest[i] = Word(IdleWord)
                                         \/ \E p \in Pins \ {Enable5V, Fan1, PwrGNSS, Heater} :
                                              LedTest[i] \in {Low(p), High(p)}
<1>1. DOMAIN LedTest = 1..17
  BY DEF LedTest
<1>2. \A k \in 1..8 : TestPins[k] \in Pins \ {Enable5V, Fan1, PwrGNSS, Heater}
  BY DEF TestPins, Pins, Enable5V, Fan1, PwrGNSS, Heater
<1>3. \A i \in 1..17 : i = 1 \/ i \div 2 \in 1..8
  OBVIOUS
<1>4. QED
  BY <1>1, <1>2, <1>3 DEF LedTest

LEMMA TransfersType ==
  ASSUME NEW f \in DOMAIN Transfers, NEW i \in DOMAIN Transfers[f]
  PROVE  i \in Nat /\ 1 \in DOMAIN Transfers[f] /\ Transfers[f][i] \in Transfer
<1> USE DEF Transfers, Transfer, High, Low, Word, Pins, IdleWord,
            Enable5V, Fan1, PwrGNSS, Heater, Fan2, Led2G, Led2B
<1>1. CASE f = "pcf8575_ledtest"
  <2>1. Transfers[f] = LedTest
    BY <1>1
  <2>2. QED
    BY <2>1, LedTestType, SMTT(30)
<1>2. CASE f \in {"adc_heaterOn", "adc_heaterOff"}
  BY <1>2, SMTT(30) DEF HeaterOn, HeaterOff
<1>3. CASE f \in {"pcf8575_setidle", "gps_standby", "gps_shutdown"}
  BY <1>3, SMTT(30) DEF SetIdle, GpsStandby, GpsShutdown
<1>4. CASE f \in {"gps_setupBegin", "gps_setupEnd", "gps_process"}
  BY <1>4, SMTT(30) DEF GpsSetupBegin, GpsSetupEnd, GpsFixBlink
<1>5. CASE f \in {"fan1_on", "fan1_off"}
  BY <1>5
<1>6. QED
  BY <1>1, <1>2, <1>3, <1>4, <1>5

\* The names of those functions; a call starts at a transfer the function has.
LEMMA FunctionNames ==
  /\ DOMAIN Transfers =
       {"pcf8575_setidle", "pcf8575_ledtest", "adc_heaterOn", "adc_heaterOff",
        "gps_standby", "gps_shutdown", "gps_setupBegin", "gps_setupEnd", "gps_process",
        "fan1_on", "fan1_off"}
  /\ \A f \in DOMAIN Transfers : 1 \in DOMAIN Transfers[f]
<1>1. 1 \in DOMAIN LedTest
  BY LedTestType
<1>2. QED
  BY <1>1 DEF Transfers, SetIdle, HeaterOn, HeaterOff, GpsStandby, GpsShutdown,
              GpsSetupBegin, GpsSetupEnd, GpsFixBlink

LEMMA InitType == Init => TypeOK
<1> SUFFICES ASSUME Init PROVE TypeOK
  OBVIOUS
<1>1. writebuf \in SUBSET Pins /\ port \in SUBSET Pins /\ torn \in BOOLEAN
  BY DEF Init, PortInit
<1>2. pc \in Places /\ call = "none" /\ step = 1 /\ n \in Nat /\ fanAge \in 0..2
  BY DEF Init, Places
<1>3. /\ haveMoisture \in BOOLEAN /\ tmpFound \in BOOLEAN /\ tmpMeasures \in BOOLEAN /\ mounted \in BOOLEAN /\ fileOpen \in BOOLEAN
      /\ adcHasPower \in BOOLEAN /\ adcPowered \in BOOLEAN /\ adcFitted \in BOOLEAN
      /\ fan1On \in BOOLEAN /\ halted \in BOOLEAN
  BY DEF Init
<1>4. QED
  BY <1>1, <1>2, <1>3, FunctionNames DEF TypeOK

LEMMA PinWriteType == TypeOK /\ PinWrite => TypeOK'
<1> SUFFICES ASSUME TypeOK, PinWrite PROVE TypeOK'
  OBVIOUS
<1> DEFINE w == Transfers[call][step]
<1>1. call \in DOMAIN Transfers /\ step \in DOMAIN Transfers[call] /\ step \in Nat
  BY DEF PinWrite, TypeOK
<1>2. w \in Transfer
  BY <1>1, TransfersType
<1>3. writebuf' \in SUBSET Pins /\ port' \in SUBSET Pins /\ torn' \in BOOLEAN
  <2> HIDE DEF w
  <2>1. Write(w) /\ writebuf \in SUBSET Pins /\ port \in SUBSET Pins /\ torn \in BOOLEAN
    BY DEF PinWrite, TypeOK, w
  <2>2. writebuf' = Shadow(w) /\ Shadow(w) \in SUBSET Pins
    BY <1>2, <2>1 DEF Write, Shadow, Transfer
  <2>3. CASE Delivered(w)
    BY <2>2, <2>3 DEF Delivered
  <2>4. CASE Lost
    BY <2>1, <2>2, <2>4 DEF Lost
  <2>5. CASE Torn(w)
    BY <2>1, <2>2, <2>5 DEF Torn
  <2>6. QED
    BY <2>1, <2>3, <2>4, <2>5 DEF Write
<1>4. /\ call' \in DOMAIN Transfers \cup {"none", "error_halt"} /\ step' \in Nat
      /\ IF call' \in DOMAIN Transfers THEN step' \in DOMAIN Transfers[call'] ELSE step' = 1
  BY <1>1, FunctionNames DEF PinWrite
<1>5. QED
  BY <1>3, <1>4 DEF PinWrite, TypeOK, sensorVars, tmpVars, adcVars, sdVars, fanVars

\* The steps that set up the board keep the types.
LEMMA SetupType ==
  TypeOK /\ (\/ ErrorHaltReturns \/ Pcf8575Begin \/ Pcf8575SetIdle \/ UsbDriveBegin
            \/ UsbDriveEnds \/ MoistureStandby \/ MoistureSetup \/ MoistureGet
            \/ Tmp117Begin \/ Tmp117Null \/ Tmp117Data \/ Tmp117FlagsLost \/ RtccSetup
            \/ SdBegin \/ SdOpen \/ SdPrintHeader \/ SetupHeaterOn) => TypeOK'
<1> SUFFICES ASSUME TypeOK PROVE
      (\/ ErrorHaltReturns \/ Pcf8575Begin \/ Pcf8575SetIdle \/ UsbDriveBegin
       \/ UsbDriveEnds \/ MoistureStandby \/ MoistureSetup \/ MoistureGet
       \/ Tmp117Begin \/ Tmp117Null \/ Tmp117Data \/ Tmp117FlagsLost \/ RtccSetup
       \/ SdBegin \/ SdOpen \/ SdPrintHeader \/ SetupHeaterOn) => TypeOK'
  OBVIOUS
<1> USE FunctionNames DEF TypeOK, Places, At, Goto, Call, HaltUnless,
        portVars, callVars, sensorVars, tmpVars, adcVars, sdVars, fanVars
<1>1. CASE ErrorHaltReturns
  BY <1>1 DEF ErrorHaltReturns
<1>2. CASE Pcf8575Begin
  BY <1>2 DEF Pcf8575Begin
<1>3. CASE Pcf8575SetIdle
  BY <1>3 DEF Pcf8575SetIdle
<1>4. CASE UsbDriveBegin
  BY <1>4 DEF UsbDriveBegin
<1>5. CASE UsbDriveEnds
  BY <1>5 DEF UsbDriveEnds
<1>6. CASE MoistureStandby
  BY <1>6 DEF MoistureStandby
<1>7. CASE MoistureSetup
  BY <1>7 DEF MoistureSetup
<1>8. CASE MoistureGet
  BY <1>8 DEF MoistureGet
<1>9. CASE Tmp117Begin \/ Tmp117Null
  BY <1>9 DEF Tmp117Begin, Tmp117Null
<1>15. CASE Tmp117Data \/ Tmp117FlagsLost \/ RtccSetup
  BY <1>15 DEF Tmp117Data, Tmp117FlagsLost, Tmp117Configured, RtccSetup
<1>10. CASE SdBegin
  BY <1>10 DEF SdBegin
<1>11. CASE SdOpen
  BY <1>11 DEF SdOpen
<1>12. CASE SdPrintHeader
  BY <1>12 DEF SdPrintHeader
<1>13. CASE SetupHeaterOn
  BY <1>13 DEF SetupHeaterOn
<1>14. QED
  BY <1>1, <1>2, <1>3, <1>4, <1>5, <1>6, <1>7, <1>8, <1>9, <1>10, <1>11, <1>12, <1>13,
     <1>15

\* The steps of the ADC, the GPS and loop(), and a restart, keep the types.
LEMMA RunType ==
  TypeOK /\ (\/ AdcBegin \/ AdcPowerDown \/ AdcPowerUp \/ AdcReading \/ GpsFix
            \/ GpsSetupDone \/ FanStart \/ FanStop \/ RecordTemperature \/ RecordFlush
            \/ Restart) => TypeOK'
<1> SUFFICES ASSUME TypeOK PROVE
      (\/ AdcBegin \/ AdcPowerDown \/ AdcPowerUp \/ AdcReading \/ GpsFix
       \/ GpsSetupDone \/ FanStart \/ FanStop \/ RecordTemperature \/ RecordFlush
       \/ Restart) => TypeOK'
  OBVIOUS
<1> USE FunctionNames DEF TypeOK, Places, At, Goto, Call, HaltUnless,
        portVars, callVars, sensorVars, tmpVars, adcVars, sdVars, fanVars
<1>1. CASE AdcBegin
  BY <1>1 DEF AdcBegin
<1>2. CASE AdcPowerDown
  BY <1>2 DEF AdcPowerDown, AdcTakes
<1>3. CASE AdcPowerUp
  BY <1>3 DEF AdcPowerUp, AdcTakes, ReadPlaces
<1>4. CASE AdcReading
  BY <1>4 DEF AdcReading
<1>5. CASE GpsFix
  BY <1>5 DEF GpsFix
<1>6. CASE GpsSetupDone
  BY <1>6 DEF GpsSetupDone
<1>7. CASE FanStart
  BY <1>7 DEF FanStart
<1>8. CASE FanStop
  <2>1. fan1On' \in BOOLEAN
    BY <1>8 DEF FanStop
  <2>2. fanAge' \in 0..2
    BY <1>8 DEF FanStop
  <2>3. QED
    BY <1>8, <2>1, <2>2 DEF FanStop
<1>9. CASE RecordTemperature \/ RecordFlush
  BY <1>9 DEF RecordTemperature, RecordFlush
<1>10. CASE Restart
  <2>1. PICK powerLost \in BOOLEAN :
          /\ PortReset(powerLost)
          /\ adcPowered' \in {adcPowered, FALSE} /\ tmpMeasures' \in {tmpMeasures, TRUE}
    BY <1>10 DEF Restart
  <2>2. writebuf' \in SUBSET Pins /\ port' \in SUBSET Pins /\ torn' \in BOOLEAN
    BY <2>1 DEF PortReset
  <2>3. adcPowered' \in BOOLEAN /\ tmpMeasures' \in BOOLEAN
    BY <2>1
  <2>4. /\ pc' = "start" /\ call' = "none" /\ step' = 1 /\ n' = 0 /\ fanAge' = 0
        /\ haveMoisture' = FALSE /\ tmpFound' = FALSE /\ mounted' = FALSE /\ fileOpen' = FALSE
        /\ adcHasPower' = FALSE /\ fan1On' = FALSE /\ halted' = FALSE
    BY <1>10 DEF Restart
  <2>5. adcFitted' = adcFitted
    BY <1>10 DEF Restart
  <2>6. pc' \in Places /\ n' \in Nat /\ step' \in Nat /\ fanAge' \in 0..2
    BY <2>4
  <2>7. call' \notin DOMAIN Transfers
    BY <2>4
  <2>8. TypeOK'
    BY <2>2, <2>3, <2>4, <2>5, <2>6, <2>7
  <2>9. QED
    BY <2>8
<1>11. QED
  BY <1>1, <1>2, <1>3, <1>4, <1>5, <1>6, <1>7, <1>8, <1>9, <1>10

LEMMA StutterType == TypeOK /\ UNCHANGED vars => TypeOK'
  BY DEF TypeOK, vars, portVars, callVars, sensorVars, tmpVars, adcVars, sdVars, fanVars

\* Type correctness: every variable keeps its type and no function runs past its
\* last transfer, whatever faults the bus shows and whatever the counts are.
THEOREM TypeCorrect == Spec => []TypeOK
<1>1. TypeOK /\ [Next]_vars => TypeOK'
  BY PinWriteType, SetupType, RunType, StutterType DEF Next, Program
<1>2. QED
  BY <1>1, InitType, PTL DEF Spec

-----------------------------------------------------------------------------
(* Heater and boost supply *)

\* Every step but a transfer and a restart.
Quiet == \/ Program /\ ~PinWrite
         \/ UsbDriveEnds
         \/ Tmp117FlagsLost
         \/ GpsFix
         \/ UNCHANGED vars

\* Such a step leaves the expander alone; it starts a function at its first
\* transfer, ends one, or leaves it where it is.
LEMMA QuietStep ==
  Quiet => /\ UNCHANGED portVars
           /\ step' = 1 \/ call' = "none" \/ UNCHANGED callVars
<1> USE DEF Goto, Call, HaltUnless, callVars
<1>1. UNCHANGED vars => UNCHANGED portVars /\ UNCHANGED callVars
  BY DEF vars
<1>2. ASSUME \/ Pcf8575Begin \/ Pcf8575SetIdle \/ UsbDriveBegin \/ UsbDriveEnds
             \/ MoistureStandby \/ MoistureSetup \/ MoistureGet
             \/ Tmp117Begin \/ Tmp117Null \/ Tmp117Data \/ Tmp117FlagsLost \/ RtccSetup
      PROVE  UNCHANGED portVars /\ (step' = 1 \/ call' = "none" \/ UNCHANGED callVars)
  BY <1>2 DEF Pcf8575Begin, Pcf8575SetIdle, UsbDriveBegin, UsbDriveEnds, MoistureStandby,
              MoistureSetup, MoistureGet, Tmp117Begin, Tmp117Null, Tmp117Data,
              Tmp117FlagsLost, Tmp117Configured, RtccSetup
<1>3. ASSUME AdcBegin \/ AdcPowerDown \/ AdcPowerUp \/ AdcReading \/ ErrorHaltReturns
      PROVE  UNCHANGED portVars /\ (step' = 1 \/ call' = "none" \/ UNCHANGED callVars)
  BY <1>3 DEF AdcBegin, AdcPowerDown, AdcPowerUp, AdcReading, ErrorHaltReturns
<1>4. ASSUME \/ GpsFix \/ GpsSetupDone \/ SdBegin \/ SdOpen \/ SdPrintHeader
             \/ SetupHeaterOn \/ FanStart \/ FanStop \/ RecordTemperature \/ RecordFlush
      PROVE  UNCHANGED portVars /\ (step' = 1 \/ call' = "none" \/ UNCHANGED callVars)
  BY <1>4 DEF GpsFix, GpsSetupDone, SdBegin, SdOpen, SdPrintHeader, SetupHeaterOn,
              FanStart, FanStop, RecordTemperature, RecordFlush
<1>5. QED
  BY <1>1, <1>2, <1>3, <1>4 DEF Quiet, Program

\* A step is a transfer, a restart, or leaves the expander alone.
LEMMA StepKinds == [Next]_vars => PinWrite \/ Restart \/ Quiet
  BY DEF Next, Quiet

\* The only transfer that raises the heater is the second of adc_heaterOn, and
\* the only one that drops the supply alone is the second of adc_heaterOff.
LEMMA HeaterTransfers ==
  ASSUME NEW f \in DOMAIN Transfers, NEW i \in DOMAIN Transfers[f]
  PROVE  /\ Heater \in Transfers[f][i].high => f = "adc_heaterOn" /\ i = 2
         /\ Enable5V \in Transfers[f][i].low =>
              Heater \in Transfers[f][i].low \/ (f = "adc_heaterOff" /\ i = 2)
         /\ f = "adc_heaterOn" /\ i = 1 => Enable5V \in Transfers[f][i].high
         /\ f = "adc_heaterOn" /\ i = 2 => Enable5V \notin Transfers[f][i].low
         /\ f = "adc_heaterOff" /\ i = 1 =>
              Heater \in Transfers[f][i].low /\ Heater \notin Transfers[f][i].high
<1> USE DEF Transfers, High, Low, Word, Pins, IdleWord,
            Enable5V, Fan1, PwrGNSS, Heater, Fan2, Led2G, Led2B
<1>1. CASE f = "pcf8575_ledtest"
  <2>1. Transfers[f] = LedTest
    BY <1>1
  <2>2. QED
    BY <1>1, <2>1, LedTestType
<1>2. CASE f \in {"adc_heaterOn", "adc_heaterOff"}
  BY <1>2 DEF HeaterOn, HeaterOff
<1>3. CASE f \in {"pcf8575_setidle", "gps_standby", "gps_shutdown"}
  BY <1>3 DEF SetIdle, GpsStandby, GpsShutdown
<1>4. CASE f \in {"gps_setupBegin", "gps_setupEnd", "gps_process"}
  BY <1>4 DEF GpsSetupBegin, GpsSetupEnd, GpsFixBlink
<1>5. CASE f \in {"fan1_on", "fan1_off"}
  BY <1>5
<1>6. QED
  BY <1>1, <1>2, <1>3, <1>4, <1>5

\* What makes HeaterNeedsBoost inductive: the shadow, which a lost transfer may
\* deliver only later, has the order too, and the two heater functions are
\* half-way exactly as far as their next transfer presumes.
ShadowHeaterNeedsBoost == Heater \in writebuf => Enable5V \in writebuf
HeaterHalfWay ==
  /\ call = "adc_heaterOn" /\ step = 2 => Enable5V \in writebuf
  /\ call = "adc_heaterOff" /\ step = 2 => Heater \notin writebuf
HeaterInv == HeaterNeedsBoost /\ ShadowHeaterNeedsBoost /\ HeaterHalfWay

LEMMA HeaterPinWrite == TypeOK /\ HeaterInv /\ PinWrite => HeaterInv'
<1> SUFFICES ASSUME TypeOK, HeaterInv, PinWrite PROVE HeaterInv'
  OBVIOUS
<1> DEFINE w == Transfers[call][step]
<1>1. call \in DOMAIN Transfers /\ step \in DOMAIN Transfers[call] /\ step \in Nat
  BY DEF PinWrite, TypeOK
<1>2. /\ Heater \in w.high => call = "adc_heaterOn" /\ step = 2
      /\ Enable5V \in w.low => Heater \in w.low \/ (call = "adc_heaterOff" /\ step = 2)
      /\ call = "adc_heaterOn" /\ step = 1 => Enable5V \in w.high
      /\ call = "adc_heaterOn" /\ step = 2 => Enable5V \notin w.low
      /\ call = "adc_heaterOff" /\ step = 1 => Heater \in w.low /\ Heater \notin w.high
  BY <1>1, HeaterTransfers
<1>3. Write(w) /\ writebuf' = Shadow(w)
  BY DEF PinWrite, Write
<1> HIDE DEF w
<1>4. Heater \in Shadow(w) => Enable5V \in Shadow(w)
  BY <1>2 DEF HeaterInv, ShadowHeaterNeedsBoost, HeaterHalfWay, Shadow
<1>5. ShadowHeaterNeedsBoost'
  BY <1>3, <1>4 DEF ShadowHeaterNeedsBoost
<1>6. HeaterNeedsBoost'
  BY <1>3, <1>4 DEF Write, Delivered, Lost, Torn, HeaterInv, HeaterNeedsBoost
<1>7. HeaterHalfWay'
  <2>1. (call' = call /\ step' = step + 1) \/ call' = "none"
    BY DEF PinWrite
  <2>2. step' = 2 /\ call' # "none" => step = 1 /\ call' = call
    BY <1>1, <2>1
  <2>3. QED
    BY <1>2, <1>3, <2>2 DEF HeaterHalfWay, Shadow
<1>8. QED
  BY <1>5, <1>6, <1>7 DEF HeaterInv

LEMMA HeaterRestart == HeaterInv /\ Restart => HeaterInv'
<1> SUFFICES ASSUME HeaterInv, Restart PROVE HeaterInv'
  OBVIOUS
<1>1. call' = "none" /\ \E powerLost \in BOOLEAN : PortReset(powerLost)
  BY DEF Restart
<1>2. QED
  BY <1>1 DEF PortReset, Pins, Enable5V, HeaterInv, HeaterNeedsBoost,
              ShadowHeaterNeedsBoost, HeaterHalfWay

\* The chip never has the heater on without the supply that feeds it, whatever
\* transfers are lost and whenever the processor restarts, unless a transfer was
\* cut in half (adc_heaterOn, adc_heaterOff and every other pin function).
THEOREM HeaterOrder == Spec => []HeaterNeedsBoost
<1>1. Init => HeaterInv
  BY DEF Init, PortInit, Pins, Enable5V, HeaterInv, HeaterNeedsBoost,
         ShadowHeaterNeedsBoost, HeaterHalfWay
<1>2. TypeOK /\ HeaterInv /\ [Next]_vars => HeaterInv'
  <2>1. HeaterInv /\ Quiet => HeaterInv'
    BY QuietStep DEF portVars, callVars, HeaterInv, HeaterNeedsBoost,
                     ShadowHeaterNeedsBoost, HeaterHalfWay
  <2>2. QED
    BY <2>1, StepKinds, HeaterPinWrite, HeaterRestart
<1>3. HeaterInv => HeaterNeedsBoost
  BY DEF HeaterInv
<1>4. QED
  BY <1>1, <1>2, <1>3, TypeCorrect, PTL DEF Spec

-----------------------------------------------------------------------------
(* The window of the GNSS rail *)

\* The transfers that raise the rail, and those that drop it for good.
LEMMA RailTransfers ==
  ASSUME NEW f \in DOMAIN Transfers, NEW i \in DOMAIN Transfers[f]
  PROVE  /\ PwrGNSS \in Transfers[f][i].high => f \in {"gps_standby", "gps_setupBegin"}
         /\ f \in {"gps_shutdown", "gps_setupEnd"} /\ i + 1 \notin DOMAIN Transfers[f]
              => PwrGNSS \in Transfers[f][i].low /\ PwrGNSS \notin Transfers[f][i].high
<1> USE DEF Transfers, High, Low, Word, Pins, IdleWord,
            Enable5V, Fan1, PwrGNSS, Heater, Fan2, Led2G, Led2B
<1>1. CASE f = "pcf8575_ledtest"
  <2>1. Transfers[f] = LedTest
    BY <1>1
  <2>2. QED
    BY <1>1, <2>1, LedTestType
<1>2. CASE f \in {"adc_heaterOn", "adc_heaterOff", "pcf8575_setidle"}
  BY <1>2 DEF HeaterOn, HeaterOff, SetIdle
<1>3. CASE f \in {"gps_standby", "gps_shutdown", "gps_setupEnd"}
  BY <1>3 DEF GpsStandby, GpsShutdown, GpsSetupEnd
<1>4. CASE f \in {"gps_setupBegin", "gps_process"}
  BY <1>4 DEF GpsSetupBegin, GpsFixBlink
<1>5. CASE f \in {"fan1_on", "fan1_off"}
  BY <1>5
<1>6. QED
  BY <1>1, <1>2, <1>3, <1>4, <1>5

\* What makes RailOnlyInWindow inductive: the functions that raise the rail are
\* called on the way to a place where it may be on, and from nowhere else.
RailCallers ==
  /\ call = "gps_standby" => pc \in {"moisture_begin", "moisture_read"}
  /\ call \in {"gps_setupBegin", "gps_process"} => pc = "gps_wait"
RailInv == RailOnlyInWindow /\ RailCallers

LEMMA RailPinWrite == TypeOK /\ RailInv /\ PinWrite => RailInv'
<1> SUFFICES ASSUME TypeOK, RailInv, PinWrite PROVE RailInv'
  OBVIOUS
<1> DEFINE w == Transfers[call][step]
<1>1. call \in DOMAIN Transfers /\ step \in DOMAIN Transfers[call]
  BY DEF PinWrite, TypeOK
<1>2. /\ PwrGNSS \in w.high => call \in {"gps_standby", "gps_setupBegin"}
      /\ call \in {"gps_shutdown", "gps_setupEnd"} /\ step + 1 \notin DOMAIN Transfers[call]
           => PwrGNSS \in w.low /\ PwrGNSS \notin w.high
  BY <1>1, RailTransfers
<1>3. writebuf' = Shadow(w)
  BY DEF PinWrite, Write
<1>4. /\ UNCHANGED pc
      /\ \/ step + 1 \in DOMAIN Transfers[call] /\ call' = call
         \/ step + 1 \notin DOMAIN Transfers[call] /\ call' = "none"
  BY DEF PinWrite
<1> HIDE DEF w
<1>5. RailCallers'
  BY <1>4 DEF RailInv, RailCallers
<1>6. RailOnlyInWindow'
  <2>1. SUFFICES ASSUME PwrGNSS \in writebuf' PROVE RailOnlyInWindow'
    BY DEF RailOnlyInWindow
  <2>2. CASE call \in {"gps_standby", "gps_setupBegin"}
    BY <1>4, <2>2 DEF RailInv, RailCallers, RailOnlyInWindow
  <2>3. CASE call \in {"gps_shutdown", "gps_setupEnd"}
    BY <1>2, <1>3, <1>4, <2>1, <2>3 DEF Shadow, RailOnlyInWindow
  <2>4. CASE call \notin {"gps_standby", "gps_setupBegin", "gps_shutdown", "gps_setupEnd"}
    BY <1>2, <1>3, <1>4, <2>1, <2>4 DEF Shadow, RailInv, RailOnlyInWindow
  <2>5. QED
    BY <2>2, <2>3, <2>4
<1>7. QED
  BY <1>5, <1>6 DEF RailInv

\* A step of the program that is no transfer starts at a place, with no function
\* running, and finds the rail off unless the place is in the window.
LEMMA RailQuiet == RailInv /\ Quiet => RailInv'
<1> SUFFICES ASSUME RailInv, Quiet PROVE RailInv'
  OBVIOUS
<1>1. UNCHANGED writebuf
  BY QuietStep DEF portVars
<1> USE <1>1 DEF RailInv, RailOnlyInWindow, RailCallers, At, Goto, Call, HaltUnless, callVars
<1>2. CASE UNCHANGED vars
  BY <1>2 DEF vars
<1>3. CASE ErrorHaltReturns
  BY <1>3 DEF ErrorHaltReturns
<1>4. CASE Pcf8575Begin \/ Pcf8575SetIdle \/ UsbDriveBegin \/ UsbDriveEnds
  BY <1>4 DEF Pcf8575Begin, Pcf8575SetIdle, UsbDriveBegin, UsbDriveEnds
<1>5. CASE MoistureStandby
  BY <1>5 DEF MoistureStandby
<1>6. CASE MoistureSetup \/ MoistureGet
  BY <1>6 DEF MoistureSetup, MoistureGet
<1>13. CASE Tmp117Begin \/ Tmp117Null \/ Tmp117Data \/ Tmp117FlagsLost \/ RtccSetup
  BY <1>13 DEF Tmp117Begin, Tmp117Null, Tmp117Data, Tmp117FlagsLost, Tmp117Configured, RtccSetup
<1>7. CASE SdBegin \/ SdOpen \/ SdPrintHeader \/ SetupHeaterOn
  BY <1>7 DEF SdBegin, SdOpen, SdPrintHeader, SetupHeaterOn
<1>8. CASE AdcBegin \/ AdcPowerDown
  BY <1>8 DEF AdcBegin, AdcPowerDown
<1>9. CASE AdcPowerUp \/ AdcReading
  BY <1>9 DEF AdcPowerUp, AdcReading, ReadPlaces
<1>10. CASE GpsFix \/ GpsSetupDone
  BY <1>10 DEF GpsFix, GpsSetupDone
<1>11. CASE FanStart \/ FanStop \/ RecordTemperature \/ RecordFlush
  BY <1>11 DEF FanStart, FanStop, RecordTemperature, RecordFlush
<1>12. QED
  BY <1>2, <1>3, <1>4, <1>5, <1>6, <1>7, <1>8, <1>9, <1>10, <1>11, <1>13
  DEF Quiet, Program

\* The GNSS rail is commanded on only inside gps_setup, moisture_setup and
\* moisture_get: no return of theirs, no failure and no restart leaves it on.
THEOREM RailWindow == Spec => []RailOnlyInWindow
<1>1. Init => RailInv
  BY DEF Init, PortInit, RailInv, RailOnlyInWindow, RailCallers
<1>2. RailInv /\ Restart => RailInv'
  <2>1. SUFFICES ASSUME Restart PROVE RailInv'
    OBVIOUS
  <2>2. call' = "none" /\ pc' = "start" /\ \E powerLost \in BOOLEAN : PortReset(powerLost)
    BY <2>1 DEF Restart
  <2>3. PwrGNSS \notin writebuf'
    BY <2>2 DEF PortReset
  <2>4. QED
    BY <2>2, <2>3 DEF RailInv, RailOnlyInWindow, RailCallers
<1>3. TypeOK /\ RailInv /\ [Next]_vars => RailInv'
  BY <1>2, StepKinds, RailPinWrite, RailQuiet
<1>4. RailInv => RailOnlyInWindow
  BY DEF RailInv
<1>5. QED
  BY <1>1, <1>3, <1>4, TypeCorrect, PTL DEF Spec
=============================================================================
