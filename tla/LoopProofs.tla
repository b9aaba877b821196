----------------------------- MODULE LoopProofs -----------------------------
(***************************************************************************)
(* What loop() finds and keeps, for every choice of Faults and of the      *)
(* counts: the heater is on while gas is read and off while the program    *)
(* waits for somebody else, the fan flag is the pin, and the data file is  *)
(* open unless the failure was shown.                                      *)
(*                                                                         *)
(* The argument is about the shadow word, which no fault can disturb.  The *)
(* strengthening says which functions may run at which places (Callers),   *)
(* and how far the two heater functions have got (HeaterSteps).            *)
(***************************************************************************)
EXTENDS RecorderProofs

OpenPlaces == {"sd_opened", "idle_again", "heater_on", "adc_powerUp"} \cup LoopPlaces
FanCalls  == {"fan1_on", "fan1_off"}
IdleCalls == {"pcf8575_setidle", "pcf8575_ledtest"}
LoopCalls == FanCalls \cup {"gps_standby", "gps_shutdown"}

Callers ==
  /\ pc \in LoopPlaces => call \in LoopCalls \cup {"none"}
  /\ pc = "adc_powerUp" => call \in {"none", "adc_heaterOn"}
  /\ call = "adc_heaterOn" => pc \in {"adc_hot", "adc_powerUp"}
  /\ call \in FanCalls => pc \in LoopPlaces

HeaterSteps ==
  /\ call = "adc_heaterOn" /\ step # 1 => Enable5V \in writebuf
  /\ call = "adc_heaterOn" /\ step \notin {1, 2} => Heater \in writebuf
  /\ call = "adc_heaterOff" /\ step # 1 => Heater \notin writebuf

Heated == \/ pc \in LoopPlaces
          \/ pc = "adc_powerUp" /\ call = "none"
          => Heater \in writebuf /\ Enable5V \in writebuf

FanState ==
  /\ call \notin FanCalls => (fan1On <=> Fan1 \in writebuf)
  /\ call = "fan1_on" => fan1On
  /\ call = "fan1_off" => ~fan1On
  /\ pc \notin LoopPlaces => ~fan1On

FileState == pc \in OpenPlaces /\ ~fileOpen => halted

LoopInv == Callers /\ HeaterSteps /\ Heated /\ HeaterOnlyToMeasure /\ FanState /\ FileState

-----------------------------------------------------------------------------
\* What the transfers do to the pins of the heater, its supply and the fan.
LEMMA LoopTransfers ==
  ASSUME NEW f \in DOMAIN Transfers, NEW i \in DOMAIN Transfers[f]
  PROVE  /\ f \in LoopCalls \cup {"adc_heaterOn"} =>
              Heater \notin Transfers[f][i].low /\ Enable5V \notin Transfers[f][i].low
         /\ f = "adc_heaterOn" =>
              /\ i \in 1..3 /\ DOMAIN Transfers[f] = 1..3
              /\ i = 1 => Enable5V \in Transfers[f][i].high
              /\ i = 2 => Heater \in Transfers[f][i].high
         /\ f = "adc_heaterOff" =>
              /\ i \in 1..3 /\ DOMAIN Transfers[f] = 1..3
              /\ i = 1 => Heater \in Transfers[f][i].low
         /\ Fan1 \in Transfers[f][i].high <=> f = "fan1_on"
         /\ Fan1 \in Transfers[f][i].low => f \in IdleCalls \cup {"fan1_off"}
         /\ f = "fan1_off" => Fan1 \in Transfers[f][i].low
         /\ f \in FanCalls => i = 1 /\ DOMAIN Transfers[f] = 1..1
<1> USE DEF Transfers, High, Low, Word, Pins, IdleWord, LoopCalls, FanCalls, IdleCalls,
            Enable5V, Fan1, PwrGNSS, Heater, Fan2, Led2G, Led2B
<1>1. CASE f = "pcf8575_ledtest"
  <2>1. Transfers[f] = LedTest
    BY <1>1
  <2>2. QED
    BY <1>1, <2>1, LedTestType
<1>2. CASE f = "adc_heaterOn"
  BY <1>2 DEF HeaterOn
<1>3. CASE f = "adc_heaterOff"
  BY <1>3 DEF HeaterOff
<1>4. CASE f \in {"pcf8575_setidle", "gps_standby", "gps_shutdown"}
  BY <1>4 DEF SetIdle, GpsStandby, GpsShutdown
<1>5. CASE f \in {"gps_setupBegin", "gps_setupEnd", "gps_process"}
  BY <1>5 DEF GpsSetupBegin, GpsSetupEnd, GpsFixBlink
<1>6. CASE f = "fan1_on"
  BY <1>6
<1>7. CASE f = "fan1_off"
  BY <1>7
<1>8. QED
  BY <1>1, <1>2, <1>3, <1>4, <1>5, <1>6, <1>7

LEMMA LoopPinWrite == TypeOK /\ LoopInv /\ PinWrite => LoopInv'
<1> SUFFICES ASSUME TypeOK, LoopInv, PinWrite PROVE LoopInv'
  OBVIOUS
<1> DEFINE w == Transfers[call][step]
<1>1. call \in DOMAIN Transfers /\ step \in DOMAIN Transfers[call] /\ step \in Nat
  BY DEF PinWrite, TypeOK
<1>2. Heater \in w.high => call = "adc_heaterOn" /\ step = 2
  BY <1>1, HeaterTransfers
<1>3. /\ call \in LoopCalls \cup {"adc_heaterOn"} => Heater \notin w.low /\ Enable5V \notin w.low
      /\ call = "adc_heaterOn" =>
           /\ step \in 1..3 /\ DOMAIN Transfers[call] = 1..3
           /\ step = 1 => Enable5V \in w.high
           /\ step = 2 => Heater \in w.high
      /\ call = "adc_heaterOff" =>
           /\ step \in 1..3 /\ DOMAIN Transfers[call] = 1..3
           /\ step = 1 => Heater \in w.low
      /\ Fan1 \in w.high <=> call = "fan1_on"
      /\ Fan1 \in w.low => call \in IdleCalls \cup {"fan1_off"}
      /\ call = "fan1_off" => Fan1 \in w.low
      /\ call \in FanCalls => step = 1 /\ DOMAIN Transfers[call] = 1..1
  BY <1>1, LoopTransfers
<1>4. writebuf' = Shadow(w)
  BY DEF PinWrite, Write
<1>5. /\ UNCHANGED <<pc, sdVars, fanVars, halted>>
      /\ \/ step + 1 \in DOMAIN Transfers[call] /\ step' = step + 1 /\ call' = call
         \/ step + 1 \notin DOMAIN Transfers[call] /\ step' = 1 /\ call' = "none"
  BY DEF PinWrite
<1> HIDE DEF w
<1>6. Callers'
  <2>1. CASE call' = call
    BY <1>5, <2>1 DEF LoopInv, Callers
  <2>2. CASE call' = "none"
    BY <1>5, <2>2 DEF Callers, FanCalls
  <2> QED BY <1>5, <2>1, <2>2
<1>7. HeaterSteps'
  <2>1. SUFFICES ASSUME call' \in {"adc_heaterOn", "adc_heaterOff"} PROVE HeaterSteps'
    BY DEF HeaterSteps
  <2>2. call' = call /\ step' = step + 1
    BY <1>5, <2>1
  <2>3. CASE call = "adc_heaterOn"
    <3>1. Enable5V \in Shadow(w)
      BY <1>3, <2>3 DEF LoopInv, HeaterSteps, Shadow, LoopCalls
    <3>2. step # 1 => Heater \in Shadow(w)
      BY <1>3, <2>3 DEF LoopInv, HeaterSteps, Shadow
    <3> QED BY <1>1, <1>4, <2>2, <2>3, <3>1, <3>2 DEF HeaterSteps
  <2>4. CASE call = "adc_heaterOff"
    <3>1. Heater \notin Shadow(w)
      BY <1>2, <1>3, <2>4 DEF LoopInv, HeaterSteps, Shadow
    <3> QED BY <1>4, <2>2, <2>4, <3>1 DEF HeaterSteps
  <2> QED BY <2>1, <2>2, <2>3, <2>4
<1>8. Heated'
  <2>1. SUFFICES ASSUME pc \in LoopPlaces \/ (pc = "adc_powerUp" /\ call' = "none")
                 PROVE  Heater \in Shadow(w) /\ Enable5V \in Shadow(w)
    BY <1>4, <1>5 DEF Heated
  <2>2. CASE pc \in LoopPlaces
    <3>1. call \in LoopCalls
      BY <1>1, <2>2, FunctionNames DEF LoopInv, Callers
    <3> QED BY <1>3, <2>2, <3>1 DEF LoopInv, Heated, Shadow
  <2>3. CASE pc = "adc_powerUp" /\ call' = "none"
    <3>1. call = "adc_heaterOn"
      BY <1>1, <2>3, FunctionNames DEF LoopInv, Callers
    <3>2. step = 3
      BY <1>3, <1>5, <2>3, <3>1
    <3> QED BY <1>3, <3>1, <3>2 DEF LoopInv, HeaterSteps, Shadow, LoopCalls
  <2> QED BY <2>1, <2>2, <2>3
<1>9. HeaterOnlyToMeasure'
  <2>1. SUFFICES ASSUME Heater \in Shadow(w), call' \notin {"adc_heaterOn", "adc_heaterOff"}
                 PROVE  pc \in {"adc_hot", "adc_powerUp"} \cup LoopPlaces
    BY <1>4, <1>5 DEF HeaterOnlyToMeasure
  <2>2. CASE call = "adc_heaterOn"
    BY <2>2 DEF LoopInv, Callers
  <2>3. CASE call = "adc_heaterOff"
    <3>1. step = 3
      BY <1>3, <1>5, <2>1, <2>3
    <3> QED BY <1>2, <2>1, <2>3, <3>1 DEF LoopInv, HeaterSteps, Shadow
  <2>4. CASE call \notin {"adc_heaterOn", "adc_heaterOff"}
    BY <1>2, <2>1, <2>4 DEF LoopInv, HeaterOnlyToMeasure, Shadow
  <2> QED BY <2>2, <2>3, <2>4
<1>10. FanState'
  <2>1. CASE call \in FanCalls
    <3>1. call' = "none"
      BY <1>3, <1>5, <2>1
    <3>2. Fan1 \in Shadow(w) <=> call = "fan1_on"
      BY <1>3, <2>1 DEF Shadow, FanCalls
    <3> QED BY <1>4, <1>5, <2>1, <3>1, <3>2 DEF LoopInv, FanState, FanCalls, fanVars
  <2>2. CASE call \in IdleCalls
    <3>1. ~fan1On /\ Fan1 \notin writebuf
      BY <2>2 DEF LoopInv, FanState, Callers, IdleCalls, FanCalls, LoopCalls
    <3>2. Fan1 \notin Shadow(w) /\ call' \notin FanCalls
      BY <1>3, <1>5, <2>2, <3>1 DEF Shadow, IdleCalls, FanCalls
    <3> QED BY <1>4, <1>5, <3>1, <3>2 DEF FanState, FanCalls, fanVars
  <2>3. CASE call \notin FanCalls \cup IdleCalls
    <3>1. Fan1 \in Shadow(w) <=> Fan1 \in writebuf
      BY <1>3, <2>3 DEF Shadow, FanCalls
    <3>2. call' \notin FanCalls
      BY <1>5, <2>3 DEF FanCalls
    <3> QED BY <1>4, <1>5, <2>3, <3>1, <3>2 DEF LoopInv, FanState, FanCalls, fanVars
  <2> QED BY <2>1, <2>2, <2>3
<1>11. FileState'
  BY <1>5 DEF LoopInv, FileState, sdVars
<1> QED BY <1>6, <1>7, <1>8, <1>9, <1>10, <1>11 DEF LoopInv

LEMMA LoopQuiet == LoopInv /\ Quiet => LoopInv'
<1> SUFFICES ASSUME LoopInv, Quiet PROVE LoopInv'
  OBVIOUS
<1>1. UNCHANGED writebuf
  BY QuietStep DEF portVars
<1> USE <1>1 DEF LoopInv, Callers, HeaterSteps, Heated, HeaterOnlyToMeasure, FanState, FileState,
        OpenPlaces, LoopPlaces, FanCalls, LoopCalls, At, Goto, Call, HaltUnless,
        callVars, sdVars, fanVars
<1>2. CASE UNCHANGED vars
  BY <1>2 DEF vars
<1>3. CASE ErrorHaltReturns
  BY <1>3 DEF ErrorHaltReturns
<1>4. CASE Pcf8575Begin \/ Pcf8575SetIdle
  BY <1>4 DEF Pcf8575Begin, Pcf8575SetIdle
<1>5. CASE UsbDriveBegin \/ UsbDriveEnds
  BY <1>5 DEF UsbDriveBegin, UsbDriveEnds
<1>6. CASE MoistureStandby
  BY <1>6 DEF MoistureStandby
<1>7. CASE MoistureSetup \/ MoistureGet
  BY <1>7 DEF MoistureSetup, MoistureGet
<1>8. CASE Tmp117Begin \/ Tmp117Null
  <2>1. CASE Tmp117Begin
    <3>1. At("tmp117_setup") /\ UNCHANGED <<fan1On, fileOpen>>
      BY <2>1 DEF Tmp117Begin
    <3>2. CASE Goto("tmp117_wait") /\ UNCHANGED halted
      BY <3>1, <3>2
    <3>3. CASE HaltUnless(FALSE, "tmp117_null")
      BY <3>1, <3>3
    <3> QED BY <2>1, <3>2, <3>3 DEF Tmp117Begin
  <2>2. CASE Tmp117Null
    BY <2>2 DEF Tmp117Null
  <2> QED BY <1>8, <2>1, <2>2
<1>19. CASE Tmp117Data \/ Tmp117FlagsLost
  <2>1. At("tmp117_wait") /\ Tmp117Configured
    BY <1>19 DEF Tmp117Data, Tmp117FlagsLost
  <2>2. Goto("rtcc_setup") /\ UNCHANGED <<fan1On, fileOpen, halted>>
    BY <2>1 DEF Tmp117Configured
  <2> QED BY <2>1, <2>2
<1>20. CASE RtccSetup
  BY <1>20 DEF RtccSetup
<1>9. CASE SdBegin \/ SdPrintHeader
  BY <1>9 DEF SdBegin, SdPrintHeader
<1>10. CASE SdOpen
  BY <1>10 DEF SdOpen
<1>11. CASE SetupHeaterOn
  BY <1>11 DEF SetupHeaterOn
<1>12. CASE AdcBegin \/ AdcPowerDown
  <2>1. CASE AdcBegin
    <3>1. PICK ok \in BOOLEAN : At("adc_begin") /\ HaltUnless(ok, "adc_powerDown")
      BY <2>1 DEF AdcBegin
    <3>2. UNCHANGED <<fan1On, fileOpen>>
      BY <2>1 DEF AdcBegin
    <3> QED BY <3>1, <3>2
  <2>2. CASE AdcPowerDown
    <3>1. UNCHANGED <<fan1On, fileOpen, halted>>
      BY <2>2 DEF AdcPowerDown
    <3>2. \/ At("adc_powerDown") /\ Call("adc_heaterOff", "adc_cold")
          \/ At("adc_done") /\ Call("gps_setupBegin", "gps_wait")
      BY <2>2 DEF AdcPowerDown
    <3> QED BY <3>1, <3>2
  <2> QED BY <1>12, <2>1, <2>2
<1>13. CASE AdcPowerUp
  BY <1>13 DEF AdcPowerUp, ReadPlaces
<1>14. CASE AdcReading
  BY <1>14 DEF AdcReading
<1>15. CASE GpsFix \/ GpsSetupDone
  BY <1>15 DEF GpsFix, GpsSetupDone
<1>16. CASE FanStart
  BY <1>16 DEF FanStart
<1>17. CASE FanStop
  BY <1>17 DEF FanStop
<1>18. CASE RecordTemperature \/ RecordFlush
  BY <1>18 DEF RecordTemperature, RecordFlush
<1> QED
  BY <1>2, <1>3, <1>4, <1>5, <1>6, <1>7, <1>8, <1>9, <1>10, <1>11, <1>12, <1>13, <1>14,
     <1>15, <1>16, <1>17, <1>18, <1>19, <1>20 DEF Quiet, Program

LEMMA LoopRestart == Restart => LoopInv'
<1> SUFFICES ASSUME Restart PROVE LoopInv'
  OBVIOUS
<1>1. /\ pc' = "start" /\ call' = "none" /\ fan1On' = FALSE
      /\ \E powerLost \in BOOLEAN : PortReset(powerLost)
  BY DEF Restart
<1>2. writebuf' = {}
  BY <1>1 DEF PortReset
<1> QED BY <1>1, <1>2 DEF LoopInv, Callers, HeaterSteps, Heated, HeaterOnlyToMeasure, FanState,
                          FileState, OpenPlaces, LoopPlaces, FanCalls

LEMMA LoopInvariant == Spec => []LoopInv
<1>1. Init => LoopInv
  BY DEF Init, PortInit, LoopInv, Callers, HeaterSteps, Heated, HeaterOnlyToMeasure, FanState,
         FileState, OpenPlaces, LoopPlaces, FanCalls
<1>2. TypeOK /\ LoopInv /\ [Next]_vars => LoopInv'
  BY StepKinds, LoopPinWrite, LoopQuiet, LoopRestart
<1> QED BY <1>1, <1>2, TypeCorrect, PTL DEF Spec

-----------------------------------------------------------------------------
\* The heater is not commanded on while the program may wait for the host, for
\* satellites or for the card, whatever fails before.
THEOREM HeaterWindow == Spec => []HeaterOnlyToMeasure
<1>1. LoopInv => HeaterOnlyToMeasure
  BY DEF LoopInv
<1> QED BY <1>1, LoopInvariant, PTL

\* Every gas reading of a record finds heater and supply commanded on
\* (sd_recordData after adc_heaterOn, with the fan and the rail switched between).
THEOREM GasHeated == Spec => []GasReadHeated
<1>1. LoopInv => GasReadHeated
  BY DEF LoopInv, Heated, GasReadHeated, At, LoopPlaces
<1> QED BY <1>1, LoopInvariant, PTL

\* The static flag of loop() is the commanded state of the fan, across restarts.
THEOREM FanFlag == Spec => []FanFlagMatchesPin
<1>1. LoopInv => FanFlagMatchesPin
  BY DEF LoopInv, FanState, FanCalls, FanFlagMatchesPin
<1> QED BY <1>1, LoopInvariant, PTL

\* loop() runs without a data file only after the failure was shown.
THEOREM FileReported == Spec => []ClosedFileReported
<1>1. LoopInv => ClosedFileReported
  BY DEF LoopInv, FileState, OpenPlaces, ClosedFileReported
<1> QED BY <1>1, LoopInvariant, PTL
=============================================================================
