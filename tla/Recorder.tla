------------------------------ MODULE Recorder ------------------------------
(***************************************************************************)
(* setup() and loop() of the methane recorder, and every function they     *)
(* call that switches a pin, the ADC or the data file.                     *)
(*                                                                         *)
(* pc is the place in setup() or loop().  A function that switches pins is *)
(* the sequence of its transfers; while one runs, call names it and step   *)
(* is its next transfer, and pc is already the place it returns to.  Each  *)
(* transfer is a step of its own, so a fault or a restart may fall between *)
(* any two of them.  error_halt is such a call with no transfer.           *)
(*                                                                         *)
(* Abstracted: readings are values that only arrive or do not; the USB     *)
(* drive session is one wait (UsbDrive models it); the elapsed time of the *)
(* fan is its position against the two limits (FanTimer models it); the    *)
(* name and contents of the data file are left out.                        *)
(***************************************************************************)
EXTENDS PortExpander

CONSTANTS
  ColdReadings,   \* readings with the heater off in adc_setup: 50
  HotReadings,    \* readings with the heater on in adc_setup: 300
  FixesWanted     \* fixes that gps_setup waits for: 10

ASSUME CountsAssumption ==
  ColdReadings \in Nat \ {0} /\ HotReadings \in Nat \ {0} /\ FixesWanted \in Nat \ {0}

VARIABLES
  pc, call, step,
  n,              \* the counter of the loop pc is in
  haveMoisture,
  tmpFound,       \* tmp117.begin() has allocated the driver's registers
  tmpMeasures,    \* the thermometer is in continuous mode
  adcHasPower,    \* the firmware's belief about the ADC
  adcPowered,     \* the power-up bits of the chip
  adcFitted,      \* the ADC answers on the bus
  mounted,        \* SD.begin succeeded in sd_setup
  fileOpen,
  fan1On,
  fanAge,         \* millis() - ftime: 0 up to 30 s, 1 up to 35 s, 2 beyond
  halted          \* history: error_halt was called since the last start

callVars == <<call, step>>
tmpVars  == <<tmpFound, tmpMeasures>>
sensorVars == <<haveMoisture, tmpVars>>
adcVars  == <<adcHasPower, adcPowered, adcFitted>>
sdVars   == <<mounted, fileOpen>>
fanVars  == <<fan1On, fanAge>>
vars == <<portVars, pc, callVars, n, sensorVars, adcVars, sdVars, fanVars, halted>>

-----------------------------------------------------------------------------
(* The functions that switch pins. *)

SetIdle   == <<Word(IdleWord)>>
LedTest   == [i \in 1..17 |-> IF i = 1 THEN Word(IdleWord)
                              ELSE IF i % 2 = 0 THEN Low(TestPins[i \div 2])
                                                ELSE High(TestPins[i \div 2])]
HeaterOn  == <<High(Enable5V), High(Heater), Low(Led2B)>>
\* (Mutant: the supply goes before the heater.)
HeaterOffSwapped == <<Low(Enable5V), Low(Heater), High(Led2B)>>
HeaterOff == <<Low(Heater), Low(Enable5V), High(Led2B)>>
GpsStandby    == <<High(PwrGNSS)>>
GpsShutdown   == <<Low(PwrGNSS)>>
GpsSetupBegin == <<Low(PwrGNSS), High(Led2G), High(PwrGNSS)>>
GpsSetupEnd   == <<High(Led2G), Low(PwrGNSS)>>
GpsFixBlink   == <<Low(Led2G), High(Led2G)>>

Transfers == [
  pcf8575_setidle |-> SetIdle,       pcf8575_ledtest |-> LedTest,
  adc_heaterOn    |-> HeaterOn,      adc_heaterOff   |-> HeaterOff,
  gps_standby     |-> GpsStandby,    gps_shutdown    |-> GpsShutdown,
  gps_setupBegin  |-> GpsSetupBegin, gps_setupEnd    |-> GpsSetupEnd,
  gps_process     |-> GpsFixBlink,
  fan1_on |-> <<High(Fan1)>>,        fan1_off |-> <<Low(Fan1)>>]

At(place) == pc = place /\ call = "none"
Goto(place) == pc' = place /\ UNCHANGED callVars
\* (Mutant: transfers counted from 0.)
CallFromZero(f, next) == call' = f /\ step' = 0 /\ pc' = next
Call(f, next) == call' = f /\ step' = 1 /\ pc' = next

\* if(!ok) ERROR_HALT; and go on at next.  (Mutant: the failure passes in silence.)
GoOnAnyway(ok, next) == ok \in BOOLEAN /\ Goto(next) /\ UNCHANGED halted
HaltUnless(ok, next) ==
  IF ok THEN Goto(next) /\ UNCHANGED halted
        ELSE Call("error_halt", next) /\ halted' = TRUE

\* The next transfer of the function that runs.
PinWrite ==
  /\ call \in DOMAIN Transfers
  /\ Write(Transfers[call][step])
  /\ IF step + 1 \in DOMAIN Transfers[call]
       THEN step' = step + 1 /\ UNCHANGED call
       ELSE step' = 1 /\ call' = "none"
  /\ UNCHANGED <<pc, n, sensorVars, adcVars, sdVars, fanVars, halted>>

\* neopixel_blink(-1,...) converts -1 to 255: the blinking ends after two
\* minutes and error_halt returns.
\* (Mutant: n is signed and the blinking never ends.)
ErrorHaltBlinks == call = "error_halt" /\ UNCHANGED vars
ErrorHaltReturns ==
  /\ call = "error_halt"
  /\ call' = "none"
  /\ UNCHANGED <<portVars, pc, step, n, sensorVars, adcVars, sdVars, fanVars, halted>>

-----------------------------------------------------------------------------
(* setup() *)

Pcf8575Begin ==
  /\ At("start")
  /\ \E ok \in BOOLEAN : HaltUnless(ok, "idle_first")
  /\ UNCHANGED <<portVars, n, sensorVars, adcVars, sdVars, fanVars>>

Pcf8575SetIdle ==
  /\ \/ At("idle_first") /\ Call("pcf8575_setidle", "usb_begin")
     \/ At("idle_again") /\ Call("pcf8575_setidle", "heater_on")
  /\ UNCHANGED <<portVars, n, sensorVars, adcVars, sdVars, fanVars, halted>>

UsbDriveBegin ==
  /\ At("usb_begin")
  /\ \E ok \in BOOLEAN : HaltUnless(ok, "usb_session")
  /\ UNCHANGED <<portVars, n, sensorVars, adcVars, sdVars, fanVars>>

\* The host ejects the drive, or no host is there.
UsbDriveEnds ==
  /\ At("usb_session")
  /\ Call("pcf8575_ledtest", "moisture_setup")
  /\ UNCHANGED <<portVars, n, sensorVars, adcVars, sdVars, fanVars, halted>>

\* The sensor sits on the GNSS rail: both functions power it, try it, and
\* release the rail whether or not it answered.
MoistureStandby ==
  /\ \/ At("moisture_setup") /\ Call("gps_standby", "moisture_begin")
     \/ At("moisture_get") /\ IF haveMoisture THEN Call("gps_standby", "moisture_read")
                                              ELSE Goto("flush")
  /\ UNCHANGED <<portVars, n, sensorVars, adcVars, sdVars, fanVars, halted>>

SensorAnswers == PwrGNSS \in port

\* (Mutant: the early return keeps the rail on.)
MoistureSetupKeepsRail ==
  /\ At("moisture_begin")
  /\ \E ok \in BOOLEAN :
       /\ ok => SensorAnswers
       /\ haveMoisture' = ok
       /\ IF ok THEN Call("gps_shutdown", "tmp117_setup") ELSE Goto("tmp117_setup")
  /\ UNCHANGED <<portVars, n, tmpVars, adcVars, sdVars, fanVars, halted>>

MoistureSetup ==
  /\ At("moisture_begin")
  /\ \E ok \in BOOLEAN : (ok => SensorAnswers) /\ haveMoisture' = ok
  /\ Call("gps_shutdown", "tmp117_setup")
  /\ UNCHANGED <<portVars, n, tmpVars, adcVars, sdVars, fanVars, halted>>

MoistureGet ==
  /\ At("moisture_read")
  /\ Call("gps_shutdown", "flush")
  /\ UNCHANGED <<portVars, n, sensorVars, adcVars, sdVars, fanVars, halted>>

\* begin() finds no chip, and the driver has no registers then; or it finds one and
\* resets it, and nobody looks at whether the reset has arrived.
Tmp117Begin ==
  /\ At("tmp117_setup")
  /\ \/ /\ tmpFound' = TRUE
        /\ Goto("tmp117_wait") /\ UNCHANGED halted
        /\ tmpMeasures' = TRUE \/ ("tmp" \in Faults /\ UNCHANGED tmpMeasures)
     \/ /\ tmpFound' = FALSE /\ UNCHANGED tmpMeasures
        /\ HaltUnless(FALSE, "tmp117_null")
  /\ UNCHANGED <<portVars, n, haveMoisture, adcVars, sdVars, fanVars>>

\* tmp117_setup goes on after the error halt through a null pointer: the processor
\* gets past it or stands still in its fault handler.
Tmp117Null ==
  /\ At("tmp117_null")
  /\ Goto("rtcc_setup") \/ Goto("setup_fault")
  /\ UNCHANGED <<portVars, n, sensorVars, adcVars, sdVars, fanVars, halted>>

\* waitForData() in reset() has no limit.  The rest of tmp117_setup ends in one-shot
\* mode, after whose measurement the chip shuts down.
Tmp117Configured ==
  /\ tmpMeasures' \in IF "tmp" \in Faults THEN BOOLEAN ELSE {FALSE}
  /\ Goto("rtcc_setup")
  /\ UNCHANGED <<portVars, n, haveMoisture, tmpFound, adcVars, sdVars, fanVars, halted>>
Tmp117Data == At("tmp117_wait") /\ tmpMeasures /\ Tmp117Configured

\* Flags that cannot be read are all ones, data_ready among them.
Tmp117FlagsLost == At("tmp117_wait") /\ "tmp" \in Faults /\ Tmp117Configured

RtccSetup ==
  /\ At("rtcc_setup")
  /\ \E ok \in BOOLEAN : HaltUnless(ok, "adc_begin")
  /\ UNCHANGED <<portVars, n, sensorVars, adcVars, sdVars, fanVars>>

-----------------------------------------------------------------------------
(* The ADC *)

AdcTakes(power) == \/ adcFitted /\ adcPowered' = power
                   \/ (~adcFitted \/ "adc" \in Faults) /\ UNCHANGED adcPowered

\* begin resets the chip and powers it up; it may fail half-way.
AdcBegin ==
  /\ At("adc_begin")
  /\ \E ok \in BOOLEAN : /\ ok => adcFitted
                         /\ HaltUnless(ok, "adc_powerDown")
                         /\ adcPowered' \in IF ok THEN {TRUE}
                                            ELSE IF adcFitted THEN BOOLEAN ELSE {FALSE}
  /\ UNCHANGED <<portVars, n, sensorVars, adcHasPower, adcFitted, sdVars, fanVars>>

AdcPowerDown ==
  /\ AdcTakes(FALSE)
  /\ adcHasPower' = FALSE
  /\ \/ At("adc_powerDown") /\ Call("adc_heaterOff", "adc_cold")
     \/ At("adc_done") /\ Call("gps_setupBegin", "gps_wait")
  /\ UNCHANGED <<portVars, n, sensorVars, adcFitted, sdVars, fanVars, halted>>

ReadPlaces == {"adc_cold", "adc_hot", "record_gas"}

\* adc_powerUp, at the head of adc_getReading and at the end of setup().
\* The flag is set whatever the chip did.
AdcPowerUp ==
  /\ \/ \E place \in ReadPlaces : At(place) /\ ~adcHasPower /\ Goto(place)
     \/ At("adc_powerUp") /\ Goto("loop")
  /\ adcHasPower' = TRUE
  /\ IF adcHasPower THEN UNCHANGED adcPowered ELSE AdcTakes(TRUE)
  /\ UNCHANGED <<portVars, n, sensorVars, adcFitted, sdVars, fanVars, halted>>

\* The chip delivers a reading other than 0; nothing else ends the wait.
AdcReading ==
  /\ adcHasPower /\ adcPowered
  /\ \/ /\ At("adc_cold")
        /\ IF n + 1 < ColdReadings THEN n' = n + 1 /\ Goto("adc_cold")
                                   ELSE n' = 0 /\ Call("adc_heaterOn", "adc_hot")
     \/ /\ At("adc_hot")
        /\ IF n + 1 < HotReadings THEN n' = n + 1 /\ Goto("adc_hot")
                                  ELSE n' = 0 /\ Call("adc_heaterOff", "adc_done")
     \/ At("record_gas") /\ Goto("record_temperature") /\ UNCHANGED n
  /\ UNCHANGED <<portVars, sensorVars, adcVars, sdVars, fanVars, halted>>

-----------------------------------------------------------------------------
(* The rest of setup() *)

\* gps_process returned true; only a powered receiver gets a fix.
GpsFix ==
  /\ At("gps_wait") /\ n < FixesWanted
  /\ PwrGNSS \in port
  /\ n' = n + 1
  /\ Call("gps_process", "gps_wait")
  /\ UNCHANGED <<portVars, sensorVars, adcVars, sdVars, fanVars, halted>>

GpsSetupDone ==
  /\ At("gps_wait") /\ n = FixesWanted
  /\ Call("gps_setupEnd", "sd_begin")
  /\ UNCHANGED <<portVars, n, sensorVars, adcVars, sdVars, fanVars, halted>>

SdBegin ==
  /\ At("sd_begin")
  /\ \E ok \in BOOLEAN : mounted' = ok /\ HaltUnless(ok, "sd_open")
  /\ UNCHANGED <<portVars, n, sensorVars, adcVars, fileOpen, fanVars>>

SdOpen ==
  /\ At("sd_open")
  /\ \E ok \in BOOLEAN : (ok => mounted) /\ fileOpen' = ok /\ HaltUnless(ok, "sd_opened")
  /\ UNCHANGED <<portVars, n, sensorVars, adcVars, mounted, fanVars>>

\* "File Opened successfully", then the header.
SdPrintHeader ==
  /\ At("sd_opened")
  /\ Goto("idle_again")
  /\ UNCHANGED <<portVars, n, sensorVars, adcVars, sdVars, fanVars, halted>>

SetupHeaterOn ==
  /\ At("heater_on")
  /\ Call("adc_heaterOn", "adc_powerUp")
  /\ UNCHANGED <<portVars, n, sensorVars, adcVars, sdVars, fanVars, halted>>

-----------------------------------------------------------------------------
(* loop() *)

\* (Mutant: the flag is tested without its negation.)
FanStartInverted ==
  /\ At("loop")
  /\ fanAge' \in {age \in 0..2 : age >= fanAge}
  /\ IF fan1On /\ fanAge' >= 1
       THEN fan1On' = TRUE /\ Call("fan1_on", "loop_fanStop")
       ELSE UNCHANGED fan1On /\ Goto("loop_fanStop")
  /\ UNCHANGED <<portVars, n, sensorVars, adcVars, sdVars, halted>>

FanStart ==
  /\ At("loop")
  /\ fanAge' \in {age \in 0..2 : age >= fanAge}
  /\ IF ~fan1On /\ fanAge' >= 1
       THEN fan1On' = TRUE /\ Call("fan1_on", "loop_fanStop")
       ELSE UNCHANGED fan1On /\ Goto("loop_fanStop")
  /\ UNCHANGED <<portVars, n, sensorVars, adcVars, sdVars, halted>>

\* (Mutant: the flag is not cleared.)
FanStopKeepsFlag ==
  /\ At("loop_fanStop")
  /\ \E age \in {a \in 0..2 : a >= fanAge} :
       IF fan1On /\ age = 2
         THEN UNCHANGED fan1On /\ fanAge' = 0 /\ Call("fan1_off", "record_gas")
         ELSE fanAge' = age /\ UNCHANGED fan1On /\ Goto("record_gas")
  /\ UNCHANGED <<portVars, n, sensorVars, adcVars, sdVars, halted>>

FanStop ==
  /\ At("loop_fanStop")
  /\ \E age \in {a \in 0..2 : a >= fanAge} :
       IF fan1On /\ age = 2
         THEN fan1On' = FALSE /\ fanAge' = 0 /\ Call("fan1_off", "record_gas")
         ELSE fanAge' = age /\ UNCHANGED fan1On /\ Goto("record_gas")
  /\ UNCHANGED <<portVars, n, sensorVars, adcVars, sdVars, halted>>

\* tmp117_getTemp follows the same null pointer when begin() has failed.
RecordTemperature ==
  /\ At("record_temperature")
  /\ Goto("moisture_get") \/ (~tmpFound /\ Goto("record_fault"))
  /\ UNCHANGED <<portVars, n, sensorVars, adcVars, sdVars, fanVars, halted>>

\* file.flush() ends the record; with no open file the record is dropped.
RecordFlush ==
  /\ At("flush")
  /\ Goto("loop")
  /\ UNCHANGED <<portVars, n, sensorVars, adcVars, sdVars, fanVars, halted>>

-----------------------------------------------------------------------------
Init == /\ PortInit
        /\ pc = "start" /\ call = "none" /\ step = 1 /\ n = 0
        /\ haveMoisture = FALSE /\ tmpFound = FALSE /\ tmpMeasures = TRUE
        /\ mounted = FALSE /\ fileOpen = FALSE
        /\ adcHasPower = FALSE /\ adcPowered = FALSE /\ adcFitted \in BOOLEAN
        /\ fan1On = FALSE /\ fanAge = 0
        /\ halted = FALSE

\* The microcontroller restarts at any moment and loses its RAM, with or
\* without a loss of supply for the rest of the board.
Restart ==
  /\ pc' = "start" /\ call' = "none" /\ step' = 1 /\ n' = 0
  /\ haveMoisture' = FALSE /\ tmpFound' = FALSE /\ mounted' = FALSE /\ fileOpen' = FALSE
  /\ fan1On' = FALSE /\ fanAge' = 0
  /\ halted' = FALSE
  /\ adcHasPower' = FALSE
  /\ \E powerLost \in BOOLEAN :
       /\ PortReset(powerLost)
       /\ \/ ~powerLost /\ UNCHANGED <<adcPowered, tmpMeasures>>
          \/ powerLost /\ adcPowered' = FALSE /\ tmpMeasures' = TRUE
  /\ UNCHANGED adcFitted

\* What the processor does by itself, without waiting for anybody.
Program ==
  \/ PinWrite \/ ErrorHaltReturns
  \/ Pcf8575Begin \/ Pcf8575SetIdle \/ UsbDriveBegin
  \/ MoistureStandby \/ MoistureSetup \/ MoistureGet
  \/ Tmp117Begin \/ Tmp117Null \/ Tmp117Data \/ RtccSetup
  \/ AdcBegin \/ AdcPowerDown \/ AdcPowerUp \/ AdcReading
  \/ GpsSetupDone \/ SdBegin \/ SdOpen \/ SdPrintHeader \/ SetupHeaterOn
  \/ FanStart \/ FanStop \/ RecordTemperature \/ RecordFlush

Next == Program \/ UsbDriveEnds \/ Tmp117FlagsLost \/ GpsFix \/ Restart

Spec == Init /\ [][Next]_vars

(***************************************************************************)
(* The processor never stops running its program (WF).  The host, the      *)
(* satellites and the sensors owe nothing, and no failure is owed.  Every  *)
(* iteration of loop() takes at least its delay(100), so millis() cannot   *)
(* stay below a limit for ever (SF on a test of the fan that finds more    *)
(* time elapsed), and the bus does not lose every transfer (SF on a        *)
(* delivered one).                                                         *)
(***************************************************************************)
DeliveredWrite == PinWrite /\ port' = writebuf'
TimePasses == FanStart /\ fanAge' > fanAge

FairSpec == /\ Spec
            /\ WF_vars(Program)
            /\ SF_vars(TimePasses)
            /\ SF_vars(DeliveredWrite)

-----------------------------------------------------------------------------
(* Properties *)

Places ==
  {"start", "idle_first", "usb_begin", "usb_session", "moisture_setup", "moisture_begin",
   "tmp117_setup", "tmp117_null", "setup_fault", "tmp117_wait", "rtcc_setup",
   "adc_begin", "adc_powerDown", "adc_cold", "adc_hot",
   "adc_done", "gps_wait", "sd_begin", "sd_open", "sd_opened", "idle_again", "heater_on",
   "adc_powerUp", "loop", "loop_fanStop", "record_gas", "record_temperature",
   "record_fault", "moisture_get", "moisture_read", "flush"}

LoopPlaces ==
  {"loop", "loop_fanStop", "record_gas", "record_temperature", "record_fault",
   "moisture_get", "moisture_read", "flush"}

\* Types of the variables, and the program counter never leaves a function's transfers.
TypeOK ==
  /\ writebuf \in SUBSET Pins /\ port \in SUBSET Pins /\ torn \in BOOLEAN
  /\ pc \in Places
  /\ call \in DOMAIN Transfers \cup {"none", "error_halt"}
  /\ step \in Nat
  /\ IF call \in DOMAIN Transfers THEN step \in DOMAIN Transfers[call] ELSE step = 1
  /\ n \in Nat
  /\ haveMoisture \in BOOLEAN /\ tmpFound \in BOOLEAN /\ tmpMeasures \in BOOLEAN
  /\ adcHasPower \in BOOLEAN /\ adcPowered \in BOOLEAN /\ adcFitted \in BOOLEAN
  /\ mounted \in BOOLEAN /\ fileOpen \in BOOLEAN
  /\ fan1On \in BOOLEAN /\ fanAge \in 0..2
  /\ halted \in BOOLEAN

\* The chip never enables the heater regulator without the boost supply that
\* feeds it, whatever transfers are lost and whenever the processor restarts;
\* only a transfer cut in half can do that.
HeaterNeedsBoost == ~torn => (Heater \in port => Enable5V \in port)

\* The heater is commanded on only while it is being switched, while readings
\* are taken in adc_setup, and from the end of setup() on: never during the
\* USB session, the wait for satellites or for the thermometer, or the mounting of
\* the card, which may last for ever.  (A record that stops at the thermometer's null
\* pointer does so with the heater on: record_fault is one of LoopPlaces.)
HeaterOnlyToMeasure ==
  Heater \in writebuf =>
    \/ call \in {"adc_heaterOn", "adc_heaterOff"}
    \/ pc \in {"adc_hot", "adc_powerUp"} \cup LoopPlaces

\* The GNSS rail is commanded on only inside gps_setup and the two moisture
\* functions: every way out of them, the failure ones too, switches it off.
RailOnlyInWindow ==
  PwrGNSS \in writebuf =>
    \/ call \in {"gps_standby", "gps_shutdown", "gps_setupBegin", "gps_setupEnd"}
    \/ pc \in {"gps_wait", "moisture_begin", "moisture_read"}

\* A gas reading of a record is taken with the heater and its supply commanded
\* on, in spite of the fan and rail switching that shares the shadow word.
GasReadHeated == At("record_gas") => {Heater, Enable5V} \subseteq writebuf

\* The static flag of loop() and the pin of the fan agree whenever no
\* function is half-way, across restarts as well.
FanFlagMatchesPin == call = "none" => (fan1On <=> Fan1 \in writebuf)

\* loop() runs without a data file only after an error halt has been shown.
ClosedFileReported == pc \in LoopPlaces /\ ~fileOpen => halted

\* Where the program may stop for good: two waits for somebody outside, the host and
\* a fix; a converter that is believed to have power and has none; a thermometer in
\* shutdown that the reset did not reach; and the null pointer of a thermometer that
\* was not found.
KnownStop ==
  \/ pc \in {"usb_session", "gps_wait"}
  \/ pc \in ReadPlaces /\ adcHasPower /\ ~adcPowered
  \/ pc = "tmp117_wait" /\ ~tmpMeasures
  \/ pc \in {"setup_fault", "record_fault"} /\ ~tmpFound /\ halted

\* The program completes records for ever unless it restarts for ever or stops for
\* good in one of these states.
OnlyKnownStops ==
  \/ []<>At("flush")
  \/ []<>(pc = "start")
  \/ <>[]KnownStop

\* A chip that a lost or torn transfer has left behind its shadow catches up,
\* because every transfer carries the whole shadow and loop() keeps switching
\* the fan.
DivergenceHeals ==
  \/ []<>(port = writebuf)
  \/ []<>(pc = "start")
  \/ <>[]KnownStop

\* misc.ino:149: error_halt prints "Error halt at line": the program halts there.
HaltStops == [][call = "error_halt" => call' = "error_halt" \/ pc' = "start"]_vars
=============================================================================
