# Methane recorder: specifications and proofs

TLA+ models of the firmware in `src/MethaneFeather_RecorderV4`, a data logger for a
methane sensor: an Arduino program (`setup()` once, `loop()` for ever) on a board where a
PCF8575 port expander switches every power rail. TLC checks the models on small instances;
TLAPS proves the theorems listed below for every value of the constants.

## 1. The system

| component | state | operations | what is hard about it |
|---|---|---|---|
| main program (`MethaneFeather_RecorderV4.ino`) | `ftime`, `fan1On` | `setup`, `loop` | one thread, but every step may fail, the processor may restart anywhere, and `millis()` wraps |
| port expander (`misc.ino`, `libraries/Adafruit_PCF8574`) | the library's shadow word `_writebuf`; the chip's latch | `pcf8575_setup`, `_setidle`, `_ledtest`, `digitalWrite`, `digitalWriteWord` | the shadow and the chip diverge when a transfer is lost; every function shares the one word; the chip outlives a restart |
| moisture sensor (`misc.ino`) | `haveMoisture` | `moisture_setup`, `moisture_get` | it hangs on the GNSS rail; each early return must release the rail |
| battery, error halt (`misc.ino`) | none | `checkBattery`, `batteryVolts`, `error_halt` | `error_halt` returns |
| gas sensor ADC (`adc.ino`, NAU7802 library) | `adcHasPower`; the chip's registers, calibration and output; the heater | `adc_setup`, `adc_heaterOn/Off`, `adc_powerUp/Down`, `adc_getReading`; `reset`, `powerUp/Down`, `setGain`, `setLDO`, `calibrateAFE`, `getReading` | order of heater and boost supply; a wait without limit; a belief that can be wrong; a read that fails is 0xFF and is written back |
| GPS (`gps.ino`, GPS library) | transfer buffer, line, last line, last time and last fix with their ages | `gps_setup`, `gps_process`, `gps_shutdown`, `gps_standby`; `read`, `lastNMEA`, `parse` | sentences cut by transfers, fillers and losses; freshness against a delay; carries of a clock; a wait without limit |
| real-time clock (`pcf8523.ino`) | the chip's time | `rtcc_setup`, `rtcc_getTime` | the initialisation may be to a bogus time |
| thermometer (`tmp117.ino`), environment sensor (`bme688.ino`) | measurement modes | `tmp117_setup`, `tmp117_getTemp`, `bme_setup`, `bme_printReadings` | stale one-shot values; a wait for data without limit; a null register after a failed `begin`; a failed reading shifts the columns |
| data file (`sdcard.ino`, SdFat) | mounted card, open file; SdFat's caches of a data sector and a FAT sector; the card | `sd_setup`, `sd_printHeader`, `sd_recordData` | failures are announced and ignored; rows become durable only at a flush, sector by sector; one buffer serves data and directory |
| USB drive (`usbdrive.ino`) | `changed`, `unmount`, unit ready; the sector cache of SdFat | `usbDrive`, read/write/flush/eject callbacks | the host writes under the file system's cache; callbacks run inside delays |

The components interact by calls from `setup()` and `loop()`, through the expander's shadow
word (the fan, the GNSS rail and the heater all rewrite it), through the card (host, listing,
logger) and through the real-time clock. There are no interrupts in use: `secondISR` is never
attached. Concurrency comes from the USB callbacks, which run inside `tud_task()` and
`delay()`, from the chips, which keep state of their own, and from restarts.

What makes each part correct, in one line: the heater never without its supply, and on only
to measure; the GNSS rail on only in its windows; a reading is taken hot, calibrated and of its
own; flags agree with pins; failures are reported; the fan keeps its cycle across the wrap of the
clock; the card belongs to one side at a time and is read afresh after the other; sentences are
taken whole and in order; a fix counts once and sets the right time; a row stays readable once
flushed; the program stops for good only in the few states that are named.

## 2. Modules

| module | what it is | code |
|---|---|---|
| `PortExpander` | shadow word, chip, and one transfer with its faults | `Adafruit_PCF8575.cpp:62-92`, `misc.ino:72-94` |
| `Recorder` (EXTENDS `PortExpander`) | `setup()` and `loop()` with everything they call that switches a pin, the ADC or the data file | all `.ino` files |
| `RecorderProofs`, `LoopProofs` | theorems about `Recorder`: set-up and rails; what `loop()` finds and keeps | |
| `FanCycle` | the abstract cycle of fan 1, told with unbounded time | `MethaneFeather_RecorderV4.ino:102-113` |
| `FanTimer` | the same control with words that wrap | same lines |
| `FanTimerProofs` | `FanTimer` implements `FanCycle`, and more | |
| `UsbDrive` | the USB session, the host, the sector cache, and the handing over of the card | `usbdrive.ino`, `sdcard.ino:38-52`, `FsCache.cpp:29-53` |
| `UsbDriveProofs` | theorems about `UsbDrive` | |
| `SentenceStream` | the abstract reader: sentences whole, in order, at most once | `gps.ino:66-74` |
| `GpsReader` | transfers with fillers, line assembly, checksum | `Adafruit_GPS.cpp:305-419`, `NMEA_parse.cpp:561-614` |
| `GpsReaderProofs` | `GpsReader` implements `SentenceStream`, and more | |
| `GpsClock` | counting fixes and setting the clock | `gps.ino:25-51, 66-115`, `Adafruit_GPS.cpp:570-584`, `NMEA_parse.cpp:779-816` |
| `GpsClockProofs` | theorems about `GpsClock` | |
| `Nau7802` | the converter chip, and the read-modify-write of its library | NAU7802 library `.cpp:363-413`, `.h:62-91` |
| `SensorRecord` (EXTENDS `Nau7802`) | set-up of converter and thermometer, reading, the prints of a row | `adc.ino:28-99`, NAU7802 library `.cpp:34-269`, `tmp117.ino`, `Adafruit_TMP117.cpp:113-120, 398-416`, `bme688.ino:17-33`, `sdcard.ino:15-29` |
| `SensorRecordProofs` | theorems about `SensorRecord` | |
| `DurableLog` | the abstract promise of a log: what was flushed stays readable | `sdcard.ino:15-29, 63-68` |
| `SdLog` | the data file down to the sectors: names, prints, clusters, flush | `sdcard.ino`, `FatFile.cpp:1238-1278, 1399-1519`, `FatPartition.cpp:31-82`, `FsCache.cpp:29-75` |
| `SdLogProofs` | `SdLog` implements `DurableLog`, and more | |
| `MC*` | instances for TLC | |

### Recorder
`pc` is the place in `setup()` or `loop()`. A function that switches pins is the sequence of
its I2C transfers (`Transfers`); a call sets `call` and `step`, and `PinWrite` performs one
transfer at a time, so faults and restarts fall between any two. `Write` always updates the
shadow; the chip follows (`Delivered`), does not (`Lost`), or takes the first byte only
(`Torn`). The constant `Faults` says which of these, and of the ADC's power writes, may fail.
`Restart` clears the RAM and either keeps or cuts the supply of the rest of the board; the
expander powers up with every pin high, and nothing is assumed of the order of its rails
before the first `pcf8575_setidle`. `error_halt` is a call that returns.
The thermometer has two places where the program may stop for good. When `begin` does not find it
the driver has no registers (`tmpFound`), and after the error halt `tmp117_setup` and later each
record go through a null pointer: the processor gets past it or stands in its fault handler
(`setup_fault`, `record_fault`). When it is found, `begin` resets it without looking at whether the
reset arrived and waits for data without limit (`tmp117_wait`): that wait ends when the chip
measures (`tmpMeasures`), or when its flags cannot be read and are taken for ones.
Readings are not values here: an ADC reading arrives when the chip is powered and believed so.
The USB session is one wait, and time is the position of `millis() - ftime` against the two
limits of the fan (`fanAge`). A transfer that succeeds is one step: the microseconds between
its two bytes are not a state.

### FanCycle, FanTimer
One action, `Iterate(d)`: an iteration of `loop()` after `d` more milliseconds. `FanTimer`
computes with `Plus` and `Minus`, the sum and difference modulo the constant `Wrap`;
`age`, `onFor` and `sinceStart` are history variables in true time. `FanCycle` has `age` and
`onFor` only. The refinement mapping is the identity on `fan1On`, `age` and `onFor`: what is
to be shown is that the decisions made from wrapped words are those made from true time.

### UsbDrive
The firmware's actions follow `usbDrive()` line by line (`LoopTest`, `ListSector`, `ListDone`,
`ConnectionCheck`, `Unready`, `DrainEnds`) and then `sd_setup` (`Remount`, `SearchDirectory`).
`DrainEnds` is enabled as soon as the drain has begun: the code waits for two seconds without a
callback and asks neither for a connection nor for a command in progress.
The host's actions are the callbacks, enabled where the USB stack runs them. Only sectors of
the root directory are kept, with two contents each. `PrintsYield` says whether callbacks also
run while the listing is printed; the USB serial port yields when its buffer is full. Two variables
are history. `cut` says that the last announcement of the host was lost, because it was unplugged
within a command or because its flush ran while the directory was listed. `stalled` says that
the drain ended within a command. After the session `CallbacksRun` stays true in the logger's
delays; what protects the card is `ready = FALSE`, which lets no command begin, and the drain, which
lets a command go on that the host does not interrupt for two seconds.

### SentenceStream, GpsReader
A character is a cell `<<sentence, place, kind>>`, so that any mixture of sentences can be told
from a whole one; that the checksum tells them apart too is what the model takes from NMEA.
`Refill` is one I2C transfer of `Adafruit_GPS::read` with the filtering of line feeds,
`RefillFails` one that comes back short, `ReadChar` and `LineEnd` one character each, and
`Parse` is `newNMEAreceived`, `lastNMEA` and `parse` of `gps_process`. Times are the cell that was
being read, which is enough to say whose time `sentTime` is. The refinement mapping to
`SentenceStream` counts a sentence as sent when its star has been handed over.

### GpsClock
Time is in tenths of a second. `Receive` is the end of a sentence with or without a fix, read at
any age, `Count` the rest of `gps_process`, `Tick` the passing of time between and within polls.
The ages of the last time and of the last fix are kept apart, as `secondsSinceTime` and
`secondsSinceFix` are. `Carry` and `Left` are the three `while (x > base)` loops in closed form.

### Nau7802, SensorRecord
`todo` is the program still to run as a sequence of operations; a function that is called puts
its own before the rest, so a set-up of twenty register writes is data and one action
(`Register`) performs them. `Rmw` is one read-modify-write of a field: a failed read yields ones
in every field (0xFF), a failed write changes nothing, and `MaxFaults` bounds both. Of the chip
(external) the model has what its data sheet and the library's waits rest on: the reset bit, the
conditions of a conversion, the end of a calibration, well or with an error (`CalError`), and what a
conversion is worth (`conv`). `calibrateAFE` waits a second at most and its result is ignored:
`Calibrated` may go on at any time, and `calFailed` is history, that a result of the present start
was false.
The thermometer has its mode and the age of its register, and its reset (`TmpReset`) may be lost as
any other access; `TmpWait` is `waitForData`, which then has no end in a chip that is shut down.
The row is a list of columns, kept for the size of a record only; the fifty and three hundred readings of
`adc_setup` are one each, because no state but the counter differs between them.

### DurableLog, SdLog
The card is three variables: `dir` (an entry by file name), `fat`, and `data`. `cache` is
`FsCache`, one buffer for data and directory sectors; `fatRam` is the separate cache of the
FAT; `file` is the `FsFile` with its cluster, position and dirty flag. A cell is what one
`print` puts into a sector. `Open` is the search and `SD.open`; `PrintField` is one
`FatFile::write`, with the allocation of a cluster, the eviction of the sector in the buffer,
and the write of a full sector; `PrintNoSpace` is a write on a full card; `FlushEntry`,
`SyncData` and `SyncFat` are the steps of `flush`. `Restart` may come between any two of them
and mounts the card as it is. `printed`, `promised` and `spoilt` are history: what `print`
accepted, what it had accepted before the last `flush` that returned true, and the files of which
a write has failed, whose promise does not grow any more. `DurableLog` has `promised`
and what a reader of the card gets; the refinement mapping computes the latter from `dir`,
`fat` and `data` by following the chain (`ReadBack`).
Every action writes at most one sector, with one exception: a print that fills a sector while
the buffer still holds a directory sector that an earlier flush failed to write. A restart
between these two writes leaves the card as `SyncData` followed by `Restart` does.

## 3. Runs

| run | instance | what it shows |
|---|---|---|
| `recorder` | all faults, counts 2/2/2; 129 312 states | the seven invariants of rails, flags and failures; `OnlyKnownStops` and `DivergenceHeals` under `FairSpec` |
| `recorder_halt` | the same | violation: `error_halt` returns (`HaltStops`) |
| `fan_timer` | limits 12 and 14, iterations 1..4, word 32; 2 592 states | exact elapsed time, refinement, on phase, a start in time, alternation |
| `usb_drive` | 2 directory sectors, 2 sectors a command, printing yields; 13 952 states | the listing catches up with the host, the card changes hands once, the session ends |
| `usb_one_sector` | 1 sector | violation: the listing shows the cached directory |
| `gps_clock` | sentences around each boundary, 3 fixes; 16 620 states | one count a sentence, time kept, clock set |
| `gps_field_range` | the same | violation: a 60 is written |
| `gps_reader` | 4 sentences of 4 or 5 characters, transfers of 3, lines of 6, one failed transfer; 110 245 states | implements `SentenceStream`; the time of a sentence is its own; losses are bounded |
| `sd_log` | 2 names, 3 clusters of 2 sectors of 2 cells, 2 rows of 3 fields, any write may fail; 161 181 states | implements `DurableLog`; nothing is read that was not printed; no shared clusters |
| `sd_log_sync` | the same | violation: a flush returned true and its rows are not readable |
| `sensor_record` | 2 failed accesses, restarts, calibrations that fail or take too long; 123 214 states | readings are right unless an access or a calibration failed; records go on unless a lost access has left the converter standing still or the thermometer shut down |
| `record_temperature` | no failed access | violation: every record shows the temperature of `setup()` |

In `MCSdLog.cfg` clusters are `2..LastCluster`, as the FAT numbers them.

**Bounds.** `ColdReadings`, `HotReadings` and `FixesWanted` (50, 300, 10 in the code) only
repeat a step that changes a counter; two is the least that repeats. The fan's instance keeps
the ratio of word and limits such that the word wraps within three cycles, at every offset
(`now` starts anywhere). With limits 2 units apart, iterations of 1 to 4 overshoot either limit, and
those of 3 and 4 can start and stop the fan at once: `OnPhase` shows that no shorter one does. One and two directory sectors are
the sizes at which the next listing does and does not find its first sector in the cache; more
behave as two. `MaxAge` in `GpsClock` is just beyond the freshness limit: an older sentence is
never fresh again. In `GpsReader` a transfer is shorter than a sentence, as 32 characters are;
lengths of 4 and 5 put the border of a transfer at every place of a sentence, before its LF
included; a line of 6 cuts the checksum off one pair of joined sentences and not off another,
as 119 does with sentences of 45 to 75. In `SdLog` rows of three fields on sectors of two make rows
end in the middle and at the end of sectors and clusters, a file takes a cluster and a half, and
the card is full before the last name is used, so every boundary of `write` is met with each
kind of contents of the buffer. Two failed accesses of the converter are what one register access
can suffer (its read and its write), and what `begin` needs to give up.

**Fairness.** `Recorder`: the processor runs its program (WF on `Program`); each iteration of
`loop()` has a `delay(100)`, so time passes the fan's limits (SF on `TimePasses`); the bus does
not lose every transfer (SF on `DeliveredWrite`). Host, satellites, ADC and thermometer owe nothing,
and no access has to fail; `OnlyKnownStops` says what follows. `FanTimer`: `loop()` is called for ever. `UsbDrive`: the
processor and its clock run; nothing obliges the host to finish a command, to eject or to come or
go. `GpsClock`: time passes, sentences with a fix keep
coming (a view of the sky) and are not all interrupted by a delay, and a poll every 10 ms does
not miss every window of 0.5 s. `SensorRecord`: the processor runs without an access
that has to fail, and a converter that is powered and clocked finishes its calibrations and
conversions.

**Deadlock** is checked in every run.

**Findings.** The five violations, with the lines they contradict, are in `PROJECT.json`. That
`error_halt` returns has a second effect that any reader of the console will meet: after a failed
`SD.open`, `sdcard.ino:60` announces an opened file.
In `GpsClock` the wrong carries turn out harmless for what the fields denote: `TimeKept` holds,
because 14:60:00 is still the right instant; it is the range that `DateTime` asks for which is
missed. `TypeOK` there records that an hour of 24 is never written, which is also why writing
`GPS.day` in place of the adjusted `d` loses nothing.
In `SdLog` the durability of the log depends on writes that succeed: `ImplementsDurableLog`
holds across restarts for files of which no write has failed, and `SyncedIsReadable` fails after
one failed write. What `DurableLog` still
promises of such a file are the cells that were flushed before the failure.
`NoCrossLinks` speaks of files of which a flush has returned: a restart within the flush of the
header itself, between its entry and the FAT, leaves an entry whose cluster is free and goes to the
next file. Only that header is lost.
Some facts that the passing properties allow for are worth knowing too. The fan starts about
every 35 s, not "once every 30 seconds" (`MethaneFeather_RecorderV4.ino:105`), because
`ftime` is reset at the stop; `StartDue` gives the true limit. A transfer of which only the LF of
a sentence is kept is dropped as a filler (`Adafruit_GPS.cpp:327`, against `:319`) and costs two
sentences: these are the `drops` of `LossBounded`, and at the baud and rates of the program the
next second brings another sentence. A NAU7802 register that cannot be read is written back as
ones (`setBit`, `.cpp:363`): that is why `ReadingRight` and `RecordsContinue` speak of `disturbed`
starts. `adc_setup` ignores that a calibration has failed or timed out (`adc.ino:58`) and such a
start records readings that are not calibrated: `calFailed` in `ReadingRight`. A flush callback
during the listing is forgotten (`usbdrive.ino:140`): `cut` in `ListingFresh`. The program also has
stops that it never leaves, in `KnownStop` of `Recorder` and in the last two cases of
`RecordsContinue`; what the two properties show is that there are no others, and what each takes.

## 4. Proofs

All proofs hold for every value of the constants under the named assumptions
(`FaultsAssumption`, `CountsAssumption`, `FanAssumption`, `ReaderAssumption`, `FitAssumption`,
`LogAssumption`, `FaultBound`, and those of `GpsClock` and `UsbDrive`).

* `TypeCorrect` (`Recorder`): `TypeOK` is inductive. One lemma for transfers
  (`PinWriteType`), one for set-up, one for running; `TransfersType` says that each function
  is a sequence of transfers of pins.
* `HeaterOrder`: `HeaterNeedsBoost` speaks of the chip, and is not inductive: a lost transfer
  is delivered by a later one, so the shadow must have the order too
  (`ShadowHeaterNeedsBoost`), and between two transfers of `adc_heaterOn` or `adc_heaterOff`
  the first must have happened (`HeaterHalfWay`). `HeaterInv` is the three together.
  `HeaterTransfers` inspects every function once; every step but a transfer and a restart is
  `Quiet` and leaves the expander alone.
* `RailWindow`: `RailOnlyInWindow` with `RailCallers` (a function that raises the rail is
  running only on the way to a place of the window). `RailTransfers` is its inspection of the
  functions.
* `HeaterWindow`, `GasHeated`, `FanFlag`, `FileReported` (`LoopProofs`): one inductive
  invariant, `LoopInv`, about the shadow word, which no fault can disturb. `Callers` says which
  functions may run at which places, `HeaterSteps` how far the two heater functions have got,
  `Heated` that heater and supply are commanded on from the end of `setup()`, `FanState` that a
  running fan function has already set the flag. `LoopTransfers` inspects every function once.
* `ElapsedTrue`, `TimerTypes`, `CycleImplemented`, `OnPhaseLength`, `StartInTime` (`FanTimer`): the
  invariant is `TimerInv`, type correctness with `ElapsedIsTrue` (the wrapped difference is `age`,
  and `age` is bounded by the limit of the present phase) and `OnSince` (relates `onFor` to `age`
  while the fan runs). The bound is what keeps the next difference below `Wrap`. From it each step
  of `FanTimer` is a step of `FanCycle`, and the on phase has its length; `LastStart` adds where
  in the cycle the last start lies.
* `ClockTypes`, `CountedOnce`, `SecondKept` (`GpsClock`): a fix that was counted is older than the
  wait that remains (`Spaced`), and the time is at least as young as the fix (`TimeYounger`); with
  `Fresh <= Pause` a counted fix is never fresh again. The carries run at most once because
  `Fresh < 600`, which is where that assumption comes from.
* `SessionTypes`, `SearchSees`, `CardHandedOver`, `ListingSeesCard` (`UsbDrive`): `Handover` says
  that beyond `unready` the unit is not ready, so that no command begins, and that a command still
  open after the drain is one that had kept still for it (`stalled`); `Listed` that the sectors
  already listed in this turn, and all of them between turns, are as the card has them unless
  `changed`, an open command or `cut` accounts for it. The cache must
  not hold the sector that is listed next, which takes at least two sectors, as the violation with
  one shows.

* `ReaderTypes`, `OwnTime`, `StreamImplemented` (`GpsReader`), for sentences, transfers and lines of
  any length and any number of failed transfers. The cells of the stream are in order by sentence
  and place (`StreamShape`), and the transfer keeps that order when it drops fillers
  (`KeptInOrder`); the invariant says that what is on its way, in buffer, line and last line, is in
  order too, behind what was accepted. A line that `parse` accepts begins with the first cell of its
  sentence (`ValidLine`), so whatever follows it is later: no sentence is taken twice, and each
  is taken with the time that was being read when it began. `ReaderStep` maps each step to a
  step or a stutter of `SentenceStream`. The length of a sequence that is filtered is reached by
  well-founded induction over a set of numbers, not over an operator.
* `LossesBounded` (`GpsReader`), under `FitAssumption`: a transfer (32) is shorter than an RMC
  sentence (45 to 75), which is shorter than the line (119). (The reply to a command is shorter than
  a transfer; between two sentences it may be lost together with both.) `LossInv` asserts that there is
  a set `hurt` of sentences, at most two for each transfer lost, and that every other sentence is
  `Sound`. Before its first cell is read that means that the line before it is complete or ends with
  what comes next (`Boundary`); from then on (`Flight`) it is parsed, or is the last line, or is
  `Lying` in line and buffer, from the beginning of a line, its cells at one offset from their places
  in the buffer and an LF behind its CR, its own or a filler. The places that a transfer keeps are an interval
  (`KeptIs`): an LF of the stream stands behind a CR, so at most the first cell is skipped, and at
  most one filler is kept. Hence a transfer that is taken lets a sentence begin (`StartLine`) or go
  on (`Continue`). A lost one damages the sentence of the next cell and the one behind it; those
  before are parsed already (`AllDone`), and the ones after are out of its reach (`LostTransfer`).
* `LogTypes`, `LogNoCrossLinks`, `LogNothingInvented`, `LogImplemented` (`SdLog`),
  for any card, any layout of clusters, sectors and rows, and with or without writes that fail. No
  variable says which file a cluster belongs to, so the invariant asserts that there is a map
  (`Shape`): a set `used` of clusters, the `owner` of each and its `index` in the chain of the owner.
  `Linked` says that both copies of the FAT agree with it as far as each goes, `FatInv` that the one
  on the card lags behind the cached one, `KeptFile` that the promise of a file lies in clusters that
  the card links. What is sure of a file is the size of its entry, or its promise once a write
  has failed (`Sure`); `OnCard`, `InCache` and `BesideCache` say where each printed cell is found
  until then. Each step supplies the map of the next state. From the invariant the chain a reader
  follows is the owned clusters in their order (`ChainOf`), and it yields what was printed
  (`Readable`); a step that ends a flush is `Flushed` of `DurableLog`, any other at most
  `CardChanges` (`StepImplemented`). That `spoilt` is needed is what the violation of `sd_log_sync`
  shows.
* `RecordTypes`, `ReadingsRight` (`SensorRecord`), for any number of failed accesses.
  The program still to run is the remainder of `Setup` or `Record` at one of 34 places, behind the
  remainder of the function called there (`AtPlace`, `Remaining`), so the invariant can say of every
  place what the operations before it have left: the flag (`Flag`) and the row (`Rows`) always, and
  in a start without a failed access or calibration (`Undisturbed`) the clear reset bit (`Cleared`), the power of
  both sections (`Powered`), the fields written so far (`Configured`), a calibration under way or
  done under them (`Calibration`), and that a result announced after the delay of a power-up is
  right (`Fresh`). Nothing is said of the registers before the reset of `NAU7802::begin`, and the
  chip may calibrate or convert between any two operations (`ChipInv`). `StoredField` is what an
  access without a failure does; `SetupPlaces` and `RecordPlaces` inspect the program once.

Every invariant of the runs that pass is a theorem. Model-checked only: every liveness property and
`DivergenceHeals` (fairness and ENABLED are beyond TLAPS).

## 5. Not modelled

Values of readings and their conversion (`adc_gasResistivity`, `adc_ppmGas`), console output,
colours of the pixel, and code that is never called (`zpm*`, `secondISR`, `gps_setTime`,
`bme_process`). `rtcc_setup` is a step that may fail; its initialisation to a bogus time is
followed, in the same run, by the setting from ten fixes. Most lines of the repository belong to
vendored libraries, of which the recorder uses few operations (graphics, MIDI, displays, flash, a
second FAT library and the exFAT half of SdFat are never reached); what is modelled of them is
what the recorder calls. The hazards that no property covers are listed with the reason in
`PROJECT.json`.

## 6. What could follow

1. The real-time clock: the oscillator-stop flag across restarts, and the dates of files.
2. A second kind of sentence in `GpsClock` (GGA, when the RMC-only command was lost), whose time
   comes without a date.
