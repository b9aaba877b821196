---------------------------- MODULE PortExpander ----------------------------
(***************************************************************************)
(* The PCF8575 port expander that switches every power rail and LED of the *)
(* board, as the firmware drives it: a shadow word kept by the library in  *)
(* RAM (writebuf) and the output latch of the chip (port).  A word is the  *)
(* set of the pins that are high.                                          *)
(*                                                                         *)
(* digitalWrite changes one bit of the shadow and sends the whole shadow,  *)
(* low byte first; no caller looks at the result.  So a transfer that the  *)
(* bus loses leaves the chip behind its shadow, and one that is cut after  *)
(* its first byte leaves a mixture of two words on the chip (torn).        *)
(*                                                                         *)
(* A transfer is one step: the few tens of microseconds in which a good    *)
(* transfer has changed only half of the pins are not a state here.        *)
(***************************************************************************)
EXTENDS Naturals

CONSTANT Faults   \* which faults the bus may show: transfers of the expander that are
                  \* lost or torn, accesses of the ADC and of the thermometer that fail

ASSUME FaultsAssumption == Faults \subseteq {"lost", "torn", "adc", "tmp"}

VARIABLES
  writebuf,   \* the library's shadow word
  port,       \* the word on the chip's pins
  torn        \* history: the last change of port was half a transfer

portVars == <<writebuf, port, torn>>

Pins    == 0..15
LowByte == 0..7

Enable5V == 0
Fan1     == 2
PwrGNSS  == 8
Heater   == 9
Fan2     == 10
Led2G    == 12
Led2B    == 13

\* 0xF8FA: boost supply, both fans, GNSS rail and heater off, LEDs and inputs high.
\* (Mutant 0xFAFA: the heater bit is left high.)
IdleWordHeaterHigh == Pins \ {Enable5V, Fan1, PwrGNSS, Fan2}
IdleWord == Pins \ {Enable5V, Fan1, PwrGNSS, Heater, Fan2}

\* The order of ledpins[].
TestPins == <<3, 4, 5, 11, 12, 13, 14, 15>>

\* One transfer is described by the pins it clears and the pins it sets.
\* (Mutant HighAlone: = instead of |= in digitalWrite.)
HighAlone(pin) == [low |-> Pins, high |-> {pin}]
High(pin)  == [low |-> {},    high |-> {pin}]
Low(pin)   == [low |-> {pin}, high |-> {}]
Word(word) == [low |-> Pins,  high |-> word]

\* The shadow word after a transfer has been prepared.
Shadow(w) == (writebuf \ w.low) \cup w.high

PortInit == /\ writebuf = {}
            /\ port = Pins       \* the chip powers up with every pin high
            /\ torn = FALSE

Delivered(w) == /\ port' = Shadow(w)
                /\ torn' = FALSE

Lost == /\ "lost" \in Faults
        /\ UNCHANGED <<port, torn>>

Torn(w) == /\ "torn" \in Faults
           /\ port' = (Shadow(w) \cap LowByte) \cup (port \ LowByte)
           /\ torn' = TRUE

\* digitalWrite and digitalWriteWord.
Write(w) == /\ writebuf' = Shadow(w)
            /\ Delivered(w) \/ Lost \/ Torn(w)

\* A reset of the microcontroller clears the shadow; the chip keeps its pins
\* unless it loses its supply too.
PortReset(powerLost) == /\ writebuf' = {}
                        /\ IF powerLost THEN port' = Pins /\ torn' = FALSE
                                        ELSE UNCHANGED <<port, torn>>
=============================================================================
