------------------------------ MODULE FanCycle ------------------------------
(***************************************************************************)
(* What loop() promises of fan 1, told with a clock that never wraps: age  *)
(* is the true time since the last cycle ended.  Each iteration of loop()  *)
(* takes MinIter to MaxIter; the fan starts in the first one that finds    *)
(* more than StartAfter elapsed and stops in the first that finds more     *)
(* than StopAfter, which ends the cycle.                                   *)
(***************************************************************************)
EXTENDS Naturals

CONSTANTS
  StartAfter,   \* 30000 ms
  StopAfter,    \* 35000 ms
  MinIter,      \* the delay(100) of loop()
  MaxIter       \* the longest iteration: readings, GNSS boot, card writes

VARIABLES
  fan1On,
  age,      \* true time since the end of the last cycle
  onFor     \* true time the fan has run, in this cycle or to the end of the last

vars == <<fan1On, age, onFor>>

Init == fan1On = FALSE /\ age = 0 /\ onFor = 0

\* One iteration after d more milliseconds; one iteration may start and stop
\* the fan when it follows a long one.
Iterate(d) ==
  LET elapsed == age + d
      runs    == fan1On \/ elapsed > StartAfter
      ends    == runs /\ elapsed > StopAfter
  IN /\ fan1On' = (runs /\ ~ends)
     /\ age' = IF ends THEN 0 ELSE elapsed
     /\ onFor' = IF fan1On THEN onFor + d ELSE IF runs THEN 0 ELSE onFor

Next == \E d \in MinIter..MaxIter : Iterate(d)

Spec == Init /\ [][Next]_vars
=============================================================================
