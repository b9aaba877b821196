------------------------------ MODULE FanTimer ------------------------------
(***************************************************************************)
(* The fan control of loop(): millis() and ftime are unsigned words that   *)
(* wrap at Wrap (2^32, every 49.7 days), and the elapsed time is their     *)
(* difference modulo Wrap.  age and onFor are history: the true times that *)
(* FanCycle speaks of.                                                     *)
(*                                                                         *)
(* The tests of one iteration use one value of millis(): the I2C transfer  *)
(* between them takes less than its unit.                                  *)
(***************************************************************************)
EXTENDS Naturals

CONSTANTS StartAfter, StopAfter, MinIter, MaxIter, Wrap

\* An iteration stalled for 49 days would be lost to the difference.
ASSUME FanAssumption ==
  /\ StartAfter \in Nat /\ StopAfter \in Nat /\ StartAfter < StopAfter
  /\ MinIter \in Nat \ {0} /\ MaxIter \in Nat /\ MinIter <= MaxIter
  /\ Wrap \in Nat /\ StopAfter + MaxIter < Wrap

VARIABLES
  now,          \* millis() at the head of the iteration
  ftime, fan1On,
  age, onFor,   \* history, see FanCycle
  sinceStart    \* history: true time since the fan last started

vars == <<now, ftime, fan1On, age, onFor, sinceStart>>

\* Unsigned arithmetic: x + d and x - y of two words, for d below Wrap.
\* (Mutant: a sum wider than the word.)
PlusWide(x, d) == x + d
Plus(x, d)  == IF x + d < Wrap THEN x + d ELSE (x + d) - Wrap
\* (Mutant: the difference is taken as if millis() never wrapped.)
MinusNoWrap(x, y) == IF x >= y THEN x - y ELSE 0
Minus(x, y) == IF x >= y THEN x - y ELSE (x + Wrap) - y

\* The processor may have run for any time when setup() returns.
Init == /\ now \in 0..(Wrap - 1)
        /\ ftime = now
        /\ fan1On = FALSE
        /\ age = 0 /\ onFor = 0 /\ sinceStart = 0

\* The two tests of loop().
\* (Mutant: >= for >.)
DueAt(elapsed) == elapsed >= StartAfter
DueFrom(elapsed) == elapsed > StartAfter
\* (Mutants: the limit of the start; the limit counted from the start.)
EndsEarly(elapsed) == elapsed > StartAfter
EndsLate(elapsed)  == elapsed > StartAfter + StopAfter
EndsFrom(elapsed)  == elapsed > StopAfter

Iterate(d) ==
  LET clock   == Plus(now, d)
      elapsed == Minus(clock, ftime)
      runs    == fan1On \/ DueFrom(elapsed)
      ends    == runs /\ EndsFrom(elapsed)
  IN /\ now' = clock
     /\ fan1On' = (runs /\ ~ends)
     /\ ftime' = IF ends THEN clock ELSE ftime
     /\ age' = IF ends THEN 0 ELSE age + d
     /\ onFor' = IF fan1On THEN onFor + d ELSE IF runs THEN 0 ELSE onFor
     /\ sinceStart' = IF ~fan1On /\ runs THEN 0 ELSE sinceStart + d

Next == \E d \in MinIter..MaxIter : Iterate(d)

\* loop() is called for ever.
Spec == Init /\ [][Next]_vars
FairSpec == Spec /\ WF_vars(Next)

-----------------------------------------------------------------------------
TypeOK == /\ now \in 0..(Wrap - 1) /\ ftime \in 0..(Wrap - 1)
          /\ fan1On \in BOOLEAN
          /\ age \in Nat /\ onFor \in Nat /\ sinceStart \in Nat

\* The difference of the two words is the true time since the last cycle ended,
\* across every wrap of millis(), and no limit is ever overdue by more than the
\* iteration that notices it.
ElapsedIsTrue == /\ Minus(now, ftime) = age
                 /\ age <= IF fan1On THEN StopAfter ELSE StartAfter

\* The wrapping timer does what FanCycle promises.
Cycle == INSTANCE FanCycle
ImplementsCycle == Cycle!Spec

\* In every cycle the fan runs for the 5 s between the limits, give or take one
\* iteration, and only an iteration that itself took more than these 5 s starts and
\* stops it at once.
OnPhase ==
  [][age' = 0 => /\ onFor' + MaxIter > StopAfter - StartAfter
                 /\ onFor' <= (StopAfter - StartAfter) + MaxIter
                 /\ fan1On \/ Minus(now', now) > StopAfter - StartAfter]_vars

\* The fan goes on and off for ever, unless iterations outlast the on phase again and
\* again.
FanAlternates ==
  /\ []<>~fan1On
  /\ []<>fan1On \/ []<><<Minus(now', now) > StopAfter - StartAfter>>_vars

\* The air of the sensor is changed in time: at every iteration the last start (or
\* setup) is less than 35 s and one iteration ago.  It is not 30 s, because the
\* interval is counted from the stop before (MethaneFeather_RecorderV4.ino:105-111).
StartDue == sinceStart < StopAfter + MaxIter
=============================================================================
