--------------------------- MODULE FanTimerProofs ---------------------------
(***************************************************************************)
(* Theorems about FanTimer for every word size and every limits: the       *)
(* difference of two wrapping words is the true elapsed time, the timer    *)
(* implements FanCycle, and each on phase has its length.                  *)
(***************************************************************************)
EXTENDS FanTimer, TLAPS

\* A difference that stays below the word size grows with the clock, wrap or not.
LEMMA DifferenceGrows ==
  ASSUME NEW x \in 0..(Wrap - 1), NEW y \in 0..(Wrap - 1), NEW d \in Nat,
         Minus(x, y) + d < Wrap
  PROVE  /\ Plus(x, d) \in 0..(Wrap - 1)
         /\ Minus(Plus(x, d), y) = Minus(x, y) + d
<1>1. Wrap \in Nat
  BY FanAssumption
<1>2. CASE x >= y
  BY <1>1, <1>2 DEF Plus, Minus
<1>3. CASE x < y
  BY <1>1, <1>3 DEF Plus, Minus
<1>4. QED
  BY <1>1, <1>2, <1>3

\* The on phase is inductive together with the age at which the fan started.
OnSince == fan1On => /\ onFor + StartAfter < age
                     /\ age <= onFor + StartAfter + MaxIter
TimerInv == TypeOK /\ ElapsedIsTrue /\ OnSince

LEMMA TimerInit == Init => TimerInv
<1> SUFFICES ASSUME Init PROVE TimerInv
  OBVIOUS
<1>1. TypeOK
  BY DEF Init, TypeOK
<1>2. ElapsedIsTrue
  BY FanAssumption DEF Init, ElapsedIsTrue, Minus
<1>3. OnSince
  BY DEF Init, OnSince
<1>4. QED
  BY <1>1, <1>2, <1>3 DEF TimerInv

\* One iteration sees the true elapsed time.
LEMMA TrueElapsed ==
  ASSUME TimerInv, NEW d \in MinIter..MaxIter
  PROVE  /\ Plus(now, d) \in 0..(Wrap - 1)
         /\ Minus(Plus(now, d), ftime) = age + d
         /\ Minus(Plus(now, d), Plus(now, d)) = 0
         /\ d \in Nat /\ age \in Nat
<1>1. d \in Nat /\ d <= MaxIter /\ age \in Nat /\ age <= StopAfter
  BY FanAssumption DEF TimerInv, TypeOK, ElapsedIsTrue
<1>2. Minus(now, ftime) + d < Wrap
  BY <1>1, FanAssumption DEF TimerInv, ElapsedIsTrue
<1>3. Plus(now, d) \in 0..(Wrap - 1) /\ Minus(Plus(now, d), ftime) = age + d
  BY <1>1, <1>2, DifferenceGrows DEF TimerInv, TypeOK, ElapsedIsTrue
<1>4. QED
  BY <1>1, <1>3, FanAssumption DEF Minus

LEMMA TimerStep == TimerInv /\ [Next]_vars => TimerInv'
<1> SUFFICES ASSUME TimerInv, [Next]_vars PROVE TimerInv'
  OBVIOUS
<1>1. CASE UNCHANGED vars
  BY <1>1 DEF vars, TimerInv, TypeOK, ElapsedIsTrue, OnSince, Minus
<1>2. ASSUME NEW d \in MinIter..MaxIter, Iterate(d) PROVE TimerInv'
  <2>1. /\ Plus(now, d) \in 0..(Wrap - 1) /\ Minus(Plus(now, d), ftime) = age + d
        /\ Minus(Plus(now, d), Plus(now, d)) = 0 /\ d \in Nat /\ d <= MaxIter /\ age \in Nat
    BY <1>2, TrueElapsed, FanAssumption
  <2>2. TypeOK'
    <3>1. now' \in 0..(Wrap - 1) /\ ftime' \in 0..(Wrap - 1) /\ fan1On' \in BOOLEAN
      BY <1>2, <2>1 DEF Iterate, TimerInv, TypeOK
    <3>2. age' \in Nat /\ onFor' \in Nat /\ sinceStart' \in Nat
      BY <1>2, <2>1 DEF Iterate, TimerInv, TypeOK
    <3>3. QED
      BY <3>1, <3>2 DEF TypeOK
  <2>3. ElapsedIsTrue' /\ OnSince'
    <3>1. CASE fan1On
      <4>1. age <= StopAfter /\ onFor + StartAfter < age /\ age <= onFor + StartAfter + MaxIter
        BY <3>1 DEF TimerInv, ElapsedIsTrue, OnSince
      <4>2. CASE age + d > StopAfter
        <5>1. ~fan1On' /\ age' = 0 /\ Minus(now', ftime') = 0
          BY <1>2, <2>1, <3>1, <4>2 DEF Iterate, DueFrom, EndsFrom
        <5>2. QED
          BY <5>1, FanAssumption DEF ElapsedIsTrue, OnSince
      <4>3. CASE ~(age + d > StopAfter)
        <5>1. fan1On' /\ age' = age + d /\ onFor' = onFor + d /\ Minus(now', ftime') = age + d
          BY <1>2, <2>1, <3>1, <4>3 DEF Iterate, DueFrom, EndsFrom
        <5>2. QED
          BY <2>1, <4>1, <4>3, <5>1, FanAssumption DEF TimerInv, TypeOK, ElapsedIsTrue, OnSince
      <4>4. QED
        BY <4>2, <4>3
    <3>2. CASE ~fan1On
      <4>1. age <= StartAfter
        BY <3>2 DEF TimerInv, ElapsedIsTrue
      <4>2. CASE age + d > StopAfter
        <5>1. age + d > StartAfter
          BY <2>1, <4>2, FanAssumption
        <5>2. ~fan1On' /\ age' = 0 /\ Minus(now', ftime') = 0
          BY <1>2, <2>1, <4>2, <5>1 DEF Iterate, DueFrom, EndsFrom
        <5>3. QED
          BY <5>2, FanAssumption DEF ElapsedIsTrue, OnSince
      <4>3. CASE age + d > StartAfter /\ ~(age + d > StopAfter)
        <5>1. fan1On' /\ age' = age + d /\ onFor' = 0 /\ Minus(now', ftime') = age + d
          BY <1>2, <2>1, <3>2, <4>3 DEF Iterate, DueFrom, EndsFrom
        <5>2. QED
          BY <2>1, <4>1, <4>3, <5>1, FanAssumption DEF ElapsedIsTrue, OnSince
      <4>4. CASE ~(age + d > StartAfter)
        <5>1. ~fan1On' /\ age' = age + d /\ Minus(now', ftime') = age + d
          BY <1>2, <2>1, <3>2, <4>4, FanAssumption DEF Iterate, DueFrom, EndsFrom
        <5>2. QED
          BY <2>1, <4>4, <5>1, FanAssumption DEF ElapsedIsTrue, OnSince
      <4>5. QED
        BY <4>2, <4>3, <4>4
    <3>3. QED
      BY <3>1, <3>2
  <2>4. QED
    BY <2>2, <2>3 DEF TimerInv
<1>3. QED
  BY <1>1, <1>2 DEF Next

LEMMA TimerInvariant == Spec => []TimerInv
  BY TimerInit, TimerStep, PTL DEF Spec

\* The elapsed time that loop() computes from two wrapping words is the true one,
\* for every word size that exceeds the cycle and one iteration.
THEOREM ElapsedTrue == Spec => []ElapsedIsTrue
<1>1. TimerInv => ElapsedIsTrue
  BY DEF TimerInv
<1>2. QED
  BY <1>1, TimerInvariant, PTL

\* The wrapping timer implements the cycle told with a clock that never wraps.
THEOREM CycleImplemented == Spec => ImplementsCycle
<1>1. Init => Cycle!Init
  BY DEF Init, Cycle!Init
<1>2. TimerInv /\ [Next]_vars => [Cycle!Next]_(Cycle!vars)
  <2> SUFFICES ASSUME TimerInv, [Next]_vars PROVE [Cycle!Next]_(Cycle!vars)
    OBVIOUS
  <2>1. CASE UNCHANGED vars
    BY <2>1 DEF vars, Cycle!vars
  <2>2. ASSUME NEW d \in MinIter..MaxIter, Iterate(d) PROVE Cycle!Next
    <3>1. Minus(Plus(now, d), ftime) = age + d
      BY <2>2, TrueElapsed
    <3>2. Cycle!Iterate(d)
      BY <2>2, <3>1 DEF Iterate, DueFrom, EndsFrom, Cycle!Iterate
    <3>3. QED
      BY <3>2 DEF Cycle!Next
  <2>3. QED
    BY <2>1, <2>2 DEF Next
<1>3. QED
  BY <1>1, <1>2, TimerInvariant, PTL DEF Spec, ImplementsCycle, Cycle!Spec

\* In every cycle the fan of loop() runs for the difference of the limits, give or take
\* one iteration, and only an iteration that is longer skips the phase, for all limits,
\* iteration lengths and word sizes.
THEOREM OnPhaseLength == Spec => OnPhase
<1> DEFINE Phase == /\ onFor' + MaxIter > StopAfter - StartAfter
                    /\ onFor' <= (StopAfter - StartAfter) + MaxIter
                    /\ fan1On \/ Minus(now', now) > StopAfter - StartAfter
<1>1. TimerInv /\ [Next]_vars => [age' = 0 => Phase]_vars
  <2> SUFFICES ASSUME TimerInv, NEW d \in MinIter..MaxIter, Iterate(d), age' = 0 PROVE Phase
    BY DEF Next
  <2>1. Minus(Plus(now, d), ftime) = age + d /\ d \in Nat /\ d <= MaxIter /\ age \in Nat
    BY TrueElapsed, FanAssumption
  <2>2. age + d > StopAfter
    <3>1. d > 0
      BY FanAssumption
    <3>2. QED BY <2>1, <3>1 DEF Iterate, EndsFrom
  <2>3. CASE fan1On
    <3>1. onFor' = onFor + d
      BY <2>3 DEF Iterate
    <3>2. onFor + StartAfter < age /\ age <= onFor + StartAfter + MaxIter /\ age <= StopAfter
      BY <2>3 DEF TimerInv, OnSince, ElapsedIsTrue
    <3>3. /\ onFor' + MaxIter > StopAfter - StartAfter
          /\ onFor' <= (StopAfter - StartAfter) + MaxIter
      BY <2>1, <2>2, <3>1, <3>2, FanAssumption DEF TimerInv, TypeOK
    <3>4. QED
      BY <2>3, <3>3
  <2>4. CASE ~fan1On
    <3>1. age <= StartAfter
      BY <2>4 DEF TimerInv, ElapsedIsTrue
    <3>2. DueFrom(Minus(Plus(now, d), ftime))
      BY <2>1, <2>2, FanAssumption DEF DueFrom
    <3>3. onFor' = 0
      BY <2>4, <3>2 DEF Iterate
    <3>4. Minus(now', now) = d
      <4>1. now \in 0..(Wrap - 1) /\ Minus(now, now) = 0 /\ d < Wrap
        BY <2>1, FanAssumption DEF TimerInv, TypeOK, Minus
      <4>2. Minus(Plus(now, d), now) = d
        BY <2>1, <4>1, DifferenceGrows
      <4>3. QED
        BY <4>2 DEF Iterate
    <3>5. QED
      BY <2>1, <2>2, <3>1, <3>3, <3>4, FanAssumption
  <2>5. QED
    BY <2>3, <2>4
<1>2. QED
  BY <1>1, TimerInvariant, PTL DEF Spec, OnPhase

\* While the fan is off, its last start lies an on phase and the age of the cycle
\* back.
LastStart ==
  IF fan1On THEN sinceStart + StartAfter < age
            ELSE sinceStart + StartAfter < age + StopAfter + MaxIter

LEMMA LastStartStep == TimerInv /\ LastStart /\ [Next]_vars => LastStart'
<1> SUFFICES ASSUME TimerInv, LastStart, [Next]_vars PROVE LastStart'
  OBVIOUS
<1>1. CASE UNCHANGED vars
  BY <1>1 DEF vars, LastStart
<1>2. ASSUME NEW d \in MinIter..MaxIter, Iterate(d) PROVE LastStart'
  <2>1. /\ Minus(Plus(now, d), ftime) = age + d /\ d \in Nat /\ d <= MaxIter
        /\ age \in Nat /\ sinceStart \in Nat
    BY TrueElapsed, FanAssumption DEF TimerInv, TypeOK
  <2>2. CASE fan1On
    <3>1. age <= StopAfter /\ sinceStart' = sinceStart + d
      BY <1>2, <2>2 DEF Iterate, TimerInv, ElapsedIsTrue
    <3>2. \/ ~fan1On' /\ age' = 0
          \/ fan1On' /\ age' = age + d
      BY <1>2, <2>1, <2>2 DEF Iterate
    <3> QED BY <2>1, <2>2, <3>1, <3>2, FanAssumption DEF LastStart
  <2>3. CASE ~fan1On /\ age + d > StartAfter
    <3>1. sinceStart' = 0
      BY <1>2, <2>1, <2>3 DEF Iterate, DueFrom
    <3>2. \/ ~fan1On' /\ age' = 0
          \/ fan1On' /\ age' = age + d
      BY <1>2, <2>1, <2>3 DEF Iterate, DueFrom
    <3> QED BY <2>1, <2>3, <3>1, <3>2, FanAssumption DEF LastStart
  <2>4. CASE ~fan1On /\ ~(age + d > StartAfter)
    <3>1. ~fan1On' /\ age' = age + d /\ sinceStart' = sinceStart + d
      BY <1>2, <2>1, <2>4 DEF Iterate, DueFrom
    <3> QED BY <2>1, <2>4, <3>1, FanAssumption DEF LastStart
  <2> QED BY <2>2, <2>3, <2>4
<1> QED BY <1>1, <1>2 DEF Next

\* The fan starts again in time, for all limits and iteration lengths, and across
\* every wrap of millis().
THEOREM StartInTime == Spec => []StartDue
<1>1. Init => LastStart
  BY FanAssumption DEF Init, LastStart
<1>2. TimerInv /\ LastStart => StartDue
  <2> SUFFICES ASSUME TimerInv, LastStart PROVE StartDue
    OBVIOUS
  <2>1. age \in Nat /\ sinceStart \in Nat /\ age <= IF fan1On THEN StopAfter ELSE StartAfter
    BY DEF TimerInv, TypeOK, ElapsedIsTrue
  <2> QED BY <2>1, FanAssumption DEF LastStart, StartDue
<1> QED BY <1>1, <1>2, LastStartStep, TimerInvariant, PTL DEF Spec

\* Every variable of the timer keeps its type; the words never leave their range.
THEOREM TimerTypes == Spec => []TypeOK
<1>1. TimerInv => TypeOK
  BY DEF TimerInv
<1> QED BY <1>1, TimerInvariant, PTL
=============================================================================
