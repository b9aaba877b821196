--------------------------- MODULE GpsClockProofs ---------------------------
(***************************************************************************)
(* The loop that sets the clock, for every set of sentences, every number  *)
(* of fixes and every pause that is no shorter than a fix is fresh.        *)
(*                                                                         *)
(* OneCountPerSentence is not inductive: a fix that has been counted must  *)
(* be too old by the time the pause is over (Spaced).  TimeKept rests on   *)
(* the time being at most as old as the fix (TimeYounger), so that what is *)
(* added to it is less than a minute and the carries run at most once.     *)
(***************************************************************************)
EXTENDS GpsClock, TLAPS

Spaced      == counted => fixAge + pause > Fresh
TimeYounger == timeAge <= fixAge
ClockInv == TypeOK /\ Spaced /\ TimeYounger /\ OneCountPerSentence

ClockFields == [h : 0..23, m : 0..60, s : 0..60, day : 0..31]
TenthNumber(d, h, m, s) == ((d * 24 + h) * 60 + m) * 600 + s
ClockNumber(r) == ((r.day * 24 + r.h) * 60 + r.m) * 60 + r.s
TimeNumbers(d, h, m, s) == d \in 1..31 /\ h \in 0..23 /\ m \in 0..59 /\ s \in 0..1198
Denotes(r, tenths) == r \in ClockFields /\ ClockNumber(r) = tenths \div 10

LEMMA Tenths == ASSUME NEW X \in Nat, NEW s \in Nat
                PROVE  (X * 600 + s) \div 10 = X * 60 + s \div 10
OBVIOUS

LEMMA Carries == ASSUME NEW s \in 0..1198
                 PROVE  /\ s <= 600 => Carry(s, 600) = 0 /\ Left(s, 600) = s
                        /\ s > 600 => Carry(s, 600) = 1 /\ Left(s, 600) = s - 600
<1>1. s > 600 => (s - 1) \div 600 = 1
  OBVIOUS
<1> QED BY <1>1 DEF Carry, Left

LEMMA NoMoreCarries == /\ \A m \in 0..60 : Carry(m, 60) = 0 /\ Left(m, 60) = m
                       /\ \A h \in 0..24 : Carry(h, 24) = 0 /\ Left(h, 24) = h
BY DEF Carry, Left

\* What gps_process writes of a time that is less than a minute old, in numbers.
Written(d, h, m, s) == [h |-> Left(h + Carry(m + Carry(s, 600), 60), 24),
                        m |-> Left(m + Carry(s, 600), 60), s |-> Left(s, 600) \div 10, day |-> d]

LEMMA WrittenTime ==
  ASSUME NEW d, NEW h, NEW m, NEW s, TimeNumbers(d, h, m, s)
  PROVE  Denotes(Written(d, h, m, s), TenthNumber(d, h, m, s))
<1> d \in 1..31 /\ h \in 0..23 /\ m \in 0..59 /\ s \in 0..1198
  BY DEF TimeNumbers
<1>1. (d * 24 + h) * 60 + m \in Nat
  OBVIOUS
<1>2. CASE s <= 600
  <2>1. Written(d, h, m, s) = [h |-> h, m |-> m, s |-> s \div 10, day |-> d]
    BY <1>2, Carries, NoMoreCarries DEF Written
  <2>2. s \div 10 \in 0..60
    BY <1>2
  <2>3. (((d * 24 + h) * 60 + m) * 600 + s) \div 10 = ((d * 24 + h) * 60 + m) * 60 + s \div 10
    BY <1>1, Tenths
  <2> QED BY <2>1, <2>2, <2>3 DEF Denotes, ClockNumber, TenthNumber, ClockFields
<1>3. CASE s > 600
  <2>1. Written(d, h, m, s) = [h |-> h, m |-> m + 1, s |-> (s - 600) \div 10, day |-> d]
    BY <1>3, Carries, NoMoreCarries DEF Written
  <2>2. (s - 600) \div 10 \in 0..60 /\ s - 600 \in Nat
    BY <1>3
  <2>3. (d * 24 + h) * 60 + (m + 1) \in Nat
    OBVIOUS
  <2>4. (((d * 24 + h) * 60 + (m + 1)) * 600 + (s - 600)) \div 10
          = ((d * 24 + h) * 60 + (m + 1)) * 60 + (s - 600) \div 10
    BY <2>2, <2>3, Tenths
  <2>5. ((d * 24 + h) * 60 + (m + 1)) * 600 + (s - 600) = ((d * 24 + h) * 60 + m) * 600 + s
    OBVIOUS
  <2> QED BY <2>1, <2>2, <2>4, <2>5 DEF Denotes, ClockNumber, TenthNumber, ClockFields
<1> QED BY <1>2, <1>3

\* What Count writes to the clock.
Set(t, a) == [Adjusted(t, a) EXCEPT !.day = t.day]

LEMMA AdjustedTime ==
  ASSUME NEW t \in [h : 0..23, m : 0..59, s : 0..599, day : 1..31], NEW a \in 0..599
  PROVE  Denotes(Set(t, a), TenthNumber(t.day, t.h, t.m, t.s + a))
<1>1. PICK d \in 1..31, h \in 0..23, m \in 0..59, s \in 0..599 :
        d = t.day /\ h = t.h /\ m = t.m /\ s = t.s
  BY ZenonT(60)
<1>2. PICK x \in 0..1198 : x = s + a
  OBVIOUS
<1>3. Set(t, a) = Written(d, h, m, x)
  BY <1>1, <1>2 DEF Set, Adjusted, Written
<1>4. Denotes(Written(d, h, m, x), TenthNumber(d, h, m, x))
  <2>1. TimeNumbers(d, h, m, x)
    BY DEF TimeNumbers
  <2> QED BY <2>1, WrittenTime
<1> QED BY <1>1, <1>2, <1>3, <1>4

LEMMA ClockInit == Init => ClockInv
<1> SUFFICES ASSUME Init PROVE ClockInv
  OBVIOUS
<1>1. MaxAge \in Nat /\ FixesWanted \in Nat /\ Pause \in Nat
  BY ClockAssumption
<1>2. TypeOK
  <2>1. last \in Sentences /\ timeAge \in 0..MaxAge /\ fixAge \in 0..MaxAge
    BY <1>1 DEF Init
  <2>2. k \in 0..FixesWanted /\ pause \in 0..(Pause + 1)
    BY <1>1 DEF Init
  <2>3. rtc \in ClockFields
    BY DEF Init, ClockFields
  <2>4. counted \in BOOLEAN /\ twice \in BOOLEAN
    BY DEF Init
  <2> QED BY <2>1, <2>2, <2>3, <2>4 DEF TypeOK, ClockFields
<1> QED BY <1>1, <1>2 DEF Init, ClockInv, Spaced, TimeYounger, OneCountPerSentence

LEMMA OlderAge == ASSUME NEW age \in 0..MaxAge
                  PROVE  /\ Older(age) \in 0..MaxAge
                         /\ (Older(age) = age + 1 \/ (Older(age) = age /\ age = MaxAge))
BY ClockAssumption DEF Older

LEMMA ClockStep == ClockInv /\ [Next]_vars => ClockInv'
<1> SUFFICES ASSUME ClockInv, [Next]_vars PROVE ClockInv'
  OBVIOUS
<1> USE ClockAssumption
<1>1. ASSUME NEW withFix \in BOOLEAN, NEW tenths \in 0..MaxAge, Receive(withFix, tenths)
      PROVE  ClockInv'
  <2>1. timeAge' \in 0..MaxAge /\ fixAge' \in 0..MaxAge /\ timeAge' <= fixAge'
    BY <1>1 DEF ClockInv, TypeOK, TimeYounger, Receive
  <2>2. UNCHANGED <<k, pause, twice, rtc>> /\ last' \in Sentences
    BY <1>1 DEF Receive
  <2>3. counted' \in BOOLEAN /\ Spaced'
    BY <1>1, ZenonT(60) DEF ClockInv, TypeOK, Spaced, Receive
  <2> QED BY <2>1, <2>2, <2>3 DEF ClockInv, TypeOK, TimeYounger, OneCountPerSentence
<1>2. CASE FixCounted
  <2>1. timeAge \in 0..599 /\ last \in [h : 0..23, m : 0..59, s : 0..599, day : 1..31]
    BY <1>2, SMTT(30) DEF FixCounted, Count, ClockInv, TypeOK, TimeYounger
  <2>2. rtc' \in ClockFields
    <3>1. rtc' = Set(last, timeAge)
      BY <1>2, Zenon DEF FixCounted, Count, Set
    <3>2. Set(last, timeAge) \in ClockFields
      BY <2>1, AdjustedTime, ZenonT(30) DEF Denotes
    <3> QED BY <3>1, <3>2
  <2>3. ~counted
    BY <1>2 DEF FixCounted, Count, ClockInv, TypeOK, Spaced
  <2>4. k' \in 0..FixesWanted /\ pause' \in 0..(Pause + 1) /\ fixAge' + pause' > Fresh
    BY <1>2 DEF FixCounted, Count, ClockInv, TypeOK
  <2> QED
    BY <1>2, <2>2, <2>3, <2>4
       DEF FixCounted, Count, ClockFields, ClockInv, TypeOK, Spaced, TimeYounger, OneCountPerSentence
<1>3. CASE Tick
  <2>1. timeAge \in 0..MaxAge /\ fixAge \in 0..MaxAge
    BY DEF ClockInv, TypeOK
  <2>2. /\ timeAge' \in 0..MaxAge /\ fixAge' \in 0..MaxAge
        /\ (timeAge' = timeAge + 1 \/ (timeAge' = timeAge /\ timeAge = MaxAge))
        /\ (fixAge' = fixAge + 1 \/ (fixAge' = fixAge /\ fixAge = MaxAge))
    BY <1>3, <2>1, OlderAge DEF Tick
  <2>3. pause' \in 0..(Pause + 1) /\ pause' >= pause - 1
    BY <1>3 DEF Tick, ClockInv, TypeOK
  <2> QED
    BY <1>3, <2>1, <2>2, <2>3
       DEF Tick, ClockInv, TypeOK, Spaced, TimeYounger, OneCountPerSentence
<1>4. CASE UNCHANGED vars
  BY <1>4 DEF vars, ClockInv, TypeOK, Spaced, TimeYounger, OneCountPerSentence
<1> QED BY <1>1, <1>2, <1>3, <1>4 DEF Next

LEMMA ClockInvariant == Spec => []ClockInv
BY ClockInit, ClockStep, PTL DEF Spec

\* The fields written to the clock are in range but for a minute or a second of
\* 60, for every sentence the receiver may send.
THEOREM ClockTypes == Spec => []TypeOK
<1>1. ClockInv => TypeOK
  BY DEF ClockInv
<1> QED BY <1>1, ClockInvariant, PTL

\* The pause of gps_process keeps a fix from counting twice, whatever sentences
\* arrive and however late they are read.
THEOREM CountedOnce == Spec => []OneCountPerSentence
<1>1. ClockInv => OneCountPerSentence
  BY DEF ClockInv
<1> QED BY <1>1, ClockInvariant, PTL

\* The fields written to the clock denote the time of the last sentence plus its
\* age.
THEOREM SecondKept == Spec => TimeKept
<1> DEFINE Kept == rtc' # rtc => ((rtc'.day * 24 + rtc'.h) * 60 + rtc'.m) * 60 + rtc'.s
       = (((last.day * 24 + last.h) * 60 + last.m) * 600 + (last.s + timeAge)) \div 10
<1>1. ClockInv /\ [Next]_vars => [Kept]_vars
  <2> SUFFICES ASSUME ClockInv, Next PROVE Kept
    BY DEF vars
  <2> USE ClockAssumption
  <2>1. CASE FixCounted
    <3>1. timeAge \in 0..599 /\ last \in [h : 0..23, m : 0..59, s : 0..599, day : 1..31]
      BY <2>1, SMTT(30) DEF FixCounted, Count, ClockInv, TypeOK, TimeYounger
    <3>2. rtc' = Set(last, timeAge)
      BY <2>1, Zenon DEF FixCounted, Count, Set
    <3>3. ClockNumber(Set(last, timeAge))
            = TenthNumber(last.day, last.h, last.m, last.s + timeAge) \div 10
      BY <3>1, AdjustedTime, ZenonT(30) DEF Denotes
    <3> QED BY <3>2, <3>3, Zenon DEF ClockNumber, TenthNumber
  <2>2. CASE Tick
    BY <2>2 DEF Tick
  <2>3. ASSUME NEW withFix \in BOOLEAN, NEW tenths \in 0..MaxAge, Receive(withFix, tenths)
        PROVE  Kept
    BY <2>3 DEF Receive
  <2> QED BY <2>1, <2>2, <2>3 DEF Next
<1> QED BY <1>1, ClockInvariant, PTL DEF Spec, TimeKept
=============================================================================
