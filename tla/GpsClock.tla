------------------------------ MODULE GpsClock ------------------------------
(***************************************************************************)
(* The loop of gps_setup that sets the real-time clock from the satellites:*)
(* gps_process counts a fix when the last sentence with a fix is at most   *)
(* 0.5 s old, moves the time of the last sentence forward by its age,      *)
(* writes it to the clock, and waits 0.5 s so as not to count the fix      *)
(* again.  The library keeps the ages of the last time and of the last fix *)
(* apart: a sentence without a fix still brings a time.                    *)
(*                                                                         *)
(* Time is counted in tenths of a second.  A sentence is its time of day   *)
(* and its day of the month; GpsReader has the way of its characters.  The *)
(* processor has been running for less than the 23 days after which the    *)
(* library's initial lastFix (2000000000) would look like a fix.           *)
(***************************************************************************)
EXTENDS Naturals

CONSTANTS
  Fresh,        \* secondsSinceFix() <= 0.5
  Pause,        \* delay(500)
  FixesWanted,  \* the 10 fixes of gps_setup
  Sentences,    \* [h, m, s, day] that the receiver may send, s in tenths
  MaxAge        \* bound: an older sentence is kept at this age

ASSUME ClockAssumption ==
  /\ Fresh \in Nat /\ Pause \in Nat /\ FixesWanted \in Nat \ {0}
  /\ Fresh <= Pause /\ Fresh < 600   \* both 0.5 s; the carries run at most once
  /\ MaxAge \in Nat /\ Fresh < MaxAge
  /\ Sentences \subseteq [h : 0..23, m : 0..59, s : 0..599, day : 1..31]

VARIABLES
  last,     \* the time of the last valid sentence
  timeAge,  \* tenths since lastTime; MaxAge when there was none
  fixAge,   \* tenths since lastFix
  k,        \* fixes counted
  pause,    \* tenths left of the delay at the end of gps_process
  counted,  \* history: the last fix has been counted
  twice,    \* history: some fix has been counted twice
  rtc       \* what was written to the clock, s in seconds; day 0 when nothing

vars == <<last, timeAge, fixAge, k, pause, counted, twice, rtc>>

Init == /\ last \in Sentences
        /\ timeAge = MaxAge /\ fixAge = MaxAge
        /\ k = 0 /\ pause = 0
        /\ counted = FALSE /\ twice = FALSE
        /\ rtc = [h |-> 0, m |-> 0, s |-> 0, day |-> 0]

\* while (x > base) { x -= base; y++ }: what is left of x, and what y gains.
Carry(x, base) == IF x > base THEN (x - 1) \div base ELSE 0
Left(x, base)  == x - Carry(x, base) * base

\* The time of the sentence, the given tenths later, as gps_process works it out.
\* (Mutants: the minute is not incremented; >= for > in the loop of the minutes alone.)
AdjustedNoMinute(sentence, tenths) ==
  LET s == sentence.s + tenths
  IN [h |-> sentence.h, m |-> sentence.m, s |-> Left(s, 600) \div 10, day |-> sentence.day]
AdjustedMinuteOnly(sentence, tenths) ==
  LET s == sentence.s + tenths
      m == sentence.m + Carry(s, 600)
      h == sentence.h + m \div 60
  IN [h |-> Left(h, 24), m |-> m % 60, s |-> Left(s, 600) \div 10,
      day |-> sentence.day + Carry(h, 24)]
Adjusted(sentence, tenths) ==
  LET s == sentence.s + tenths
      m == sentence.m + Carry(s, 600)
      h == sentence.h + Carry(m, 60)
  IN [h |-> Left(h, 24), m |-> Left(m, 60), s |-> Left(s, 600) \div 10,
      day |-> sentence.day + Carry(h, 24)]

\* gps_process reads the end of a sentence that passes the check and takes its time,
\* and its fix if it has one, to be as old as its first character.  Nothing is
\* assumed about the time between sentences, nor about the age of one at its end:
\* a delay of the program may have come between.  It began after the one before.
Receive(withFix, tenths) ==
  /\ k < FixesWanted /\ pause = 0
  /\ tenths <= timeAge
  /\ last' \in Sentences /\ timeAge' = tenths
  /\ IF withFix THEN fixAge' = tenths /\ counted' = FALSE
                ELSE UNCHANGED <<fixAge, counted>>
  /\ UNCHANGED <<k, pause, twice, rtc>>

\* gps_process finds the fix fresh.  d is printed; GPS.day is written.
\* (Mutant: false is returned, so the fix does not count.)
CountReturnsFalse(wait) ==
  /\ k < FixesWanted /\ pause = 0
  /\ fixAge <= Fresh
  /\ rtc' = [Adjusted(last, timeAge) EXCEPT !.day = last.day]
  /\ twice' = (twice \/ counted)
  /\ counted' = TRUE
  /\ pause' = wait
  /\ UNCHANGED <<last, timeAge, fixAge, k>>
Count(wait) ==
  /\ k < FixesWanted /\ pause = 0
  /\ fixAge <= Fresh
  /\ k' = k + 1
  /\ rtc' = [Adjusted(last, timeAge) EXCEPT !.day = last.day]
  /\ twice' = (twice \/ counted)
  /\ counted' = TRUE
  /\ pause' = wait
  /\ UNCHANGED <<last, timeAge, fixAge>>

\* (Mutant: no force wait.)
FixCountedNoWait == Count(0)
\* The delay is followed by a transfer and the delay(10) of gps_setup: one more.
FixCounted == Count(Pause + 1)

\* A tenth passes, in the delay or between two polls.
Older(age) == IF age < MaxAge THEN age + 1 ELSE age
Tick ==
  /\ timeAge' = Older(timeAge) /\ fixAge' = Older(fixAge)
  /\ pause' = IF pause > 0 THEN pause - 1 ELSE 0
  /\ UNCHANGED <<last, k, counted, twice, rtc>>

Next == FixCounted \/ Tick \/ \E withFix \in BOOLEAN, tenths \in 0..MaxAge : Receive(withFix, tenths)
Spec == Init /\ [][Next]_vars

\* Time passes, and a receiver with a view of the sky goes on sending fixes that
\* are not all interrupted by a delay.  The call that reads the end of a sentence
\* also tests its age: a fresh fix is not missed every time (SF).
FairSpec == Spec /\ WF_vars(Tick) /\ SF_vars(Receive(TRUE, 0)) /\ SF_vars(FixCounted)

-----------------------------------------------------------------------------
\* Types; a minute or a second of 60 can be written, an hour of 24 cannot.
TypeOK ==
  /\ last \in Sentences /\ timeAge \in 0..MaxAge /\ fixAge \in 0..MaxAge
  /\ k \in 0..FixesWanted /\ pause \in 0..(Pause + 1)
  /\ counted \in BOOLEAN /\ twice \in BOOLEAN
  /\ rtc \in [h : 0..23, m : 0..60, s : 0..60, day : 0..31]

\* gps.ino:110, "force wait so we don't run a second time": the ten fixes are
\* those of ten different sentences, whatever comes between them.
OneCountPerSentence == ~twice

\* The fields that are written denote the time of the last sentence plus its age,
\* to the second and across midnight, whichever of the carries ran: nothing is lost
\* by writing GPS.day where d was worked out, because the hour never carries.
TimeKept ==
  [][rtc' # rtc => ((rtc'.day * 24 + rtc'.h) * 60 + rtc'.m) * 60 + rtc'.s
       = (((last.day * 24 + last.h) * 60 + last.m) * 600 + (last.s + timeAge)) \div 10]_vars

\* The clock is set in the end.
ClockGetsSet == <>(k = FixesWanted)

\* RTClib.cpp:199 documents DateTime's hour (0--23), min (0--59) and second (0--59).
FieldsInRange == rtc.h <= 23 /\ rtc.m <= 59 /\ rtc.s <= 59
=============================================================================
