------------------------- MODULE SensorRecordProofs -------------------------
(***************************************************************************)
(* What a record says of the gas sensor, for any number of accesses that   *)
(* fail, in all lives of the processor.                                    *)
(*                                                                         *)
(* A place in the program is a place k in setup() and the record behind    *)
(* it, and one in the function called there.  Every operation leaves       *)
(* something behind that stays true until another one ends it: the flag    *)
(* and the row always, the registers of the converter when no access and   *)
(* no calibration has failed since the last start.  Nothing is said of the *)
(* registers before the reset: they are what an earlier life has left.     *)
(***************************************************************************)
EXTENDS SensorRecord, SequenceTheorems, TLAPS

-----------------------------------------------------------------------------
(* The places of the program *)

SwitchOn == PowerUp \o <<Op("adc_delay"), Op("powered_on")>>
TmpFlags == <<Op("tmp_wait")>>
Body(call) == IF call = "begin" THEN AdcBegin ELSE IF call = "flags" THEN TmpFlags ELSE SwitchOn

\* Setup takes the first 25 places, a record the nine that follow.
Main(k) == IF k <= 25 THEN SubSeq(Setup, k, 25) ELSE SubSeq(Record, k - 25, 9)
Remaining(call, j, k) ==
  IF call = "none" THEN Main(k) ELSE SubSeq(Body(call), j, Len(Body(call))) \o Main(k)
OpAt(call, j, k) ==
  IF call = "none" THEN IF k <= 25 THEN Setup[k] ELSE Record[k - 25] ELSE Body(call)[j]

Place(call, j, k) ==
  \/ call = "none" /\ j = 1 /\ k \in 1..34
  \/ call = "begin" /\ j \in 1..10 /\ k = 7
  \/ call = "on" /\ j \in 1..4 /\ k \in {18, 25}
  \/ call = "flags" /\ j = 1 /\ k = 2

\* The places at which the digital and the analogue section have power, and those at
\* which the delay after the last power-up is over.
Digital(call, j, k)  == \/ call = "begin" /\ j >= 4
                        \/ call = "on" /\ j >= 2
                        \/ call = "none" /\ (k \in 7..14 \/ k \in 18..21 \/ k >= 25)
Analogue(call, j, k) == \/ call = "begin" /\ j >= 5
                        \/ call = "on" /\ j >= 3
                        \/ call = "none" /\ (k \in 7..15 \/ k \in 18..22 \/ k >= 25)
Settled(call, j, k)  == \/ call = "on" /\ j = 4
                        \/ call = "none" /\ (k \in 18..20 \/ k >= 25)

Start == <<"time", "adc", "tmp">>
Environment == {<<"degrees", "pressure", "humidity", "gas">>, <<"", "", "", "", "">>}
Rows(k) == IF k <= 25 THEN {<<>>}
           ELSE IF k <= 28 THEN {<<"time">>}
           ELSE IF k = 29 THEN {<<"time", "adc">>}
           ELSE IF k = 30 THEN {Start}
           ELSE IF k = 31 THEN {Start \o columns : columns \in Environment}
           ELSE {Start \o columns \o Later : columns \in Environment}

-----------------------------------------------------------------------------
(* The inductive invariant *)

Types ==
  /\ reg \in [Fields -> 0..7] /\ calOf \in [ConfigFields -> 0..7]
  /\ conv \in Qualities /\ reading \in Qualities
  /\ ready \in BOOLEAN /\ adcHasPower \in BOOLEAN /\ disturbed \in BOOLEAN /\ calFailed \in BOOLEAN
  /\ faults \in 0..MaxFaults
  /\ tmpMode \in {"continuous", "one_shot", "shutdown"}
  /\ tmpReg \in {"setup", "first", "later"} /\ phase \in {"setup", "first", "later"}

Flag(call, j, k) == adcHasPower <=> call = "none" /\ (k \in 18..23 \/ k >= 25)

\* After the reset.
Cleared(call, j, k) ==
  /\ call = "begin" /\ j = 2 => reg = [Default EXCEPT !["RR"] = 1]
  /\ k >= 7 /\ ~(call = "begin" /\ j <= 2) => reg["RR"] = 0 /\ reg["OSCS"] = 0
Powered(call, j, k) ==
  /\ Digital(call, j, k) => reg["PUD"] = 1
  /\ Analogue(call, j, k) => reg["PUA"] = 1
Configured(k) ==
  /\ k >= 8 => reg["GAIN"] = 0
  /\ k >= 9 => reg["CRS"] = 0
  /\ k >= 10 => reg["VLDO"] = 7
  /\ k >= 11 => reg["AVDDS"] = 1
  /\ k >= 12 => reg["CHS"] = 0
Calibration(k) ==
  /\ k = 13 => \/ reg["CALS"] = 1
               \/ reg["CALS"] = 0 /\ calOf \in {Wanted, CalError}
  /\ k >= 14 => reg["CALS"] = 0 /\ calOf = Wanted
Fresh(call, j, k) == Settled(call, j, k) /\ ready => conv = "right"

Undisturbed(call, j, k) ==
  /\ Cleared(call, j, k) /\ Powered(call, j, k) /\ Configured(k) /\ Calibration(k)
  /\ Fresh(call, j, k)
  /\ reading \in {"none", "right"}

AtPlace(call, j, k) ==
  /\ Place(call, j, k) /\ todo = Remaining(call, j, k)
  /\ Flag(call, j, k)
  /\ row \in Rows(k)
  /\ ~disturbed /\ ~calFailed => Undisturbed(call, j, k)

Calls == {"none", "begin", "on", "flags"}
Inv == Types /\ \E call \in Calls, j \in 1..10, k \in 1..34 : AtPlace(call, j, k)

-----------------------------------------------------------------------------
(* The operations at the places *)

OpNames == {"adc_begin", "calibrated", "powered_off", "adc_powerUp", "adc_delay", "powered_on",
            "reading", "tmp_reset", "tmp_wait", "delay", "loop", "adc", "tmp", "env", "rest", "flush"}
Ops == {Put1(field, v) : field \in Fields, v \in 0..7} \cup {Op(name) : name \in OpNames}
       \cup {<<"tmp_mode", "continuous">>, <<"tmp_mode", "one_shot">>}

LEMMA AllFields == Fields = {"RR", "PUD", "PUA", "OSCS", "AVDDS", "GAIN", "VLDO", "CRS", "CALS", "CHS"}
BY DEF Fields, PuCtrl, Ctrl1, Ctrl2

LEMMA OpTypes ==
  /\ \A field \in Fields, v \in 0..7 : Put1(field, v) \in Ops
  /\ \A name \in OpNames : Op(name) \in Ops
  /\ <<"tmp_mode", "continuous">> \in Ops /\ <<"tmp_mode", "one_shot">> \in Ops
<1>1. \A field \in Fields, v \in 0..7 : Put1(field, v) \in Ops
  BY DEF Ops, Put1
<1>2. \A name \in OpNames : Op(name) \in Ops
  BY DEF Ops, Op
<1>3. <<"tmp_mode", "continuous">> \in Ops /\ <<"tmp_mode", "one_shot">> \in Ops
  BY DEF Ops
<1>4. QED BY <1>1, <1>2, <1>3

LEMMA PutTypes ==
  /\ Put1("RR", 0) \in Ops /\ Put1("RR", 1) \in Ops
  /\ Put1("PUD", 0) \in Ops /\ Put1("PUD", 1) \in Ops /\ Put1("PUA", 0) \in Ops /\ Put1("PUA", 1) \in Ops
  /\ Put1("VLDO", 4) \in Ops /\ Put1("VLDO", 7) \in Ops /\ Put1("AVDDS", 1) \in Ops
  /\ Put1("GAIN", 0) \in Ops /\ Put1("GAIN", 7) \in Ops /\ Put1("CRS", 0) \in Ops /\ Put1("CRS", 3) \in Ops
  /\ Put1("CHS", 0) \in Ops /\ Put1("CALS", 1) \in Ops
<1>1. {0, 1, 3, 4, 7} \subseteq 0..7
  OBVIOUS
<1>2. \A field \in Fields, v \in {0, 1, 3, 4, 7} : Put1(field, v) \in Ops
  BY <1>1, OpTypes
<1>3. QED BY <1>2, AllFields, Zenon

LEMMA NameTypes ==
  /\ Op("adc_begin") \in Ops /\ Op("calibrated") \in Ops /\ Op("powered_off") \in Ops
  /\ Op("adc_powerUp") \in Ops /\ Op("adc_delay") \in Ops /\ Op("powered_on") \in Ops
  /\ Op("reading") \in Ops /\ Op("tmp_reset") \in Ops /\ Op("tmp_wait") \in Ops /\ Op("delay") \in Ops /\ Op("loop") \in Ops
  /\ Op("adc") \in Ops /\ Op("tmp") \in Ops /\ Op("env") \in Ops /\ Op("rest") \in Ops /\ Op("flush") \in Ops
BY OpTypes, Zenon DEF OpNames

\* Sequences behind each other, kept as a relation so that the provers see only what
\* the lemmas say of it.
Concat(c, s, t) == c = s \o t

LEMMA ConcatSeq ==
  ASSUME NEW S, NEW s \in Seq(S), NEW t \in Seq(S), NEW c, Concat(c, s, t)
  PROVE  c \in Seq(S) /\ Len(c) = Len(s) + Len(t)
BY DEF Concat
LEMMA ConcatLeft ==
  ASSUME NEW S, NEW s \in Seq(S), NEW t \in Seq(S), NEW c, Concat(c, s, t), NEW i \in 1..Len(s)
  PROVE  c[i] = s[i]
BY DEF Concat
LEMMA ConcatRight ==
  ASSUME NEW S, NEW s \in Seq(S), NEW t \in Seq(S), NEW c, Concat(c, s, t), NEW i \in 1..Len(t)
  PROVE  c[Len(s) + i] = t[i]
BY DEF Concat

Behind(S, c, s, t, m, n) ==
  /\ c \in Seq(S) /\ Len(c) = m + n
  /\ \A i \in 1..m : c[i] = s[i]
  /\ \A i \in 1..n : c[m + i] = t[i]
LEMMA Joined ==
  ASSUME NEW S, NEW s \in Seq(S), NEW t \in Seq(S), NEW m \in Nat, NEW n \in Nat,
         Len(s) = m, Len(t) = n, NEW c, Concat(c, s, t)
  PROVE  Behind(S, c, s, t, m, n)
<1>1. c \in Seq(S) /\ Len(c) = Len(s) + Len(t)
  BY ConcatSeq
<1>2. ASSUME NEW i \in 1..Len(s) PROVE c[i] = s[i]
  BY ConcatLeft, ZenonT(30)
<1>3. ASSUME NEW i \in 1..Len(t) PROVE c[Len(s) + i] = t[i]
  BY ConcatRight, ZenonT(30)
<1>4. QED BY <1>1, <1>2, <1>3 DEF Behind

LEMMA AdcBeginOps ==
  /\ AdcBegin \in Seq(Ops) /\ Len(AdcBegin) = 10
  /\ AdcBegin[1] = Put1("RR", 1) /\ AdcBegin[2] = Put1("RR", 0)
  /\ AdcBegin[3] = Put1("PUD", 1) /\ AdcBegin[4] = Put1("PUA", 1)
  /\ AdcBegin[5] = Put1("VLDO", 4) /\ AdcBegin[6] = Put1("AVDDS", 1)
  /\ AdcBegin[7] = Put1("GAIN", 7) /\ AdcBegin[8] = Put1("CRS", 3)
  /\ AdcBegin[9] = Put1("CALS", 1) /\ AdcBegin[10] = Op("calibrated")
<1>1. /\ Len(AdcBegin) = 10
      /\ AdcBegin[1] = Put1("RR", 1) /\ AdcBegin[2] = Put1("RR", 0)
      /\ AdcBegin[3] = Put1("PUD", 1) /\ AdcBegin[4] = Put1("PUA", 1)
      /\ AdcBegin[5] = Put1("VLDO", 4) /\ AdcBegin[6] = Put1("AVDDS", 1)
      /\ AdcBegin[7] = Put1("GAIN", 7) /\ AdcBegin[8] = Put1("CRS", 3)
      /\ AdcBegin[9] = Put1("CALS", 1) /\ AdcBegin[10] = Op("calibrated")
  BY DEF AdcBegin, Reset, PowerUp, SetLDO, CalibrateAFE
<1>2. /\ Reset \in Seq(Ops) /\ PowerUp \in Seq(Ops) /\ SetLDO(4) \in Seq(Ops)
      /\ <<Put1("GAIN", 7), Put1("CRS", 3)>> \in Seq(Ops) /\ CalibrateAFE \in Seq(Ops)
  BY PutTypes, NameTypes DEF Reset, PowerUp, SetLDO, CalibrateAFE
<1>3. Reset \o PowerUp \in Seq(Ops)
  BY <1>2
<1>4. Reset \o PowerUp \o SetLDO(4) \in Seq(Ops)
  BY <1>2, <1>3
<1>5. Reset \o PowerUp \o SetLDO(4) \o <<Put1("GAIN", 7), Put1("CRS", 3)>> \in Seq(Ops)
  BY <1>2, <1>4
<1>6. AdcBegin \in Seq(Ops)
  BY <1>2, <1>5 DEF AdcBegin
<1>7. QED BY <1>1, <1>6

LEMMA SwitchOnOps ==
  /\ SwitchOn \in Seq(Ops) /\ Len(SwitchOn) = 4
  /\ SwitchOn[1] = Put1("PUD", 1) /\ SwitchOn[2] = Put1("PUA", 1)
  /\ SwitchOn[3] = Op("adc_delay") /\ SwitchOn[4] = Op("powered_on")
<1>1. PowerUp \in Seq(Ops) /\ <<Op("adc_delay"), Op("powered_on")>> \in Seq(Ops)
  BY PutTypes, NameTypes DEF PowerUp
<1>2. SwitchOn \in Seq(Ops)
  BY <1>1 DEF SwitchOn
<1>3. /\ Len(SwitchOn) = 4
      /\ SwitchOn[1] = Put1("PUD", 1) /\ SwitchOn[2] = Put1("PUA", 1)
      /\ SwitchOn[3] = Op("adc_delay") /\ SwitchOn[4] = Op("powered_on")
  BY DEF SwitchOn, PowerUp
<1>4. QED BY <1>2, <1>3

LEMMA TmpFlagsOps ==
  TmpFlags \in Seq(Ops) /\ Len(TmpFlags) = 1 /\ TmpFlags[1] = Op("tmp_wait")
BY NameTypes DEF TmpFlags

LEMMA AdcSetupOps ==
  /\ AdcSetup \in Seq(Ops) /\ Len(AdcSetup) = 17
  /\ AdcSetup[1] = Put1("GAIN", 0) /\ AdcSetup[2] = Put1("CRS", 0)
  /\ AdcSetup[3] = Put1("VLDO", 7) /\ AdcSetup[4] = Put1("AVDDS", 1)
  /\ AdcSetup[5] = Put1("CHS", 0) /\ AdcSetup[6] = Put1("CALS", 1) /\ AdcSetup[7] = Op("calibrated")
  /\ AdcSetup[8] = Put1("PUD", 0) /\ AdcSetup[9] = Put1("PUA", 0) /\ AdcSetup[10] = Op("powered_off")
  /\ AdcSetup[11] = Op("adc_powerUp") /\ AdcSetup[12] = Op("reading")
  /\ AdcSetup[13] = Op("adc_powerUp") /\ AdcSetup[14] = Op("reading")
  /\ AdcSetup[15] = Put1("PUD", 0) /\ AdcSetup[16] = Put1("PUA", 0) /\ AdcSetup[17] = Op("powered_off")
<1> DEFINE s == <<Put1("GAIN", 0), Put1("CRS", 0)>> \o SetLDO(7) \o <<Put1("CHS", 0)>> \o CalibrateAFE
           m == <<Op("adc_powerUp"), Op("reading"), Op("adc_powerUp"), Op("reading")>>
<1>1. s \in Seq(Ops)
  <2>1. /\ <<Put1("GAIN", 0), Put1("CRS", 0)>> \in Seq(Ops) /\ SetLDO(7) \in Seq(Ops)
        /\ <<Put1("CHS", 0)>> \in Seq(Ops) /\ CalibrateAFE \in Seq(Ops)
    BY PutTypes, NameTypes DEF SetLDO, CalibrateAFE
  <2>2. <<Put1("GAIN", 0), Put1("CRS", 0)>> \o SetLDO(7) \in Seq(Ops)
    BY <2>1
  <2>3. <<Put1("GAIN", 0), Put1("CRS", 0)>> \o SetLDO(7) \o <<Put1("CHS", 0)>> \in Seq(Ops)
    BY <2>1, <2>2
  <2>4. QED BY <2>1, <2>3
<1>2. /\ Len(s) = 7
      /\ s[1] = Put1("GAIN", 0) /\ s[2] = Put1("CRS", 0) /\ s[3] = Put1("VLDO", 7) /\ s[4] = Put1("AVDDS", 1)
      /\ s[5] = Put1("CHS", 0) /\ s[6] = Put1("CALS", 1) /\ s[7] = Op("calibrated")
  BY DEF SetLDO, CalibrateAFE
<1>3. /\ PowerDown \in Seq(Ops) /\ Len(PowerDown) = 3
      /\ PowerDown[1] = Put1("PUD", 0) /\ PowerDown[2] = Put1("PUA", 0) /\ PowerDown[3] = Op("powered_off")
  BY PutTypes, NameTypes DEF PowerDown
<1>4. /\ m \in Seq(Ops) /\ Len(m) = 4
      /\ m[1] = Op("adc_powerUp") /\ m[2] = Op("reading") /\ m[3] = Op("adc_powerUp") /\ m[4] = Op("reading")
  BY NameTypes
<1>5. AdcSetup = s \o PowerDown \o m \o PowerDown
  BY DEF AdcSetup
<1> HIDE DEF s, m
<1> PICK a, b : Concat(a, s, PowerDown) /\ Concat(b, a, m)
  BY DEF Concat
<1>6. Behind(Ops, a, s, PowerDown, 7, 3)
  BY <1>1, <1>2, <1>3, Joined
<1>7. Behind(Ops, b, a, m, 10, 4)
  <2>1. a \in Seq(Ops) /\ Len(a) = 10
    BY <1>6 DEF Behind
  <2>2. QED BY <1>4, <2>1, Joined
<1>8. Behind(Ops, AdcSetup, b, PowerDown, 14, 3)
  <2>1. b \in Seq(Ops) /\ Len(b) = 14
    BY <1>7 DEF Behind
  <2>2. Concat(AdcSetup, b, PowerDown)
    BY <1>5 DEF Concat
  <2>3. QED BY <1>3, <2>1, <2>2, Joined
<1>9. /\ \A i \in 1..7 : AdcSetup[i] = s[i]
      /\ \A i \in 1..3 : AdcSetup[7 + i] = PowerDown[i]
      /\ \A i \in 1..4 : AdcSetup[10 + i] = m[i]
  BY <1>6, <1>7, <1>8 DEF Behind
<1>10. AdcSetup \in Seq(Ops) /\ Len(AdcSetup) = 17 /\ \A i \in 1..3 : AdcSetup[14 + i] = PowerDown[i]
  BY <1>8 DEF Behind
<1>11. QED
  BY <1>2, <1>3, <1>4, <1>9, <1>10

LEMMA SetupOps ==
  /\ Setup \in Seq(Ops) /\ Len(Setup) = 25
  /\ Setup[1] = Op("tmp_reset") /\ Setup[2] = <<"tmp_mode", "continuous">> /\ Setup[3] = Op("delay")
  /\ Setup[4] = <<"tmp_mode", "one_shot">> /\ Setup[5] = Op("delay") /\ Setup[6] = Op("adc_begin")
  /\ \A i \in 1..17 : Setup[6 + i] = AdcSetup[i]
  /\ Setup[24] = Op("adc_powerUp") /\ Setup[25] = Op("loop")
<1> DEFINE s == TmpSetup \o <<Op("adc_begin")>>
           t == <<Op("adc_powerUp"), Op("loop")>>
<1>1. /\ s \in Seq(Ops) /\ Len(s) = 6
      /\ s[1] = Op("tmp_reset") /\ s[2] = <<"tmp_mode", "continuous">> /\ s[3] = Op("delay")
      /\ s[4] = <<"tmp_mode", "one_shot">> /\ s[5] = Op("delay") /\ s[6] = Op("adc_begin")
  <2>1. TmpSetup \in Seq(Ops) /\ <<Op("adc_begin")>> \in Seq(Ops)
    BY OpTypes, NameTypes DEF TmpSetup
  <2>2. s \in Seq(Ops)
    BY <2>1
  <2>3. QED BY <2>2 DEF TmpSetup
<1>2. t \in Seq(Ops) /\ Len(t) = 2 /\ t[1] = Op("adc_powerUp") /\ t[2] = Op("loop")
  BY NameTypes
<1>3. Setup = s \o AdcSetup \o t
  BY DEF Setup
<1> HIDE DEF s, t
<1> PICK a : Concat(a, s, AdcSetup)
  BY DEF Concat
<1>4. Behind(Ops, a, s, AdcSetup, 6, 17)
  <2>1. AdcSetup \in Seq(Ops) /\ Len(AdcSetup) = 17
    BY AdcSetupOps
  <2>2. QED BY <1>1, <2>1, Joined
<1>5. Behind(Ops, Setup, a, t, 23, 2)
  <2>1. a \in Seq(Ops) /\ Len(a) = 23
    BY <1>4 DEF Behind
  <2>2. Concat(Setup, a, t)
    BY <1>3 DEF Concat
  <2>3. QED BY <1>2, <2>1, <2>2, Joined
<1>6. /\ Setup \in Seq(Ops) /\ Len(Setup) = 25
      /\ \A i \in 1..6 : Setup[i] = s[i]
      /\ \A i \in 1..17 : Setup[6 + i] = AdcSetup[i]
      /\ \A i \in 1..2 : Setup[23 + i] = t[i]
  BY <1>4, <1>5 DEF Behind
<1>7. /\ Setup[1] = s[1] /\ Setup[2] = s[2] /\ Setup[3] = s[3]
      /\ Setup[4] = s[4] /\ Setup[5] = s[5] /\ Setup[6] = s[6]
  <2>1. 1 \in 1..6 /\ 2 \in 1..6 /\ 3 \in 1..6 /\ 4 \in 1..6 /\ 5 \in 1..6 /\ 6 \in 1..6
    OBVIOUS
  <2>2. QED BY <1>6, <2>1, Zenon
<1>8. Setup[24] = t[1] /\ Setup[25] = t[2]
  <2>1. 1 \in 1..2 /\ 2 \in 1..2 /\ 23 + 1 = 24 /\ 23 + 2 = 25
    OBVIOUS
  <2>2. Setup[23 + 1] = t[1] /\ Setup[23 + 2] = t[2]
    BY <1>6, <2>1, Zenon
  <2>3. QED BY <2>2
<1>9. QED
  BY <1>1, <1>2, <1>6, <1>7, <1>8, Zenon

LEMMA RecordOps ==
  /\ Record \in Seq(Ops) /\ Len(Record) = 9
  /\ Record[1] = Op("adc_powerUp") /\ Record[2] = Op("reading") /\ Record[3] = Op("adc")
  /\ Record[4] = Op("tmp") /\ Record[5] = Op("env") /\ Record[6] = Op("rest") /\ Record[7] = Op("flush")
  /\ Record[8] = Op("delay") /\ Record[9] = Op("loop")
<1>1. Record \in Seq(Ops)
  BY NameTypes DEF Record
<1>2. QED
  BY <1>1 DEF Record

-----------------------------------------------------------------------------
(* The way from place to place *)

\* What is left of a sequence of n operations from the k-th on.
Leaves(s, k, n) ==
  /\ SubSeq(s, k, n) \in Seq(Ops) /\ SubSeq(s, k, n) # <<>> /\ Head(SubSeq(s, k, n)) = s[k]
  /\ Tail(SubSeq(s, k, n)) = IF k = n THEN <<>> ELSE SubSeq(s, k + 1, n)
LEMMA Rest ==
  ASSUME NEW s \in Seq(Ops), NEW n \in Nat, Len(s) = n, NEW k \in 1..n
  PROVE  Leaves(s, k, n)
<1>1. SubSeq(s, k, n) \in Seq(Ops) /\ Len(SubSeq(s, k, n)) = n - k + 1
  OBVIOUS
<1>2. SubSeq(s, k, n) # <<>> /\ Head(SubSeq(s, k, n)) = s[k]
  BY <1>1
<1>3. CASE k = n
  <2>1. Tail(SubSeq(s, k, n)) = <<>>
    BY <1>1, <1>3
  <2>2. QED BY <1>1, <1>2, <1>3, <2>1, Zenon DEF Leaves
<1>4. CASE k # n
  <2>1. SubSeq(s, k + 1, n) \in Seq(Ops) /\ Len(SubSeq(s, k + 1, n)) = n - k
    BY <1>4
  <2>2. Tail(SubSeq(s, k, n)) \in Seq(Ops) /\ Len(Tail(SubSeq(s, k, n))) = n - k
    BY <1>1, <1>2
  <2>3. ASSUME NEW i \in 1..(n - k) PROVE Tail(SubSeq(s, k, n))[i] = SubSeq(s, k + 1, n)[i]
    BY <1>1, <1>2, <1>4
  <2>4. Tail(SubSeq(s, k, n)) = SubSeq(s, k + 1, n)
    BY <2>1, <2>2, <2>3
  <2>5. QED BY <1>1, <1>2, <1>4, <2>4, Zenon DEF Leaves
<1>5. QED BY <1>3, <1>4

LEMMA Whole ==
  ASSUME NEW s \in Seq(Ops), NEW n \in Nat, Len(s) = n
  PROVE  SubSeq(s, 1, n) = s
OBVIOUS
LEMMA Wholes ==
  /\ SubSeq(Setup, 1, 25) = Setup /\ SubSeq(Record, 1, 9) = Record
  /\ SubSeq(AdcBegin, 1, 10) = AdcBegin /\ Len(AdcBegin) = 10
  /\ SubSeq(SwitchOn, 1, 4) = SwitchOn /\ Len(SwitchOn) = 4
  /\ SubSeq(TmpFlags, 1, 1) = TmpFlags /\ Len(TmpFlags) = 1
<1>1. SubSeq(Setup, 1, 25) = Setup /\ Len(Setup) = 25
  <2>1. Setup \in Seq(Ops) /\ Len(Setup) = 25 /\ 25 \in Nat
    BY SetupOps
  <2>2. QED BY <2>1, Whole
<1>2. SubSeq(Record, 1, 9) = Record /\ Len(Record) = 9
  <2>1. Record \in Seq(Ops) /\ Len(Record) = 9 /\ 9 \in Nat
    BY RecordOps
  <2>2. QED BY <2>1, Whole
<1>3. SubSeq(AdcBegin, 1, 10) = AdcBegin /\ Len(AdcBegin) = 10
  <2>1. AdcBegin \in Seq(Ops) /\ Len(AdcBegin) = 10 /\ 10 \in Nat
    BY AdcBeginOps
  <2>2. QED BY <2>1, Whole
<1>4. SubSeq(SwitchOn, 1, 4) = SwitchOn /\ Len(SwitchOn) = 4
  <2>1. SwitchOn \in Seq(Ops) /\ Len(SwitchOn) = 4 /\ 4 \in Nat
    BY SwitchOnOps
  <2>2. QED BY <2>1, Whole
<1>5. SubSeq(TmpFlags, 1, 1) = TmpFlags /\ Len(TmpFlags) = 1
  <2>1. TmpFlags \in Seq(Ops) /\ Len(TmpFlags) = 1 /\ 1 \in Nat
    BY TmpFlagsOps
  <2>2. QED BY <2>1, Whole
<1>6. QED BY <1>1, <1>2, <1>3, <1>4, <1>5, Zenon

LEMMA HeadOfCall ==
  ASSUME NEW c \in Seq(Ops), NEW r \in Seq(Ops), c # <<>>
  PROVE  c \o r # <<>> /\ Head(c \o r) = Head(c) /\ Tail(c \o r) = Tail(c) \o r
<1>1. c \o r \in Seq(Ops) /\ Len(c \o r) = Len(c) + Len(r) /\ Len(c) > 0
  OBVIOUS
<1>2. c \o r # <<>> /\ Head(c \o r) = Head(c)
  BY <1>1
<1>3. Tail(c \o r) \in Seq(Ops) /\ Tail(c) \o r \in Seq(Ops)
  BY <1>1, <1>2
<1>4. Len(Tail(c \o r)) = Len(c) + Len(r) - 1 /\ Len(Tail(c) \o r) = Len(c) + Len(r) - 1
  BY <1>1, <1>2
<1>5. ASSUME NEW i \in 1..(Len(c) + Len(r) - 1) PROVE Tail(c \o r)[i] = (Tail(c) \o r)[i]
  BY <1>1, <1>2
<1>6. QED BY <1>2, <1>3, <1>4, <1>5

LEMMA NothingBefore == ASSUME NEW r \in Seq(Ops) PROVE <<>> \o r = r
OBVIOUS

LEMMA MainPlaces ==
  ASSUME NEW k \in 1..34
  PROVE  /\ Main(k) \in Seq(Ops) /\ Main(k) # <<>> /\ Head(Main(k)) = OpAt("none", 1, k)
         /\ k \notin {25, 34} => Tail(Main(k)) = Main(k + 1)
<1>1. CASE k <= 25
  <2>1. Main(k) = SubSeq(Setup, k, 25) /\ OpAt("none", 1, k) = Setup[k]
    BY <1>1 DEF Main, OpAt
  <2>2. /\ SubSeq(Setup, k, 25) \in Seq(Ops) /\ SubSeq(Setup, k, 25) # <<>>
        /\ Head(SubSeq(Setup, k, 25)) = Setup[k]
        /\ Tail(SubSeq(Setup, k, 25)) = IF k = 25 THEN <<>> ELSE SubSeq(Setup, k + 1, 25)
    <3>1. Setup \in Seq(Ops) /\ Len(Setup) = 25
      BY SetupOps, Zenon
    <3>2. 25 \in Nat /\ k \in 1..25
      BY <1>1
    <3>3. Leaves(Setup, k, 25)
      BY <3>1, <3>2, Rest
    <3>4. QED BY <3>3 DEF Leaves
  <2>3. k # 25 => Main(k + 1) = SubSeq(Setup, k + 1, 25)
    BY <1>1 DEF Main
  <2>4. QED BY <2>1, <2>2, <2>3
<1>2. CASE ~(k <= 25)
  <2>1. k - 25 \in 1..9 /\ Main(k) = SubSeq(Record, k - 25, 9) /\ OpAt("none", 1, k) = Record[k - 25]
    BY <1>2 DEF Main, OpAt
  <2>2. /\ Main(k) \in Seq(Ops) /\ Main(k) # <<>> /\ Head(Main(k)) = Record[k - 25]
        /\ Tail(Main(k)) = IF k - 25 = 9 THEN <<>> ELSE SubSeq(Record, (k - 25) + 1, 9)
    <3> PICK i : i = k - 25
      OBVIOUS
    <3>1. Record \in Seq(Ops) /\ Len(Record) = 9 /\ 9 \in Nat /\ i \in 1..9
      BY <2>1, RecordOps
    <3>2. Leaves(Record, i, 9)
      BY <3>1, Rest
    <3>3. QED BY <2>1, <3>2 DEF Leaves
  <2>3. k # 34 => Main(k + 1) = SubSeq(Record, (k - 25) + 1, 9)
    <3>1. ~(k + 1 <= 25) /\ (k + 1) - 25 = (k - 25) + 1
      BY <1>2
    <3>2. QED BY <3>1 DEF Main
  <2>4. k # 34 => k - 25 # 9
    BY <1>2
  <2>5. QED BY <2>1, <2>2, <2>3, <2>4
<1>3. QED BY <1>1, <1>2

LEMMA BodyPlaces ==
  ASSUME NEW call \in {"begin", "on", "flags"}, NEW j \in 1..Len(Body(call))
  PROVE  /\ Body(call) \in Seq(Ops)
         /\ SubSeq(Body(call), j, Len(Body(call))) \in Seq(Ops)
         /\ SubSeq(Body(call), j, Len(Body(call))) # <<>>
         /\ Head(SubSeq(Body(call), j, Len(Body(call)))) = Body(call)[j]
         /\ Tail(SubSeq(Body(call), j, Len(Body(call)))) =
              IF j = Len(Body(call)) THEN <<>> ELSE SubSeq(Body(call), j + 1, Len(Body(call)))
<1>1. Body(call) \in Seq(Ops)
  BY AdcBeginOps, SwitchOnOps, TmpFlagsOps DEF Body
<1>2. Len(Body(call)) \in Nat
  BY <1>1
<1>3. Leaves(Body(call), j, Len(Body(call)))
  BY <1>1, <1>2, Rest
<1>4. QED BY <1>1, <1>3 DEF Leaves

\* The present operation, and where the program goes on behind it.
LEMMA Here ==
  ASSUME NEW call, NEW j, NEW k, Place(call, j, k), todo = Remaining(call, j, k)
  PROVE  /\ todo # <<>> /\ Head(todo) = OpAt(call, j, k)
         /\ call = "none" /\ k \notin {25, 34} => Tail(todo) = Remaining("none", 1, k + 1)
         /\ call # "none" => Tail(todo) = IF j = Len(Body(call)) THEN Remaining("none", 1, k)
                                                                 ELSE Remaining(call, j + 1, k)
<1>1. k \in 1..34
  BY DEF Place
<1>2. CASE call = "none"
  BY <1>1, <1>2, MainPlaces DEF Remaining, OpAt
<1>3. CASE call # "none"
  <2> DEFINE b == SubSeq(Body(call), j, Len(Body(call)))
             r == Main(k)
  <2>1. call \in {"begin", "on", "flags"} /\ j \in 1..Len(Body(call))
    <3>1. CASE call = "begin"
      BY <3>1, AdcBeginOps DEF Place, Body
    <3>2. CASE call = "on"
      BY <3>2, SwitchOnOps DEF Place, Body
    <3>3. CASE call = "flags"
      BY <3>3, TmpFlagsOps DEF Place, Body
    <3>4. QED BY <1>3, <3>1, <3>2, <3>3 DEF Place
  <2>2. /\ b \in Seq(Ops) /\ b # <<>> /\ Head(b) = Body(call)[j]
        /\ Tail(b) = IF j = Len(Body(call)) THEN <<>> ELSE SubSeq(Body(call), j + 1, Len(Body(call)))
    BY <2>1, BodyPlaces
  <2>3. r \in Seq(Ops)
    BY <1>1, MainPlaces
  <2>4. todo = b \o r /\ OpAt(call, j, k) = Body(call)[j]
    BY <1>3 DEF Remaining, OpAt
  <2>5. Remaining("none", 1, k) = r
        /\ Remaining(call, j + 1, k) = SubSeq(Body(call), j + 1, Len(Body(call))) \o r
    BY <1>3 DEF Remaining
  <2> HIDE DEF b, r
  <2>6. todo # <<>> /\ Head(todo) = Head(b) /\ Tail(todo) = Tail(b) \o r
    BY <2>2, <2>3, <2>4, HeadOfCall
  <2>7. CASE j = Len(Body(call))
    BY <1>3, <2>2, <2>3, <2>4, <2>5, <2>6, <2>7, NothingBefore
  <2>8. CASE j # Len(Body(call))
    BY <1>3, <2>2, <2>4, <2>5, <2>6, <2>8
  <2>9. QED BY <2>7, <2>8
<1>4. QED BY <1>2, <1>3

-----------------------------------------------------------------------------
(* Which operation is where *)

NameIn(k) ==
  IF k = 1 THEN "tmp_reset"
  ELSE IF k \in {2, 4} THEN "tmp_mode"
  ELSE IF k \in {3, 5, 33} THEN "delay"
  ELSE IF k = 6 THEN "adc_begin"
  ELSE IF k = 13 THEN "calibrated"
  ELSE IF k \in {16, 23} THEN "powered_off"
  ELSE IF k \in {17, 19, 24, 26} THEN "adc_powerUp"
  ELSE IF k \in {18, 20, 27} THEN "reading"
  ELSE IF k \in {25, 34} THEN "loop"
  ELSE IF k = 28 THEN "adc"
  ELSE IF k = 29 THEN "tmp"
  ELSE IF k = 30 THEN "env"
  ELSE IF k = 31 THEN "rest"
  ELSE IF k = 32 THEN "flush"
  ELSE "put"
NameAt(call, j, k) ==
  IF call = "none" THEN NameIn(k)
  ELSE IF call = "begin" THEN (IF j = 10 THEN "calibrated" ELSE "put")
  ELSE IF call = "flags" THEN "tmp_wait"
  ELSE IF j <= 2 THEN "put" ELSE IF j = 3 THEN "adc_delay" ELSE "powered_on"

\* The fields that are put, and their values.
FieldIn(k) ==
  IF k = 7 THEN <<"GAIN", 0>> ELSE IF k = 8 THEN <<"CRS", 0>> ELSE IF k = 9 THEN <<"VLDO", 7>>
  ELSE IF k = 10 THEN <<"AVDDS", 1>> ELSE IF k = 11 THEN <<"CHS", 0>> ELSE IF k = 12 THEN <<"CALS", 1>>
  ELSE IF k \in {14, 21} THEN <<"PUD", 0>> ELSE <<"PUA", 0>>

LEMMA SetupPlaces ==
  ASSUME NEW k \in 1..25
  PROVE  /\ Setup[k][1] = NameIn(k)
         /\ NameIn(k) = "put" => Setup[k] = Put1(FieldIn(k)[1], FieldIn(k)[2])
         /\ NameIn(k) = "tmp_mode" => Setup[k][2] \in {"continuous", "one_shot"}
<1>1. CASE k \in 1..6
  <2>1. /\ Setup[1] = <<"tmp_reset">> /\ Setup[2] = <<"tmp_mode", "continuous">> /\ Setup[3] = <<"delay">>
        /\ Setup[4] = <<"tmp_mode", "one_shot">> /\ Setup[5] = <<"delay">> /\ Setup[6] = <<"adc_begin">>
    BY SetupOps DEF Op
  <2>2. k = 1 \/ k = 2 \/ k = 3 \/ k = 4 \/ k = 5 \/ k = 6
    BY <1>1
  <2>3. QED BY <2>1, <2>2 DEF NameIn
<1>2. CASE k \in 7..23
  <2> DEFINE i == k - 6
  <2>1. i \in 1..17 /\ Setup[k] = AdcSetup[i]
    <3>1. i \in 1..17 /\ k = 6 + i
      BY <1>2
    <3>2. Setup[6 + i] = AdcSetup[i]
      BY <3>1, SetupOps
    <3>3. QED BY <3>1, <3>2
  <2>2. CASE i \in 1..6
    <3>1. \/ k = 7 /\ Setup[k] = Put1("GAIN", 0)
          \/ k = 8 /\ Setup[k] = Put1("CRS", 0)
          \/ k = 9 /\ Setup[k] = Put1("VLDO", 7)
          \/ k = 10 /\ Setup[k] = Put1("AVDDS", 1)
          \/ k = 11 /\ Setup[k] = Put1("CHS", 0)
          \/ k = 12 /\ Setup[k] = Put1("CALS", 1)
      <4>1. i = 1 \/ i = 2 \/ i = 3 \/ i = 4 \/ i = 5 \/ i = 6
        BY <2>2
      <4>2. QED BY <2>1, <4>1, AdcSetupOps
    <3>2. QED BY <3>1 DEF NameIn, FieldIn, Put1
  <2>3. CASE i \in {7, 10, 17}
    <3>1. \/ k = 13 /\ Setup[k] = Op("calibrated")
          \/ k \in {16, 23} /\ Setup[k] = Op("powered_off")
      <4>1. i = 7 \/ i = 10 \/ i = 17
        BY <2>3
      <4>2. QED BY <2>1, <4>1, AdcSetupOps
    <3>2. QED BY <3>1 DEF NameIn, Op
  <2>4. CASE i \in {11, 12, 13, 14}
    <3>1. \/ k \in {17, 19} /\ Setup[k] = Op("adc_powerUp")
          \/ k \in {18, 20} /\ Setup[k] = Op("reading")
      <4>1. i = 11 \/ i = 12 \/ i = 13 \/ i = 14
        BY <2>4
      <4>2. QED BY <2>1, <4>1, AdcSetupOps
    <3>2. QED BY <3>1 DEF NameIn, Op
  <2>5. CASE i \in {8, 9, 15, 16}
    <3>1. \/ k \in {14, 21} /\ Setup[k] = Put1("PUD", 0)
          \/ k \in {15, 22} /\ Setup[k] = Put1("PUA", 0)
      BY <2>1, <2>5, AdcSetupOps
    <3>2. QED BY <3>1 DEF NameIn, FieldIn, Put1
  <2>6. QED BY <2>1, <2>2, <2>3, <2>4, <2>5
<1>3. CASE k = 24 \/ k = 25
  <2>1. Setup[24] = <<"adc_powerUp">> /\ Setup[25] = <<"loop">>
    BY SetupOps DEF Op
  <2>2. QED BY <1>3, <2>1 DEF NameIn
<1>4. QED BY <1>1, <1>2, <1>3

LEMMA RecordPlaces ==
  ASSUME NEW k \in 26..34
  PROVE  Record[k - 25][1] = NameIn(k) /\ NameIn(k) \notin {"put", "tmp_mode"}
<1>1. \/ k = 26 \/ k = 27 \/ k = 28 \/ k = 29 \/ k = 30 \/ k = 31 \/ k = 32 \/ k = 33 \/ k = 34
  OBVIOUS
<1>2. QED
  BY <1>1, RecordOps DEF NameIn, Op

LEMMA OpName ==
  ASSUME NEW call, NEW j, NEW k, Place(call, j, k)
  PROVE  OpAt(call, j, k)[1] = NameAt(call, j, k)
<1>1. CASE call = "none" /\ k <= 25
  <2>1. k \in 1..25
    BY <1>1 DEF Place
  <2>2. QED BY <1>1, <2>1, SetupPlaces DEF OpAt, NameAt
<1>2. CASE call = "none" /\ ~(k <= 25)
  <2>1. k \in 26..34
    BY <1>2 DEF Place
  <2>2. QED BY <1>2, <2>1, RecordPlaces DEF OpAt, NameAt
<1>3. CASE call = "begin"
  <2>1. j = 1 \/ j = 2 \/ j = 3 \/ j = 4 \/ j = 5 \/ j = 6 \/ j = 7 \/ j = 8 \/ j = 9 \/ j = 10
    BY <1>3 DEF Place
  <2>2. QED BY <1>3, <2>1, AdcBeginOps DEF OpAt, NameAt, Body, Put1, Op
<1>4. CASE call = "on"
  <2>1. j = 1 \/ j = 2 \/ j = 3 \/ j = 4
    BY <1>4 DEF Place
  <2>2. QED BY <1>4, <2>1, SwitchOnOps DEF OpAt, NameAt, Body, Put1, Op
<1>5. CASE call = "flags"
  BY <1>5, TmpFlagsOps DEF Place, OpAt, NameAt, Body, Op
<1>6. QED BY <1>1, <1>2, <1>3, <1>4, <1>5 DEF Place

\* Where the program is, and where it goes on.
LEMMA AtName ==
  ASSUME NEW name, At(name), NEW call, NEW j, NEW k, Place(call, j, k), todo = Remaining(call, j, k)
  PROVE  NameAt(call, j, k) = name
BY Here, OpName DEF At

LEMMA Onward ==
  ASSUME NEW call, NEW j, NEW k, Place(call, j, k), todo = Remaining(call, j, k), Continue
  PROVE  /\ call = "none" /\ k \notin {25, 34} => todo' = Remaining("none", 1, k + 1)
         /\ call = "begin" => todo' = IF j = 10 THEN Remaining("none", 1, 7) ELSE Remaining("begin", j + 1, 7)
         /\ call = "on" => todo' = IF j = 4 THEN Remaining("none", 1, k) ELSE Remaining("on", j + 1, k)
         /\ call = "flags" => todo' = Remaining("none", 1, 2)
<1>1. todo' = Tail(todo)
  BY DEF Continue
<1>2. call = "begin" => k = 7 /\ Len(Body(call)) = 10
  BY AdcBeginOps DEF Place, Body
<1>3. call = "on" => Len(Body(call)) = 4
  BY SwitchOnOps DEF Body
<1>4. CASE call = "none"
  BY <1>1, <1>4, Here
<1>5. CASE call = "begin"
  BY <1>1, <1>2, <1>5, Here
<1>6. CASE call = "on"
  BY <1>1, <1>3, <1>6, Here
<1>7. CASE call = "flags"
  <2>1. k = 2 /\ j = 1 /\ Len(Body(call)) = 1
    BY <1>7, TmpFlagsOps DEF Place, Body
  <2>2. QED BY <1>1, <1>7, <2>1, Here
<1>8. QED BY <1>4, <1>5, <1>6, <1>7 DEF Place

\* The field and the value of a put.
PutAt(call, j, k) ==
  IF call = "none" THEN FieldIn(k)
  ELSE IF call = "on" THEN (IF j = 1 THEN <<"PUD", 1>> ELSE <<"PUA", 1>>)
  ELSE IF j = 1 THEN <<"RR", 1>> ELSE IF j = 2 THEN <<"RR", 0>>
  ELSE IF j = 3 THEN <<"PUD", 1>> ELSE IF j = 4 THEN <<"PUA", 1>>
  ELSE IF j = 5 THEN <<"VLDO", 4>> ELSE IF j = 6 THEN <<"AVDDS", 1>>
  ELSE IF j = 7 THEN <<"GAIN", 7>> ELSE IF j = 8 THEN <<"CRS", 3>> ELSE <<"CALS", 1>>

LEMMA PutHead ==
  ASSUME NEW call, NEW j, NEW k, Place(call, j, k), todo = Remaining(call, j, k), At("put")
  PROVE  /\ Head(todo)[2] = PutAt(call, j, k)[1] /\ Head(todo)[3] = PutAt(call, j, k)[2]
         /\ PutAt(call, j, k)[1] \in Fields /\ PutAt(call, j, k)[2] \in 0..7
<1>1. NameAt(call, j, k) = "put" /\ Head(todo) = OpAt(call, j, k)
  BY AtName, Here
<1>2. CASE call = "none"
  <2>1. k \in 1..34 /\ NameIn(k) = "put"
    BY <1>1, <1>2 DEF Place, NameAt
  <2>2. k \in 1..25
    BY <2>1, RecordPlaces
  <2>3. Head(todo) = Put1(FieldIn(k)[1], FieldIn(k)[2])
    BY <1>1, <1>2, <2>1, <2>2, SetupPlaces DEF OpAt
  <2>4. FieldIn(k)[1] \in Fields /\ FieldIn(k)[2] \in 0..7
    BY AllFields DEF FieldIn
  <2>5. QED BY <1>2, <2>3, <2>4 DEF PutAt, Put1
<1>3. CASE call = "on"
  <2>1. j = 1 \/ j = 2
    BY <1>1, <1>3 DEF Place, NameAt
  <2>2. QED BY <1>1, <1>3, <2>1, SwitchOnOps, AllFields DEF OpAt, Body, PutAt, Put1
<1>4. CASE call = "begin"
  <2>1. j = 1 \/ j = 2 \/ j = 3 \/ j = 4 \/ j = 5 \/ j = 6 \/ j = 7 \/ j = 8 \/ j = 9
    BY <1>1, <1>4 DEF Place, NameAt
  <2>2. Head(todo) = AdcBegin[j]
    BY <1>1, <1>4 DEF OpAt, Body
  <2>3. AdcBegin[j] = Put1(PutAt(call, j, k)[1], PutAt(call, j, k)[2])
    BY <1>4, <2>1, AdcBeginOps DEF PutAt
  <2>4. PutAt(call, j, k)[1] \in Fields /\ PutAt(call, j, k)[2] \in 0..7
    BY <1>4, AllFields DEF PutAt
  <2>5. QED BY <2>2, <2>3, <2>4 DEF Put1
<1>5. call # "flags"
  BY <1>1 DEF NameAt
<1>6. QED BY <1>2, <1>3, <1>4, <1>5 DEF Place

-----------------------------------------------------------------------------
(* The converter *)

LEMMA DefaultTypes ==
  /\ Default \in [Fields -> 0..7] /\ Ones \in [Fields -> 0..7]
  /\ Uncalibrated \in [ConfigFields -> 0..7] /\ CalError \in [ConfigFields -> 0..7]
  /\ ConfigFields \subseteq Fields
<1>1. 0 \in 0..7 /\ 1 \in 0..7 /\ 7 \in 0..7
  OBVIOUS
<1>2. QED
  BY <1>1, AllFields DEF Default, Ones, Uncalibrated, CalError, ConfigFields

LEMMA WrittenTypes ==
  ASSUME reg \in [Fields -> 0..7], NEW value \in [Fields -> 0..7], NEW register
  PROVE  Written(register, value) \in [Fields -> 0..7]
<1>1. "RR" \in Fields /\ PuCtrl \subseteq Fields
  BY AllFields DEF PuCtrl
<1>2. [Default EXCEPT !["RR"] = 1] \in [Fields -> 0..7]
  BY <1>1, DefaultTypes
<1>3. [f \in Fields |-> IF f \in PuCtrl THEN value[f] ELSE reg[f]] \in [Fields -> 0..7]
  OBVIOUS
<1>4. [f \in Fields |-> IF f \in register THEN value[f] ELSE reg[f]] \in [Fields -> 0..7]
  OBVIOUS
<1>5. QED BY <1>2, <1>3, <1>4 DEF Written

LEMMA RmwTypes ==
  ASSUME Types, NEW field \in Fields, NEW v \in 0..7, Rmw(field, v)
  PROVE  /\ reg' \in [Fields -> 0..7] /\ calOf' \in [ConfigFields -> 0..7] /\ conv' \in Qualities
         /\ ready' \in BOOLEAN /\ faults' \in 0..MaxFaults /\ faults' >= faults
<1>1. PICK readFails \in BOOLEAN, writeFails \in BOOLEAN :
        /\ Fails((IF readFails THEN 1 ELSE 0) + (IF writeFails THEN 1 ELSE 0))
        /\ reg' = IF writeFails THEN reg ELSE Written(RegisterOf(field), Put(field, v, readFails))
  BY DEF Rmw
<1>2. faults' \in 0..MaxFaults /\ faults' >= faults
  <2>1. (IF readFails THEN 1 ELSE 0) + (IF writeFails THEN 1 ELSE 0) \in Nat
    OBVIOUS
  <2>2. QED BY <1>1, <2>1, FaultBound DEF Fails, Types
<1>3. reg' \in [Fields -> 0..7]
  <2>1. Put(field, v, readFails) \in [Fields -> 0..7]
    BY DefaultTypes DEF Put, Types
  <2>2. QED BY <1>1, <2>1, WrittenTypes DEF Types
<1>4. /\ calOf' \in [ConfigFields -> 0..7] /\ conv' \in Qualities /\ ready' \in BOOLEAN
  BY DefaultTypes DEF Rmw, Types, Qualities
<1>5. QED BY <1>2, <1>3, <1>4

\* What an access leaves that does not fail.
LEMMA Stored ==
  ASSUME Types, NEW field \in Fields, NEW v \in 0..7, Rmw(field, v), faults' = faults
  PROVE  reg' = Written(RegisterOf(field), [reg EXCEPT ![field] = v])
<1>1. PICK readFails \in BOOLEAN, writeFails \in BOOLEAN :
        /\ Fails((IF readFails THEN 1 ELSE 0) + (IF writeFails THEN 1 ELSE 0))
        /\ reg' = IF writeFails THEN reg ELSE Written(RegisterOf(field), Put(field, v, readFails))
  BY DEF Rmw
<1>2. ~readFails /\ ~writeFails
  <2>1. (IF readFails THEN 1 ELSE 0) + (IF writeFails THEN 1 ELSE 0) = 0
    BY <1>1, FaultBound DEF Fails, Types
  <2>2. QED BY <2>1
<1>3. QED BY <1>1, <1>2 DEF Put

LEMMA RegisterOfField ==
  /\ RegisterOf("RR") = PuCtrl
  /\ \A field \in Fields : field \in RegisterOf(field) /\ (RegisterOf(field) = PuCtrl <=> field \in PuCtrl)
<1>1. ASSUME NEW field \in Fields
      PROVE  field \in RegisterOf(field) /\ (RegisterOf(field) = PuCtrl <=> field \in PuCtrl)
  <2>1. \E register \in {PuCtrl, Ctrl1, Ctrl2} : field \in register
    BY DEF Fields
  <2>2. RegisterOf(field) \in {PuCtrl, Ctrl1, Ctrl2} /\ field \in RegisterOf(field)
    BY <2>1, Zenon DEF RegisterOf
  <2>3. QED BY <2>2 DEF PuCtrl, Ctrl1, Ctrl2
<1>2. "RR" \in PuCtrl /\ "RR" \in Fields
  BY DEF PuCtrl, Fields
<1>3. QED BY <1>1, <1>2

LEMMA StoredReset ==
  ASSUME Types, Rmw("RR", 1), faults' = faults
  PROVE  reg' = [Default EXCEPT !["RR"] = 1]
<1>1. "RR" \in Fields /\ 1 \in 0..7
  BY AllFields
<1>2. reg' = Written(PuCtrl, [reg EXCEPT !["RR"] = 1])
  BY <1>1, Stored, RegisterOfField
<1>3. [reg EXCEPT !["RR"] = 1]["RR"] = 1
  BY <1>1 DEF Types
<1>4. QED BY <1>2, <1>3 DEF Written

LEMMA StoredField ==
  ASSUME Types, NEW field \in Fields, NEW v \in 0..7, Rmw(field, v), faults' = faults,
         (field = "RR" /\ v = 0) \/ (field # "RR" /\ reg["RR"] = 0)
  PROVE  /\ reg' = [reg EXCEPT ![field] = v]
         /\ calOf' = calOf /\ ready' = ready
<1> DEFINE value == [reg EXCEPT ![field] = v]
<1>1. "RR" \in Fields /\ reg \in [Fields -> 0..7]
  BY AllFields DEF Types
<1>2. reg' = Written(RegisterOf(field), value) /\ value \in [Fields -> 0..7]
  BY <1>1, Stored
<1>3. value["RR"] = 0
  BY <1>1
<1>4. reg' = value
  <2>1. CASE field \in PuCtrl
    <3>1. reg' = [f \in Fields |-> IF f \in PuCtrl THEN value[f] ELSE reg[f]]
      BY <1>2, <1>3, <2>1, RegisterOfField DEF Written
    <3>2. \A f \in Fields : (IF f \in PuCtrl THEN value[f] ELSE reg[f]) = value[f]
      BY <1>1, <2>1
    <3>3. QED BY <1>2, <3>1, <3>2
  <2>2. CASE field \notin PuCtrl
    <3>1. field # "RR" /\ reg["RR"] = 0
      BY <2>2 DEF PuCtrl
    <3>2. RegisterOf(field) # PuCtrl /\ field \in RegisterOf(field)
      BY <2>2, RegisterOfField
    <3>3. reg' = [f \in Fields |-> IF f \in RegisterOf(field) THEN value[f] ELSE reg[f]]
      BY <1>2, <3>1, <3>2 DEF Written
    <3>4. \A f \in Fields : (IF f \in RegisterOf(field) THEN value[f] ELSE reg[f]) = value[f]
      BY <1>1, <3>2
    <3>5. QED BY <1>2, <3>3, <3>4
  <2>3. QED BY <2>1, <2>2
<1>5. reg'["RR"] = 0
  BY <1>3, <1>4
<1>6. UNCHANGED <<calOf, ready>>
  <2>1. IF reg'["RR"] = 1 THEN calOf' = Uncalibrated /\ conv' = "none" /\ ready' = FALSE
        ELSE UNCHANGED <<calOf, ready>>
    BY DEF Rmw
  <2>2. QED BY <1>5, <2>1
<1>7. QED BY <1>4, <1>6

-----------------------------------------------------------------------------
(* Every step keeps the invariant *)

LEMMA Arrived ==
  ASSUME Types', NEW call, NEW j, NEW k, AtPlace(call, j, k)'
  PROVE  Inv'
<1>1. call \in Calls /\ j \in 1..10 /\ k \in 1..34
  BY DEF AtPlace, Place, Calls
<1>2. QED BY <1>1 DEF Inv

LEMMA AtFirst == todo = Setup => todo = Remaining("none", 1, 1)
<1>1. SubSeq(Setup, 1, 25) = Setup
  BY Wholes
<1>2. QED BY <1>1 DEF Remaining, Main

LEMMA InitInv == Init => Inv
<1> SUFFICES ASSUME Init PROVE Inv
  OBVIOUS
<1>1. Types
  <2>1. reg \in [Fields -> 0..7] /\ calOf \in [ConfigFields -> 0..7]
    BY DefaultTypes DEF Init, ChipInit
  <2>2. faults \in 0..MaxFaults
    BY FaultBound DEF Init, ChipInit
  <2>3. conv \in Qualities /\ reading \in Qualities /\ ready \in BOOLEAN /\ adcHasPower \in BOOLEAN
    BY DEF Init, ChipInit, Qualities
  <2>4. QED BY <2>1, <2>2, <2>3 DEF Init, Types
<1>2. Place("none", 1, 1) /\ todo = Remaining("none", 1, 1)
  BY AtFirst DEF Init, Place
<1>3. Flag("none", 1, 1) /\ row \in Rows(1) /\ Undisturbed("none", 1, 1)
  BY DEF Init, Flag, Rows, Undisturbed, Cleared, Powered, Configured, Calibration, Fresh, Settled, Digital, Analogue
<1>4. AtPlace("none", 1, 1)
  BY <1>2, <1>3 DEF AtPlace
<1>5. QED
  BY <1>1, <1>4 DEF Inv, Calls

LEMMA RestartInv == Inv /\ Restart => Inv'
<1> SUFFICES ASSUME Inv, Restart PROVE Inv'
  OBVIOUS
<1>1. Types'
  <2>1. Types
    BY DEF Inv
  <2>2. reg' \in [Fields -> 0..7] /\ calOf' \in [ConfigFields -> 0..7] /\ conv' \in Qualities /\ ready' \in BOOLEAN
    BY <2>1, DefaultTypes DEF Restart, ChipRestart, Types, Qualities
  <2>3. faults' = faults /\ reading' \in Qualities
    BY DEF Restart, ChipRestart, Qualities
  <2>4. QED BY <2>1, <2>2, <2>3 DEF Restart, Types
<1>2. Place("none", 1, 1) /\ todo' = Remaining("none", 1, 1)
  <2>1. todo' = Setup
    BY DEF Restart
  <2>2. SubSeq(Setup, 1, 25) = Setup
    BY Wholes
  <2>3. QED BY <2>1, <2>2 DEF Remaining, Main, Place
<1>3. Flag("none", 1, 1)' /\ row' \in Rows(1) /\ Undisturbed("none", 1, 1)'
  BY DEF Restart, Flag, Rows, Undisturbed, Cleared, Powered, Configured, Calibration, Fresh, Settled, Digital, Analogue
<1>4. AtPlace("none", 1, 1)'
  BY <1>2, <1>3 DEF AtPlace
<1>5. QED
  BY <1>1, <1>4, Arrived

LEMMA RegisterInv == Inv /\ Register => Inv'
<1> SUFFICES ASSUME Inv, Register PROVE Inv'
  OBVIOUS
<1>1. PICK call, j, k : AtPlace(call, j, k)
  BY DEF Inv
<1>2. /\ Types /\ Place(call, j, k) /\ todo = Remaining(call, j, k) /\ At("put") /\ Continue
      /\ NameAt(call, j, k) = "put"
  BY <1>1, AtName DEF Inv, AtPlace, Register
<1> DEFINE field == PutAt(call, j, k)[1]
           v     == PutAt(call, j, k)[2]
<1>3. field \in Fields /\ v \in 0..7 /\ Rmw(field, v)
  BY <1>2, PutHead DEF Register
<1>4. /\ reg' \in [Fields -> 0..7] /\ calOf' \in [ConfigFields -> 0..7] /\ conv' \in Qualities
      /\ ready' \in BOOLEAN /\ faults' \in 0..MaxFaults /\ faults' >= faults
  BY <1>2, <1>3, RmwTypes
<1>5. Types'
  <2>1. disturbed' \in BOOLEAN
    BY <1>2 DEF Register, Types
  <2>2. QED BY <1>2, <1>4, <2>1 DEF Register, Types
<1>6. ~disturbed' => ~disturbed /\ faults' = faults
  <2>1. ~disturbed' => ~disturbed /\ ~(faults' > faults)
    BY DEF Register
  <2>2. QED BY <1>2, <1>4, <2>1, FaultBound DEF Types
<1>7. adcHasPower' = adcHasPower /\ row' = row /\ reading' = reading /\ calFailed' = calFailed
  BY DEF Register
<1>8. reg \in [Fields -> 0..7] /\ Fields = {"RR", "PUD", "PUA", "OSCS", "AVDDS", "GAIN", "VLDO", "CRS", "CALS", "CHS"}
  BY <1>2, AllFields DEF Types
<1>9. CASE call = "begin"
  <2>1. k = 7 /\ j \in 1..9
    BY <1>2, <1>9 DEF Place, NameAt
  <2>2. Place("begin", j + 1, 7) /\ todo' = Remaining("begin", j + 1, 7)
    BY <1>2, <1>9, <2>1, Onward DEF Place
  <2>3. Flag("begin", j + 1, 7)' /\ row' \in Rows(7)
    BY <1>1, <1>7, <1>9, <2>1 DEF AtPlace, Flag
  <2>4. ASSUME ~disturbed', ~calFailed' PROVE Undisturbed("begin", j + 1, 7)'
    <3>1. faults' = faults /\ Undisturbed("begin", j, 7)
      BY <1>1, <1>6, <1>7, <1>9, <2>1, <2>4 DEF AtPlace
    <3>2. CASE j = 1
      <4>1. field = "RR" /\ v = 1
        BY <1>9, <3>2 DEF PutAt
      <4>2. reg' = [Default EXCEPT !["RR"] = 1]
        BY <1>2, <1>3, <3>1, <4>1, StoredReset
      <4>3. QED BY <1>7, <3>1, <3>2, <4>2
            DEF Undisturbed, Cleared, Powered, Configured, Calibration, Fresh, Settled, Digital, Analogue
    <3>3. CASE j = 2
      <4>1. field = "RR" /\ v = 0
        BY <1>9, <3>3 DEF PutAt
      <4>2. reg' = [reg EXCEPT !["RR"] = 0]
        BY <1>2, <1>3, <3>1, <4>1, StoredField
      <4>3. reg["OSCS"] = 0
        BY <1>8, <3>1, <3>3 DEF Undisturbed, Cleared, Default
      <4>4. reg'["RR"] = 0 /\ reg'["OSCS"] = 0
        BY <1>8, <4>2, <4>3
      <4>5. QED BY <1>7, <3>1, <3>3, <4>4
            DEF Undisturbed, Cleared, Powered, Configured, Calibration, Fresh, Settled, Digital, Analogue
    <3>4. CASE j \in 3..9
      <4>1. /\ reg["RR"] = 0 /\ reg["OSCS"] = 0 /\ (j >= 4 => reg["PUD"] = 1) /\ (j >= 5 => reg["PUA"] = 1)
            /\ reading \in {"none", "right"}
        BY <3>1, <3>4 DEF Undisturbed, Cleared, Powered, Digital, Analogue
      <4>2. /\ field \notin {"RR", "OSCS"} /\ (field = "PUD" => v = 1) /\ (field = "PUA" => v = 1)
            /\ (j = 3 => field = "PUD") /\ (j = 4 => field = "PUA")
        BY <1>9, <3>4 DEF PutAt
      <4>3. reg' = [reg EXCEPT ![field] = v]
        BY <1>2, <1>3, <3>1, <4>1, <4>2, StoredField
      <4>4. /\ reg'["RR"] = 0 /\ reg'["OSCS"] = 0
            /\ (j + 1 >= 4 => reg'["PUD"] = 1) /\ (j + 1 >= 5 => reg'["PUA"] = 1)
        BY <1>8, <3>4, <4>1, <4>2, <4>3
      <4>5. QED BY <1>7, <3>4, <4>1, <4>4
            DEF Undisturbed, Cleared, Powered, Configured, Calibration, Fresh, Settled, Digital, Analogue
    <3>5. QED BY <2>1, <3>2, <3>3, <3>4
  <2>5. AtPlace("begin", j + 1, 7)'
    BY <2>2, <2>3, <2>4 DEF AtPlace
  <2>6. QED BY <1>5, <2>5, Arrived
<1>10. CASE call = "on"
  <2>1. k \in {18, 25} /\ j \in {1, 2}
    BY <1>2, <1>10 DEF Place, NameAt
  <2>2. Place("on", j + 1, k) /\ todo' = Remaining("on", j + 1, k)
    BY <1>2, <1>10, <2>1, Onward DEF Place
  <2>3. Flag("on", j + 1, k)' /\ row' \in Rows(k)
    BY <1>1, <1>7, <1>10 DEF AtPlace, Flag
  <2>4. ASSUME ~disturbed', ~calFailed' PROVE Undisturbed("on", j + 1, k)'
    <3>1. faults' = faults /\ Undisturbed("on", j, k)
      BY <1>1, <1>6, <1>7, <1>10, <2>4 DEF AtPlace
    <3>2. /\ reg["RR"] = 0 /\ reg["OSCS"] = 0 /\ (j = 2 => reg["PUD"] = 1) /\ reading \in {"none", "right"}
          /\ Configured(k) /\ Calibration(k)
      BY <2>1, <3>1 DEF Undisturbed, Cleared, Powered, Digital
    <3>3. v = 1 /\ (j = 1 => field = "PUD") /\ (j = 2 => field = "PUA")
      BY <1>10, <2>1 DEF PutAt
    <3>4. field \in {"PUD", "PUA"}
      BY <2>1, <3>3
    <3>5. reg' = [reg EXCEPT ![field] = v] /\ calOf' = calOf
      BY <1>2, <1>3, <3>1, <3>2, <3>4, StoredField
    <3>6. \A f \in Fields : f \notin {"PUD", "PUA"} => reg'[f] = reg[f]
      BY <1>8, <3>4, <3>5
    <3>7. Configured(k)' /\ Calibration(k)' /\ reg'["RR"] = 0 /\ reg'["OSCS"] = 0
      BY <1>8, <3>2, <3>5, <3>6 DEF Configured, Calibration
    <3>8. reg'["PUD"] = 1 /\ (j = 2 => reg'["PUA"] = 1)
      BY <1>8, <2>1, <3>2, <3>3, <3>5
    <3>9. QED BY <1>7, <2>1, <3>2, <3>7, <3>8
          DEF Undisturbed, Cleared, Powered, Fresh, Settled, Digital, Analogue
  <2>5. AtPlace("on", j + 1, k)'
    BY <2>2, <2>3, <2>4 DEF AtPlace
  <2>6. QED BY <1>5, <2>5, Arrived
<1>11. CASE call = "none"
  <2>1. k \in {7, 8, 9, 10, 11, 12, 14, 15, 21, 22} /\ j = 1
    <3>1. k \in 1..34 /\ NameIn(k) = "put" /\ j = 1
      BY <1>2, <1>11 DEF Place, NameAt
    <3>2. QED BY <3>1 DEF NameIn
  <2>2. Place("none", 1, k + 1) /\ todo' = Remaining("none", 1, k + 1)
    BY <1>2, <1>11, <2>1, Onward DEF Place
  <2>3. Flag("none", 1, k + 1)' /\ row' \in Rows(k + 1)
    BY <1>1, <1>7, <1>11, <2>1 DEF AtPlace, Flag, Rows
  <2>4. ASSUME ~disturbed', ~calFailed' PROVE Undisturbed("none", 1, k + 1)'
    <3>1. faults' = faults /\ Undisturbed("none", 1, k)
      BY <1>1, <1>6, <1>7, <1>11, <2>1, <2>4 DEF AtPlace
    <3>2. /\ reg["RR"] = 0 /\ reg["OSCS"] = 0 /\ reading \in {"none", "right"}
          /\ Configured(k) /\ Calibration(k) /\ Powered("none", 1, k)
      BY <2>1, <3>1 DEF Undisturbed, Cleared
    <3>3. field = FieldIn(k)[1] /\ v = FieldIn(k)[2]
      BY <1>11 DEF PutAt
    <3>4. field \notin {"RR", "OSCS"}
      BY <3>3 DEF FieldIn
    <3>5. reg' = [reg EXCEPT ![field] = v] /\ calOf' = calOf
      BY <1>2, <1>3, <3>1, <3>2, <3>4, StoredField
    <3>6. reg'[field] = v /\ \A f \in Fields : f # field => reg'[f] = reg[f]
      BY <1>3, <1>8, <3>5
    <3>7. reg'["RR"] = 0 /\ reg'["OSCS"] = 0
      BY <1>8, <3>2, <3>4, <3>6
    <3>8. Configured(k + 1)'
      BY <1>8, <2>1, <3>2, <3>3, <3>6 DEF Configured, FieldIn
    <3>9. Calibration(k + 1)'
      <4>1. CASE k = 12
        <5>1. field = "CALS" /\ v = 1
          BY <3>3, <4>1 DEF FieldIn
        <5>2. reg'["CALS"] = 1
          BY <3>6, <5>1
        <5>3. Calibration(13)'
          BY <5>2 DEF Calibration
        <5>4. QED BY <4>1, <5>3
      <4>2. CASE k \in 7..11
        BY <4>2 DEF Calibration
      <4>3. CASE k \in {14, 15, 21, 22}
        <5>1. field # "CALS"
          BY <3>3, <4>3 DEF FieldIn
        <5>2. reg'["CALS"] = reg["CALS"]
          BY <1>8, <3>6, <5>1
        <5>3. QED BY <3>2, <3>5, <4>3, <5>2 DEF Calibration
      <4>4. QED BY <2>1, <4>1, <4>2, <4>3
    <3>10. Powered("none", 1, k + 1)'
      BY <1>8, <2>1, <3>2, <3>3, <3>6 DEF Powered, Digital, Analogue, FieldIn
    <3>11. ~Settled("none", 1, k + 1)
      BY <2>1 DEF Settled
    <3>12. QED BY <1>7, <3>2, <3>7, <3>8, <3>9, <3>10, <3>11 DEF Undisturbed, Cleared, Fresh
  <2>5. AtPlace("none", 1, k + 1)'
    BY <2>2, <2>3, <2>4 DEF AtPlace
  <2>6. QED BY <1>5, <2>5, Arrived
<1>12. call # "flags"
  BY <1>2 DEF NameAt
<1>13. QED BY <1>2, <1>9, <1>10, <1>11, <1>12 DEF Place

LEMMA BeginInv == Inv /\ Begin => Inv'
<1> SUFFICES ASSUME Inv, Begin PROVE Inv'
  OBVIOUS
<1>1. PICK call, j, k : AtPlace(call, j, k)
  BY DEF Inv
<1>2. /\ Types /\ Place(call, j, k) /\ todo = Remaining(call, j, k) /\ At("adc_begin")
      /\ NameAt(call, j, k) = "adc_begin"
  BY <1>1, AtName DEF Inv, AtPlace, Begin
<1>3. call = "none" /\ k = 6 /\ j = 1
  BY <1>2 DEF Place, NameAt, NameIn
<1>4. /\ adcHasPower' = adcHasPower /\ row' = row /\ reading' = reading
      /\ UNCHANGED <<reg, calOf, conv, ready, calFailed>>
  BY DEF Begin
<1>5. Tail(todo) = Remaining("none", 1, 7)
  BY <1>2, <1>3, Here
<1>6. CASE Run(AdcBegin) /\ UNCHANGED <<faults, disturbed>>
  <2>1. Place("begin", 1, 7) /\ todo' = Remaining("begin", 1, 7)
    <3>1. todo' = AdcBegin \o Main(7)
      BY <1>5, <1>6 DEF Run, Remaining
    <3>2. SubSeq(AdcBegin, 1, 10) = AdcBegin /\ Len(AdcBegin) = 10
      BY Wholes
    <3>3. todo' = Remaining("begin", 1, 7)
      BY <3>1, <3>2 DEF Remaining, Body
    <3>4. Place("begin", 1, 7)
      BY DEF Place
    <3>5. QED BY <3>3, <3>4, Zenon
  <2>2. Types'
    BY <1>2, <1>6 DEF Begin, Types
  <2>3. Flag("begin", 1, 7)' /\ row' \in Rows(7)
    BY <1>1, <1>3, <1>4 DEF AtPlace, Flag, Rows
  <2>4. ~disturbed' /\ ~calFailed' => Undisturbed("begin", 1, 7)'
    BY <1>1, <1>3, <1>4, <1>6 DEF AtPlace,
         Undisturbed, Cleared, Powered, Configured, Calibration, Fresh, Settled, Digital, Analogue
  <2>5. AtPlace("begin", 1, 7)'
    BY <2>1, <2>3, <2>4 DEF AtPlace
  <2>6. QED BY <2>2, <2>5, Arrived
<1>7. CASE Fails(2) /\ Continue /\ disturbed' = TRUE
  <2>1. Place("none", 1, 7) /\ todo' = Remaining("none", 1, 7)
    BY <1>5, <1>7 DEF Continue, Place
  <2>2. faults' \in 0..MaxFaults
    BY <1>2, <1>7, FaultBound DEF Fails, Types
  <2>3. Types'
    BY <1>2, <1>7, <2>2 DEF Begin, Types
  <2>4. Flag("none", 1, 7)' /\ row' \in Rows(7)
    BY <1>1, <1>3, <1>4 DEF AtPlace, Flag, Rows
  <2>5. AtPlace("none", 1, 7)'
    BY <1>7, <2>1, <2>4 DEF AtPlace
  <2>6. QED BY <2>3, <2>5, Arrived
<1>8. QED BY <1>6, <1>7 DEF Begin

LEMMA CalibratedInv == Inv /\ Calibrated => Inv'
<1> SUFFICES ASSUME Inv, Calibrated PROVE Inv'
  OBVIOUS
<1>1. PICK call, j, k : AtPlace(call, j, k)
  BY DEF Inv
<1>2. /\ Types /\ Place(call, j, k) /\ todo = Remaining(call, j, k) /\ At("calibrated") /\ Continue
      /\ NameAt(call, j, k) = "calibrated"
  BY <1>1, AtName DEF Inv, AtPlace, Calibrated
<1>3. /\ UNCHANGED <<chipVars, adcHasPower, reading, tmpMode, tmpReg, phase, row, disturbed>>
      /\ calFailed' = (calFailed \/ reg["CALS"] = 1 \/ calOf = CalError)
  BY DEF Calibrated
<1>4. Types'
  BY <1>2, <1>3 DEF Types, chipVars
<1>5. CASE call = "begin"
  <2>1. j = 10 /\ k = 7
    BY <1>2, <1>5 DEF Place, NameAt
  <2>2. Place("none", 1, 7) /\ todo' = Remaining("none", 1, 7)
    BY <1>2, <1>5, <2>1, Onward DEF Place
  <2>3. Flag("none", 1, 7)' /\ row' \in Rows(7)
    BY <1>1, <1>3, <1>5, <2>1 DEF AtPlace, Flag, Rows
  <2>4. ASSUME ~disturbed', ~calFailed' PROVE Undisturbed("none", 1, 7)'
    <3>1. Undisturbed("begin", 10, 7)
      BY <1>1, <1>3, <1>5, <2>1, <2>4 DEF AtPlace
    <3>2. QED BY <1>3, <3>1 DEF chipVars,
            Undisturbed, Cleared, Powered, Configured, Calibration, Fresh, Settled, Digital, Analogue
  <2>5. AtPlace("none", 1, 7)'
    BY <2>2, <2>3, <2>4 DEF AtPlace
  <2>6. QED BY <1>4, <2>5, Arrived
<1>6. CASE call # "begin"
  <2>1. call = "none" /\ k = 13 /\ j = 1
    BY <1>2, <1>6 DEF Place, NameAt, NameIn
  <2>2. Place("none", 1, 14) /\ todo' = Remaining("none", 1, 14)
    BY <1>2, <2>1, Onward DEF Place
  <2>3. Flag("none", 1, 14)' /\ row' \in Rows(14)
    BY <1>1, <1>3, <2>1 DEF AtPlace, Flag, Rows
  <2>4. ASSUME ~disturbed', ~calFailed' PROVE Undisturbed("none", 1, 14)'
    <3>1. Undisturbed("none", 1, 13) /\ reg["CALS"] # 1 /\ calOf # CalError
      BY <1>1, <1>3, <2>1, <2>4 DEF AtPlace
    <3>2. /\ reg["RR"] = 0 /\ reg["OSCS"] = 0 /\ reg["PUD"] = 1 /\ reg["PUA"] = 1
          /\ Configured(13) /\ calOf = Wanted /\ reading \in {"none", "right"}
      BY <3>1 DEF Undisturbed, Cleared, Powered, Calibration, Digital, Analogue
    <3>3. reg["CALS"] = 0
      BY <3>1 DEF Undisturbed, Calibration
    <3>4. Configured(14)' /\ Calibration(14)'
      BY <1>3, <3>2, <3>3 DEF chipVars, Configured, Calibration
    <3>5. QED BY <1>3, <3>2, <3>4 DEF chipVars, Undisturbed, Cleared, Powered, Fresh, Settled, Digital, Analogue
  <2>5. AtPlace("none", 1, 14)'
    BY <2>2, <2>3, <2>4 DEF AtPlace
  <2>6. QED BY <1>4, <2>5, Arrived
<1>7. QED BY <1>5, <1>6

LEMMA PoweredOffInv == Inv /\ PoweredOff => Inv'
<1> SUFFICES ASSUME Inv, PoweredOff PROVE Inv'
  OBVIOUS
<1>1. PICK call, j, k : AtPlace(call, j, k)
  BY DEF Inv
<1>2. /\ Types /\ Place(call, j, k) /\ todo = Remaining(call, j, k) /\ At("powered_off") /\ Continue
      /\ NameAt(call, j, k) = "powered_off"
  BY <1>1, AtName DEF Inv, AtPlace, PoweredOff
<1>3. UNCHANGED <<chipVars, reading, tmpMode, tmpReg, phase, row, disturbed, calFailed>> /\ adcHasPower' = FALSE
  BY DEF PoweredOff
<1>4. Types'
  BY <1>2, <1>3 DEF Types, chipVars
<1>5. call = "none" /\ k \in {16, 23} /\ j = 1
  BY <1>2 DEF Place, NameAt, NameIn
<1>6. Place("none", 1, k + 1) /\ todo' = Remaining("none", 1, k + 1)
  BY <1>2, <1>5, Onward DEF Place
<1>7. Flag("none", 1, k + 1)' /\ row' \in Rows(k + 1)
  BY <1>1, <1>3, <1>5 DEF AtPlace, Flag, Rows
<1>8. ~disturbed' /\ ~calFailed' => Undisturbed("none", 1, k + 1)'
  BY <1>1, <1>3, <1>5 DEF AtPlace, chipVars,
       Undisturbed, Cleared, Powered, Configured, Calibration, Fresh, Settled, Digital, Analogue
<1>9. AtPlace("none", 1, k + 1)'
  BY <1>6, <1>7, <1>8 DEF AtPlace
<1>10. QED BY <1>4, <1>9, Arrived

LEMMA AdcPowerUpInv == Inv /\ AdcPowerUp => Inv'
<1> SUFFICES ASSUME Inv, AdcPowerUp PROVE Inv'
  OBVIOUS
<1>1. PICK call, j, k : AtPlace(call, j, k)
  BY DEF Inv
<1>2. /\ Types /\ Place(call, j, k) /\ todo = Remaining(call, j, k) /\ At("adc_powerUp")
      /\ NameAt(call, j, k) = "adc_powerUp"
  BY <1>1, AtName DEF Inv, AtPlace, AdcPowerUp
<1>3. UNCHANGED <<chipVars, adcHasPower, reading, tmpMode, tmpReg, phase, row, disturbed, calFailed>>
  BY DEF AdcPowerUp
<1>4. Types'
  BY <1>2, <1>3 DEF Types, chipVars
<1>5. call = "none" /\ k \in {17, 19, 24, 26} /\ j = 1
  BY <1>2 DEF Place, NameAt, NameIn
<1>6. adcHasPower <=> k \in {19, 26}
  BY <1>1, <1>5 DEF AtPlace, Flag
<1>7. Tail(todo) = Remaining("none", 1, k + 1)
  BY <1>2, <1>5, Here
<1>8. CASE k \in {19, 26}
  <2>1. Place("none", 1, k + 1) /\ todo' = Remaining("none", 1, k + 1)
    <3>1. adcHasPower
      BY <1>6, <1>8
    <3>2. todo' = Tail(todo)
      BY <3>1 DEF AdcPowerUp, Continue
    <3>3. QED BY <1>7, <1>8, <3>2 DEF Place
  <2>2. Flag("none", 1, k + 1)' /\ row' \in Rows(k + 1)
    BY <1>1, <1>3, <1>5, <1>8 DEF AtPlace, Flag, Rows
  <2>3. ~disturbed' /\ ~calFailed' => Undisturbed("none", 1, k + 1)'
    BY <1>1, <1>3, <1>5, <1>8 DEF AtPlace, chipVars,
         Undisturbed, Cleared, Powered, Configured, Calibration, Fresh, Settled, Digital, Analogue
  <2>4. AtPlace("none", 1, k + 1)'
    BY <2>1, <2>2, <2>3 DEF AtPlace
  <2>5. QED BY <1>4, <2>4, Arrived
<1>9. CASE k \in {17, 24}
  <2>1. Place("on", 1, k + 1) /\ todo' = Remaining("on", 1, k + 1)
    <3>1. todo' = SwitchOn \o Main(k + 1)
      <4>1. ~adcHasPower
        BY <1>6, <1>9
      <4>2. todo' = (PowerUp \o <<Op("adc_delay"), Op("powered_on")>>) \o Tail(todo)
        BY <4>1 DEF AdcPowerUp, Run
      <4>3. Tail(todo) = Main(k + 1)
        BY <1>7 DEF Remaining
      <4>4. QED BY <4>2, <4>3 DEF SwitchOn
    <3>2. SubSeq(SwitchOn, 1, 4) = SwitchOn /\ Len(SwitchOn) = 4
      BY Wholes
    <3>3. todo' = Remaining("on", 1, k + 1)
      BY <3>1, <3>2 DEF Remaining, Body
    <3>4. QED BY <1>9, <3>3 DEF Place
  <2>2. Flag("on", 1, k + 1)' /\ row' \in Rows(k + 1)
    BY <1>1, <1>3, <1>5, <1>6, <1>9 DEF AtPlace, Flag, Rows
  <2>3. ~disturbed' /\ ~calFailed' => Undisturbed("on", 1, k + 1)'
    BY <1>1, <1>3, <1>5, <1>9 DEF AtPlace, chipVars,
         Undisturbed, Cleared, Powered, Configured, Calibration, Fresh, Settled, Digital, Analogue
  <2>4. AtPlace("on", 1, k + 1)'
    BY <2>1, <2>2, <2>3 DEF AtPlace
  <2>5. QED BY <1>4, <2>4, Arrived
<1>10. QED BY <1>5, <1>8, <1>9

\* The quality of a conversion while the converter is configured.
LEMMA RightQuality ==
  ASSUME Types, NEW k \in 1..34, Configured(k), k >= 12
  PROVE  /\ Config(reg) = Wanted
         /\ calOf = Wanted => Quality = "right"
<1>1. /\ reg["GAIN"] = 0 /\ reg["CRS"] = 0 /\ reg["VLDO"] = 7 /\ reg["AVDDS"] = 1 /\ reg["CHS"] = 0
  BY DEF Configured
<1>2. \A field \in ConfigFields : reg[field] = Wanted[field]
  BY <1>1 DEF ConfigFields, Wanted
<1>3. Config(reg) = Wanted
  BY <1>2 DEF Config, Wanted
<1>4. QED BY <1>3 DEF Quality

LEMMA AdcDelayInv == Inv /\ AdcDelay => Inv'
<1> SUFFICES ASSUME Inv, AdcDelay PROVE Inv'
  OBVIOUS
<1>1. PICK call, j, k : AtPlace(call, j, k)
  BY DEF Inv
<1>2. /\ Types /\ Place(call, j, k) /\ todo = Remaining(call, j, k) /\ At("adc_delay") /\ Continue
      /\ NameAt(call, j, k) = "adc_delay"
  BY <1>1, AtName DEF Inv, AtPlace, AdcDelay
<1>3. UNCHANGED <<chipVars, adcHasPower, reading, tmpMode, tmpReg, phase, row, disturbed, calFailed>>
  BY DEF AdcDelay
<1>4. Types'
  BY <1>2, <1>3 DEF Types, chipVars
<1>5. call = "on" /\ j = 3 /\ k \in {18, 25}
  BY <1>2 DEF Place, NameAt, NameIn
<1>6. Place("on", 4, k) /\ todo' = Remaining("on", 4, k)
  BY <1>2, <1>5, Onward DEF Place
<1>7. Flag("on", 4, k)' /\ row' \in Rows(k)
  BY <1>1, <1>3, <1>5 DEF AtPlace, Flag
<1>8. ASSUME ~disturbed', ~calFailed' PROVE Undisturbed("on", 4, k)'
  <2>1. Undisturbed("on", 3, k)
    BY <1>1, <1>3, <1>5, <1>8 DEF AtPlace
  <2>2. /\ reg["RR"] = 0 /\ reg["OSCS"] = 0 /\ reg["PUD"] = 1 /\ reg["PUA"] = 1 /\ reg["CALS"] = 0
        /\ calOf = Wanted /\ Configured(k) /\ Calibration(k) /\ reading \in {"none", "right"}
    BY <1>5, <2>1 DEF Undisturbed, Cleared, Powered, Calibration, Digital, Analogue
  <2>3. conv = Quality /\ ready
    BY <2>2 DEF AdcDelay, Converting
  <2>4. conv = "right"
    BY <1>2, <1>5, <2>2, <2>3, RightQuality
  <2>5. Configured(k)' /\ Calibration(k)' /\ conv' = "right"
    BY <1>3, <2>2, <2>4 DEF chipVars, Configured, Calibration
  <2>6. QED BY <1>3, <1>5, <2>2, <2>5 DEF chipVars, Undisturbed, Cleared, Powered, Fresh, Digital, Analogue
<1>9. AtPlace("on", 4, k)'
  BY <1>6, <1>7, <1>8 DEF AtPlace
<1>10. QED BY <1>4, <1>9, Arrived

LEMMA PoweredOnInv == Inv /\ PoweredOn => Inv'
<1> SUFFICES ASSUME Inv, PoweredOn PROVE Inv'
  OBVIOUS
<1>1. PICK call, j, k : AtPlace(call, j, k)
  BY DEF Inv
<1>2. /\ Types /\ Place(call, j, k) /\ todo = Remaining(call, j, k) /\ At("powered_on") /\ Continue
      /\ NameAt(call, j, k) = "powered_on"
  BY <1>1, AtName DEF Inv, AtPlace, PoweredOn
<1>3. UNCHANGED <<chipVars, reading, tmpMode, tmpReg, phase, row, disturbed, calFailed>> /\ adcHasPower' = TRUE
  BY DEF PoweredOn
<1>4. Types'
  BY <1>2, <1>3 DEF Types, chipVars
<1>5. call = "on" /\ j = 4 /\ k \in {18, 25}
  BY <1>2 DEF Place, NameAt, NameIn
<1>6. Place("none", 1, k) /\ todo' = Remaining("none", 1, k)
  BY <1>2, <1>5, Onward DEF Place
<1>7. Flag("none", 1, k)' /\ row' \in Rows(k)
  BY <1>1, <1>3, <1>5 DEF AtPlace, Flag
<1>8. ~disturbed' /\ ~calFailed' => Undisturbed("none", 1, k)'
  BY <1>1, <1>3, <1>5 DEF AtPlace, chipVars,
       Undisturbed, Cleared, Powered, Configured, Calibration, Fresh, Settled, Digital, Analogue
<1>9. AtPlace("none", 1, k)'
  BY <1>6, <1>7, <1>8 DEF AtPlace
<1>10. QED BY <1>4, <1>9, Arrived

LEMMA GetReadingInv == Inv /\ GetReading => Inv'
<1> SUFFICES ASSUME Inv, GetReading PROVE Inv'
  OBVIOUS
<1>1. PICK call, j, k : AtPlace(call, j, k)
  BY DEF Inv
<1>2. /\ Types /\ Place(call, j, k) /\ todo = Remaining(call, j, k) /\ At("reading")
      /\ NameAt(call, j, k) = "reading"
  BY <1>1, AtName DEF Inv, AtPlace, GetReading
<1>3. UNCHANGED <<reg, calOf, adcHasPower, tmpMode, tmpReg, phase, row, calFailed>> /\ ready' = FALSE
  BY DEF GetReading
<1>4. call = "none" /\ j = 1 /\ k \in {18, 20, 27}
  BY <1>2 DEF Place, NameAt, NameIn
<1>5. faults' \in 0..MaxFaults /\ disturbed' \in BOOLEAN /\ (~disturbed' => ready /\ ~disturbed)
  <2>1. CASE ready /\ UNCHANGED <<faults, disturbed>>
    BY <1>2, <2>1 DEF Types
  <2>2. CASE Fails(1) /\ disturbed' = TRUE
    BY <1>2, <2>2, FaultBound DEF Fails, Types
  <2>3. QED BY <2>1, <2>2 DEF GetReading, Seen
<1>6. CASE conv = "none"
  <2>1. UNCHANGED <<todo, reading, conv>>
    BY <1>6 DEF GetReading
  <2>2. Types'
    BY <1>2, <1>3, <1>5, <2>1 DEF Types
  <2>3. todo' = Remaining("none", 1, k) /\ Place("none", 1, k)
    BY <1>2, <1>4, <2>1
  <2>4. Flag("none", 1, k)' /\ row' \in Rows(k)
    BY <1>1, <1>3, <1>4 DEF AtPlace, Flag
  <2>5. ~disturbed' /\ ~calFailed' => Undisturbed("none", 1, k)'
    BY <1>1, <1>3, <1>4, <1>5, <2>1 DEF AtPlace,
       Undisturbed, Cleared, Powered, Configured, Calibration, Fresh, Settled, Digital, Analogue
  <2>6. AtPlace("none", 1, k)'
    BY <2>3, <2>4, <2>5 DEF AtPlace
  <2>7. QED BY <2>2, <2>6, Arrived
<1>7. CASE conv # "none"
  <2>1. reading' = conv /\ conv' = "old" /\ Continue
    BY <1>7 DEF GetReading
  <2>2. Types'
    BY <1>2, <1>3, <1>5, <2>1 DEF Types, Qualities
  <2>3. Place("none", 1, k + 1) /\ todo' = Remaining("none", 1, k + 1)
    BY <1>2, <1>4, <2>1, Onward DEF Place
  <2>4. Flag("none", 1, k + 1)' /\ row' \in Rows(k + 1)
    BY <1>1, <1>3, <1>4 DEF AtPlace, Flag, Rows
  <2>5. ASSUME ~disturbed', ~calFailed' PROVE Undisturbed("none", 1, k + 1)'
    <3>1. Undisturbed("none", 1, k) /\ ready
      BY <1>1, <1>3, <1>4, <1>5, <2>5 DEF AtPlace
    <3>2. conv = "right"
      BY <1>4, <3>1 DEF Undisturbed, Fresh, Settled
    <3>3. QED BY <1>3, <1>4, <2>1, <3>1, <3>2
          DEF Undisturbed, Cleared, Powered, Configured, Calibration, Fresh, Settled, Digital, Analogue
  <2>6. AtPlace("none", 1, k + 1)'
    BY <2>3, <2>4, <2>5 DEF AtPlace
  <2>7. QED BY <2>2, <2>6, Arrived
<1>8. QED BY <1>6, <1>7

LEMMA GetReadingFailsInv == Inv /\ GetReadingFails => Inv'
<1> SUFFICES ASSUME Inv, GetReadingFails PROVE Inv'
  OBVIOUS
<1>1. PICK call, j, k : AtPlace(call, j, k)
  BY DEF Inv
<1>2. /\ UNCHANGED <<reg, calOf, conv, ready, todo, adcHasPower, reading, tmpMode, tmpReg, phase, row>>
      /\ disturbed' = TRUE
  BY DEF GetReadingFails
<1>3. Types'
  BY <1>2, FaultBound DEF Inv, Types, GetReadingFails, Fails
<1>4. AtPlace(call, j, k)'
  BY <1>1, <1>2 DEF AtPlace, Flag
<1>5. QED BY <1>3, <1>4, Arrived

\* The chip works on while the program does something else.
LEMMA ChipInv == Inv /\ Chip => Inv'
<1> SUFFICES ASSUME Inv, Chip PROVE Inv'
  OBVIOUS
<1>1. PICK call, j, k : AtPlace(call, j, k)
  BY DEF Inv
<1>2. UNCHANGED <<todo, adcHasPower, reading, tmpMode, tmpReg, phase, row, disturbed, calFailed>>
  BY DEF Chip
<1>3. Types /\ Place(call, j, k)
  BY <1>1 DEF Inv, AtPlace
<1>4. k \in 1..34
  BY <1>3 DEF Place
<1>5. todo' = Remaining(call, j, k) /\ Flag(call, j, k)' /\ row' \in Rows(k)
  BY <1>1, <1>2 DEF AtPlace, Flag
<1>6. ~disturbed' /\ ~calFailed' => Undisturbed(call, j, k)
  BY <1>1, <1>2 DEF AtPlace
<1>7. CASE Calibrate
  <2>1. /\ Converting(reg) /\ reg["CALS"] = 1 /\ calOf' \in {Config(reg), CalError} /\ reg' = [reg EXCEPT !["CALS"] = 0]
        /\ UNCHANGED <<conv, ready, faults>>
    BY <1>7 DEF Calibrate
  <2>2. reg \in [Fields -> 0..7] /\ Fields = {"RR", "PUD", "PUA", "OSCS", "AVDDS", "GAIN", "VLDO", "CRS", "CALS", "CHS"}
    BY <1>3, AllFields DEF Types
  <2>3. reg' \in [Fields -> 0..7] /\ reg'["CALS"] = 0 /\ \A f \in Fields : f # "CALS" => reg'[f] = reg[f]
    BY <2>1, <2>2
  <2>4. calOf' \in [ConfigFields -> 0..7]
    <3>1. Config(reg) \in [ConfigFields -> 0..7]
      BY <2>2, DefaultTypes DEF Config
    <3>2. QED BY <2>1, <3>1, DefaultTypes
  <2>5. Types'
    BY <1>2, <1>3, <2>1, <2>3, <2>4 DEF Types
  <2>6. ASSUME ~disturbed', ~calFailed' PROVE Undisturbed(call, j, k)'
    <3>1. Undisturbed(call, j, k)
      BY <1>6, <2>6
    <3>2. k <= 13
      BY <1>4, <2>1, <3>1 DEF Undisturbed, Calibration
    <3>3. Cleared(call, j, k)'
      <4>1. ~(call = "begin" /\ j = 2)
        <5>1. SUFFICES ASSUME call = "begin" /\ j = 2 PROVE FALSE
          OBVIOUS
        <5>2. reg["CALS"] = 0
          BY <2>2, <3>1, <5>1 DEF Undisturbed, Cleared, Default
        <5>3. QED BY <2>1, <5>2
      <4>2. QED BY <2>2, <2>3, <3>1, <4>1 DEF Undisturbed, Cleared
    <3>4. Powered(call, j, k)'
      BY <2>2, <2>3, <3>1 DEF Undisturbed, Powered
    <3>5. Configured(k)'
      BY <2>2, <2>3, <3>1 DEF Undisturbed, Configured
    <3>6. Calibration(k)'
      <4>1. CASE k = 13
        <5>1. Config(reg) = Wanted
          BY <1>3, <1>4, <3>1, <4>1, RightQuality DEF Undisturbed
        <5>2. QED BY <2>1, <4>1, <5>1 DEF Calibration
      <4>2. CASE k # 13
        BY <1>4, <3>2, <4>2 DEF Calibration
      <4>3. QED BY <4>1, <4>2
    <3>7. Fresh(call, j, k)' /\ reading' \in {"none", "right"}
      BY <1>2, <2>1, <3>1 DEF Undisturbed, Fresh
    <3>8. QED BY <3>3, <3>4, <3>5, <3>6, <3>7 DEF Undisturbed
  <2>7. AtPlace(call, j, k)'
    BY <1>3, <1>5, <2>6 DEF AtPlace
  <2>8. QED BY <2>5, <2>7, Arrived
<1>8. CASE Convert
  <2>1. /\ reg["CALS"] = 0 /\ conv' = Quality /\ ready' = TRUE /\ UNCHANGED <<reg, calOf, faults>>
    BY <1>8 DEF Convert
  <2>2. Quality \in Qualities
    BY DEF Quality, Qualities
  <2>3. Types'
    BY <1>2, <1>3, <2>1, <2>2 DEF Types
  <2>4. ASSUME ~disturbed', ~calFailed' PROVE Undisturbed(call, j, k)'
    <3>1. Undisturbed(call, j, k)
      BY <1>6, <2>4
    <3>2. /\ Cleared(call, j, k) /\ Powered(call, j, k) /\ Configured(k) /\ Calibration(k)
          /\ reading \in {"none", "right"}
      BY <3>1 DEF Undisturbed
    <3>3. /\ Cleared(call, j, k)' /\ Powered(call, j, k)' /\ Configured(k)' /\ Calibration(k)'
          /\ reading' \in {"none", "right"}
      BY <1>2, <2>1, <3>2 DEF Cleared, Powered, Configured, Calibration
    <3>4. Fresh(call, j, k)'
      <4>1. SUFFICES ASSUME Settled(call, j, k) PROVE conv' = "right"
        BY DEF Fresh
      <4>2. k >= 18
        BY <1>3, <4>1 DEF Settled, Place
      <4>3. calOf = Wanted
        BY <1>4, <3>2, <4>2 DEF Calibration
      <4>4. Quality = "right"
        BY <1>3, <1>4, <3>2, <4>2, <4>3, RightQuality
      <4>5. QED BY <2>1, <4>4
    <3>5. QED BY <3>3, <3>4 DEF Undisturbed
  <2>5. AtPlace(call, j, k)'
    BY <1>3, <1>5, <2>4 DEF AtPlace
  <2>6. QED BY <2>3, <2>5, Arrived
<1>9. QED BY <1>7, <1>8 DEF Chip

LEMMA TmpResetInv == Inv /\ TmpReset => Inv'
<1> SUFFICES ASSUME Inv, TmpReset PROVE Inv'
  OBVIOUS
<1>1. PICK call, j, k : AtPlace(call, j, k)
  BY DEF Inv
<1>2. /\ Types /\ Place(call, j, k) /\ todo = Remaining(call, j, k) /\ At("tmp_reset")
      /\ Run(<<Op("tmp_wait")>>) /\ NameAt(call, j, k) = "tmp_reset"
  BY <1>1, AtName DEF Inv, AtPlace, TmpReset
<1>3. UNCHANGED <<reg, calOf, conv, ready, adcHasPower, reading, tmpReg, phase, row, disturbed, calFailed>>
  BY DEF TmpReset
<1>4. Types'
  <2>1. CASE tmpMode' = "continuous" /\ UNCHANGED faults
    BY <1>2, <1>3, <2>1 DEF Types
  <2>2. CASE Fails(1) /\ tmpMode' \in {tmpMode, "continuous"}
    BY <1>2, <1>3, <2>2, FaultBound DEF Fails, Types
  <2>3. CASE Fails(2) /\ UNCHANGED tmpMode
    BY <1>2, <1>3, <2>3, FaultBound DEF Fails, Types
  <2>4. QED BY <2>1, <2>2, <2>3 DEF TmpReset
<1>5. call = "none" /\ k = 1 /\ j = 1
  BY <1>2 DEF Place, NameAt, NameIn
<1>6. Place("flags", 1, 2) /\ todo' = Remaining("flags", 1, 2)
  <2>1. Tail(todo) = Main(2)
    BY <1>2, <1>5, Here DEF Remaining
  <2>2. todo' = TmpFlags \o Main(2)
    BY <1>2, <2>1 DEF Run, TmpFlags
  <2>3. SubSeq(TmpFlags, 1, 1) = TmpFlags /\ Len(TmpFlags) = 1
    BY Wholes
  <2>4. todo' = Remaining("flags", 1, 2)
    BY <2>2, <2>3 DEF Remaining, Body
  <2>5. QED BY <2>4 DEF Place
<1>7. Flag("flags", 1, 2)' /\ row' \in Rows(2)
  BY <1>1, <1>3, <1>5 DEF AtPlace, Flag, Rows
<1>8. ~disturbed' /\ ~calFailed' => Undisturbed("flags", 1, 2)'
  BY <1>1, <1>3, <1>5 DEF AtPlace,
       Undisturbed, Cleared, Powered, Configured, Calibration, Fresh, Settled, Digital, Analogue
<1>9. AtPlace("flags", 1, 2)'
  BY <1>6, <1>7, <1>8 DEF AtPlace
<1>10. QED BY <1>4, <1>9, Arrived

LEMMA TmpWaitInv == Inv /\ TmpWait => Inv'
<1> SUFFICES ASSUME Inv, TmpWait PROVE Inv'
  OBVIOUS
<1>1. PICK call, j, k : AtPlace(call, j, k)
  BY DEF Inv
<1>2. /\ Types /\ Place(call, j, k) /\ todo = Remaining(call, j, k) /\ At("tmp_wait") /\ Continue
      /\ NameAt(call, j, k) = "tmp_wait"
  BY <1>1, AtName DEF Inv, AtPlace, TmpWait
<1>3. UNCHANGED <<reg, calOf, conv, ready, adcHasPower, reading, phase, row, disturbed, calFailed>>
  BY DEF TmpWait
<1>4. Types'
  <2>1. CASE tmpMode # "shutdown" /\ Measures /\ UNCHANGED faults
    BY <1>2, <1>3, <2>1 DEF Measures, Types
  <2>2. CASE Fails(1) /\ UNCHANGED <<tmpMode, tmpReg>>
    BY <1>2, <1>3, <2>2, FaultBound DEF Fails, Types
  <2>3. QED BY <2>1, <2>2 DEF TmpWait
<1>5. call = "flags" /\ k = 2 /\ j = 1
  BY <1>2 DEF Place, NameAt, NameIn
<1>6. Place("none", 1, 2) /\ todo' = Remaining("none", 1, 2)
  BY <1>2, <1>5, Onward DEF Place
<1>7. Flag("none", 1, 2)' /\ row' \in Rows(2)
  BY <1>1, <1>3, <1>5 DEF AtPlace, Flag
<1>8. ~disturbed' /\ ~calFailed' => Undisturbed("none", 1, 2)'
  BY <1>1, <1>3, <1>5 DEF AtPlace,
       Undisturbed, Cleared, Powered, Configured, Calibration, Fresh, Settled, Digital, Analogue
<1>9. AtPlace("none", 1, 2)'
  BY <1>6, <1>7, <1>8 DEF AtPlace
<1>10. QED BY <1>4, <1>9, Arrived

LEMMA TmpSetModeInv == Inv /\ TmpSetMode => Inv'
<1> SUFFICES ASSUME Inv, TmpSetMode PROVE Inv'
  OBVIOUS
<1>1. PICK call, j, k : AtPlace(call, j, k)
  BY DEF Inv
<1>2. /\ Types /\ Place(call, j, k) /\ todo = Remaining(call, j, k) /\ At("tmp_mode") /\ Continue
      /\ NameAt(call, j, k) = "tmp_mode"
  BY <1>1, AtName DEF Inv, AtPlace, TmpSetMode
<1>3. UNCHANGED <<reg, calOf, conv, ready, adcHasPower, reading, tmpReg, phase, row, disturbed, calFailed>>
  BY DEF TmpSetMode
<1>4. call = "none" /\ k \in {2, 4} /\ j = 1
  BY <1>2 DEF Place, NameAt, NameIn
<1>5. Head(todo)[2] \in {"continuous", "one_shot"}
  <2>1. Head(todo) = Setup[k] /\ k \in 1..25 /\ NameIn(k) = "tmp_mode"
    BY <1>2, <1>4, Here DEF OpAt, NameAt
  <2>2. QED BY <2>1, SetupPlaces
<1>6. Types'
  <2>1. CASE tmpMode' = Head(todo)[2] /\ UNCHANGED faults
    BY <1>2, <1>3, <1>5, <2>1 DEF Types
  <2>2. CASE Fails(1) /\ (tmpMode' = "continuous" \/ UNCHANGED tmpMode)
    BY <1>2, <1>3, <2>2, FaultBound DEF Fails, Types
  <2>3. QED BY <2>1, <2>2 DEF TmpSetMode
<1>7. Place("none", 1, k + 1) /\ todo' = Remaining("none", 1, k + 1)
  BY <1>2, <1>4, Onward DEF Place
<1>8. Flag("none", 1, k + 1)' /\ row' \in Rows(k + 1)
  BY <1>1, <1>3, <1>4 DEF AtPlace, Flag, Rows
<1>9. ~disturbed' /\ ~calFailed' => Undisturbed("none", 1, k + 1)'
  BY <1>1, <1>3, <1>4 DEF AtPlace,
       Undisturbed, Cleared, Powered, Configured, Calibration, Fresh, Settled, Digital, Analogue
<1>10. AtPlace("none", 1, k + 1)'
  BY <1>7, <1>8, <1>9 DEF AtPlace
<1>11. QED BY <1>6, <1>10, Arrived

LEMMA DelayInv == Inv /\ Delay => Inv'
<1> SUFFICES ASSUME Inv, Delay PROVE Inv'
  OBVIOUS
<1>1. PICK call, j, k : AtPlace(call, j, k)
  BY DEF Inv
<1>2. /\ Types /\ Place(call, j, k) /\ todo = Remaining(call, j, k) /\ At("delay") /\ Continue
      /\ NameAt(call, j, k) = "delay"
  BY <1>1, AtName DEF Inv, AtPlace, Delay
<1>3. UNCHANGED <<chipVars, adcHasPower, reading, phase, row, disturbed, calFailed>>
  BY DEF Delay
<1>4. Types'
  BY <1>2, <1>3 DEF Types, chipVars, Delay, Measures
<1>5. call = "none" /\ k \in {3, 5, 33} /\ j = 1
  BY <1>2 DEF Place, NameAt, NameIn
<1>6. Place("none", 1, k + 1) /\ todo' = Remaining("none", 1, k + 1)
  BY <1>2, <1>5, Onward DEF Place
<1>7. Flag("none", 1, k + 1)' /\ row' \in Rows(k + 1)
  <2>1. Flag("none", 1, k + 1)'
    BY <1>1, <1>3, <1>5 DEF AtPlace, Flag
  <2>2. Rows(k + 1) = Rows(k)
    BY <1>5 DEF Rows
  <2>3. QED BY <1>1, <1>3, <1>5, <2>1, <2>2 DEF AtPlace
<1>8. ~disturbed' /\ ~calFailed' => Undisturbed("none", 1, k + 1)'
  BY <1>1, <1>3, <1>5 DEF AtPlace, chipVars,
       Undisturbed, Cleared, Powered, Configured, Calibration, Fresh, Settled, Digital, Analogue
<1>9. AtPlace("none", 1, k + 1)'
  BY <1>6, <1>7, <1>8 DEF AtPlace
<1>10. QED BY <1>4, <1>9, Arrived

LEMMA LoopInv == Inv /\ Loop => Inv'
<1> SUFFICES ASSUME Inv, Loop PROVE Inv'
  OBVIOUS
<1>1. PICK call, j, k : AtPlace(call, j, k)
  BY DEF Inv
<1>2. /\ Types /\ Place(call, j, k) /\ todo = Remaining(call, j, k) /\ At("loop")
      /\ NameAt(call, j, k) = "loop"
  BY <1>1, AtName DEF Inv, AtPlace, Loop
<1>3. /\ UNCHANGED <<chipVars, adcHasPower, reading, tmpMode, tmpReg, disturbed, calFailed>>
      /\ phase' \in {"first", "later"} /\ row' = <<"time">> /\ todo' = Record
  BY DEF Loop
<1>4. Types'
  BY <1>2, <1>3 DEF Types, chipVars
<1>5. call = "none" /\ k \in {25, 34} /\ j = 1
  BY <1>2 DEF Place, NameAt, NameIn
<1>6. Place("none", 1, 26) /\ todo' = Remaining("none", 1, 26)
  <2>1. SubSeq(Record, 1, 9) = Record
    BY Wholes
  <2>2. QED BY <1>3, <2>1 DEF Place, Remaining, Main
<1>7. Flag("none", 1, 26)' /\ row' \in Rows(26)
  BY <1>1, <1>3, <1>5 DEF AtPlace, Flag, Rows
<1>8. ~disturbed' /\ ~calFailed' => Undisturbed("none", 1, 26)'
  BY <1>1, <1>3, <1>5 DEF AtPlace, chipVars,
       Undisturbed, Cleared, Powered, Configured, Calibration, Fresh, Settled, Digital, Analogue
<1>9. AtPlace("none", 1, 26)'
  BY <1>6, <1>7, <1>8 DEF AtPlace
<1>10. QED BY <1>4, <1>9, Arrived

\* The columns of a record follow each other.
Columns == {"time", "adc", "tmp", "degrees", "pressure", "humidity", "gas", "",
            "volts", "charge", "ohms", "ppm", "moisture", "end"}

LEMMA ColumnTypes ==
  /\ Start \in Seq(Columns) /\ Len(Start) = 3 /\ Later \in Seq(Columns) /\ Len(Later) = 6
  /\ \A columns \in Environment : columns \in Seq(Columns)
<1>1. Start \in Seq(Columns) /\ Len(Start) = 3
  BY DEF Start, Columns
<1>2. Later \in Seq(Columns) /\ Len(Later) = 6
  BY DEF Later, Columns
<1>3. <<"degrees", "pressure", "humidity", "gas">> \in Seq(Columns)
  BY DEF Columns
<1>4. <<"", "", "", "", "">> \in Seq(Columns)
  BY DEF Columns
<1>5. QED BY <1>1, <1>2, <1>3, <1>4 DEF Environment

LEMMA SecondColumn ==
  ASSUME NEW s \in Columns, NEW t \in Columns
  PROVE  <<s>> \o <<t>> = <<s, t>>
<1> DEFINE a == <<s>> \o <<t>>
           b == <<s, t>>
<1>1. a \in Seq(Columns) /\ b \in Seq(Columns) /\ Len(a) = 2 /\ Len(b) = 2
  OBVIOUS
<1>2. a[1] = s /\ a[2] = t /\ b[1] = s /\ b[2] = t
  OBVIOUS
<1>3. \A i \in 1..2 : a[i] = b[i]
  BY <1>2
<1> HIDE DEF a, b
<1>4. a = b
  BY <1>1, <1>3, SeqEqual
<1>5. QED BY <1>4 DEF a, b

LEMMA ThirdColumn ==
  ASSUME NEW s \in Columns, NEW t \in Columns, NEW u \in Columns
  PROVE  <<s, t>> \o <<u>> = <<s, t, u>>
<1> DEFINE a == <<s, t>> \o <<u>>
           b == <<s, t, u>>
<1>1. a \in Seq(Columns) /\ b \in Seq(Columns) /\ Len(a) = 3 /\ Len(b) = 3
  OBVIOUS
<1>2. a[1] = s /\ a[2] = t /\ a[3] = u
  OBVIOUS
<1>3. b[1] = s /\ b[2] = t /\ b[3] = u
  OBVIOUS
<1>4. \A i \in 1..3 : a[i] = b[i]
  BY <1>2, <1>3
<1> HIDE DEF a, b
<1>5. a = b
  BY <1>1, <1>4, SeqEqual
<1>6. QED BY <1>5 DEF a, b

LEMMA RowGrows ==
  /\ <<"time">> \o <<"adc">> = <<"time", "adc">>
  /\ <<"time", "adc">> \o <<"tmp">> = Start
  /\ \A s \in Seq(Columns) : s \o <<>> = s
<1>1. "time" \in Columns /\ "adc" \in Columns /\ "tmp" \in Columns
  BY DEF Columns
<1>2. <<"time">> \o <<"adc">> = <<"time", "adc">>
  BY <1>1, SecondColumn, Zenon
<1>3. <<"time", "adc">> \o <<"tmp">> = Start
  BY <1>1, ThirdColumn, Zenon DEF Start
<1>4. ASSUME NEW s \in Seq(Columns) PROVE s \o <<>> = s
  OBVIOUS
<1>5. QED BY <1>2, <1>3, <1>4

LEMMA FullRow ==
  ASSUME NEW k \in 32..34
  PROVE  Rows(k) = {Start \o columns \o Later : columns \in Environment}
<1>1. ~(k <= 25) /\ ~(k <= 28) /\ k # 29 /\ k # 30 /\ k # 31
  OBVIOUS
<1>2. QED BY <1>1, Zenon DEF Rows

LEMMA PrintsInv ==
  ASSUME Inv, NEW call, NEW j, NEW k, AtPlace(call, j, k), k \in 28..32, call = "none",
         NEW columns, Prints(columns), row \o columns \in Rows(k + 1)
  PROVE  Inv'
<1>1. Types /\ Place("none", j, k) /\ todo = Remaining("none", j, k) /\ Continue /\ j = 1
  BY DEF Inv, AtPlace, Place, Prints
<1>2. /\ UNCHANGED <<chipVars, adcHasPower, reading, tmpMode, tmpReg, phase, disturbed, calFailed>>
      /\ row' \in Rows(k + 1)
  BY DEF Prints
<1>3. Types'
  BY <1>1, <1>2 DEF Types, chipVars
<1>4. Place("none", 1, k + 1) /\ todo' = Remaining("none", 1, k + 1)
  BY <1>1, Onward DEF Place
<1>5. Flag("none", 1, k + 1)'
  BY <1>1, <1>2 DEF AtPlace, Flag
<1>6. ~disturbed' /\ ~calFailed' => Undisturbed("none", 1, k + 1)'
  BY <1>1, <1>2 DEF AtPlace, chipVars,
       Undisturbed, Cleared, Powered, Configured, Calibration, Fresh, Settled, Digital, Analogue
<1>7. AtPlace("none", 1, k + 1)'
  BY <1>2, <1>4, <1>5, <1>6 DEF AtPlace
<1>8. QED BY <1>3, <1>7, Arrived

LEMMA RowPrintsInv == Inv /\ RowPrints => Inv'
<1> SUFFICES ASSUME Inv, RowPrints PROVE Inv'
  OBVIOUS
<1>1. PICK call, j, k : AtPlace(call, j, k)
  BY DEF Inv
<1>2. Place(call, j, k) /\ todo = Remaining(call, j, k) /\ row \in Rows(k)
  BY <1>1 DEF AtPlace
<1>3. CASE At("adc") /\ Prints(<<"adc">>)
  <2>1. call = "none" /\ k = 28
    <3>1. NameAt(call, j, k) = "adc"
      BY <1>2, <1>3, AtName
    <3>2. QED BY <1>2, <3>1 DEF Place, NameAt, NameIn
  <2>2. row = <<"time">>
    BY <1>2, <2>1 DEF Rows
  <2>3. row \o <<"adc">> \in Rows(k + 1)
    BY <2>1, <2>2, RowGrows DEF Rows
  <2>4. QED BY <1>1, <1>3, <2>1, <2>3, PrintsInv
<1>4. CASE At("tmp") /\ Prints(<<"tmp">>)
  <2>1. call = "none" /\ k = 29
    <3>1. NameAt(call, j, k) = "tmp"
      BY <1>2, <1>4, AtName
    <3>2. QED BY <1>2, <3>1 DEF Place, NameAt, NameIn
  <2>2. row = <<"time", "adc">>
    BY <1>2, <2>1 DEF Rows
  <2>3. row \o <<"tmp">> \in Rows(k + 1)
    BY <2>1, <2>2, RowGrows DEF Rows
  <2>4. QED BY <1>1, <1>4, <2>1, <2>3, PrintsInv
<1>5. CASE EnvPrints
  <2>1. PICK columns \in Environment : Prints(columns)
    BY <1>5 DEF EnvPrints, Environment
  <2>2. call = "none" /\ k = 30
    <3>1. NameAt(call, j, k) = "env"
      BY <1>2, <1>5, AtName DEF EnvPrints
    <3>2. QED BY <1>2, <3>1 DEF Place, NameAt, NameIn
  <2>3. row = Start
    BY <1>2, <2>2 DEF Rows
  <2>4. row \o columns \in Rows(k + 1)
    BY <2>1, <2>2, <2>3 DEF Rows
  <2>5. QED BY <1>1, <2>1, <2>2, <2>4, PrintsInv
<1>6. CASE At("rest") /\ Prints(Later)
  <2>1. call = "none" /\ k = 31
    <3>1. NameAt(call, j, k) = "rest"
      BY <1>2, <1>6, AtName
    <3>2. QED BY <1>2, <3>1 DEF Place, NameAt, NameIn
  <2>2. PICK columns \in Environment : row = Start \o columns
    BY <1>2, <2>1 DEF Rows
  <2>3. row \o Later \in Rows(k + 1)
    BY <2>1, <2>2 DEF Rows
  <2>4. QED BY <1>1, <1>6, <2>1, <2>3, PrintsInv
<1>7. CASE At("flush") /\ Prints(<<>>)
  <2>1. call = "none" /\ k = 32
    <3>1. NameAt(call, j, k) = "flush"
      BY <1>2, <1>7, AtName
    <3>2. QED BY <1>2, <3>1 DEF Place, NameAt, NameIn
  <2>2. row \in Rows(33) /\ row \in Seq(Columns)
    <3> 32 \in 32..34 /\ 33 \in 32..34
      OBVIOUS
    <3>1. PICK columns \in Environment : row = Start \o columns \o Later
      BY <1>2, <2>1, FullRow, Zenon
    <3>2. row \in Seq(Columns)
      BY <3>1, ColumnTypes
    <3>3. Rows(33) = Rows(32)
      BY FullRow, Zenon
    <3>4. QED BY <1>2, <2>1, <3>2, <3>3
  <2>3. row \o <<>> = row /\ k + 1 = 33
    BY <2>1, <2>2, RowGrows
  <2>4. row \o <<>> \in Rows(k + 1)
    BY <2>2, <2>3
  <2>5. Prints(<<>>) /\ k \in 28..32
    BY <1>7, <2>1
  <2>6. QED BY <1>1, <2>1, <2>4, <2>5, PrintsInv
<1>8. QED BY <1>3, <1>4, <1>5, <1>6, <1>7 DEF RowPrints

LEMMA StutterInv == Inv /\ UNCHANGED vars => Inv'
<1> SUFFICES ASSUME Inv, UNCHANGED vars PROVE Inv'
  OBVIOUS
<1>1. PICK call, j, k : AtPlace(call, j, k)
  BY DEF Inv
<1>2. Types'
  BY DEF Inv, Types, vars, chipVars
<1>3. AtPlace(call, j, k)'
  BY <1>1 DEF AtPlace, Flag, vars, chipVars,
       Undisturbed, Cleared, Powered, Configured, Calibration, Fresh
<1>4. QED BY <1>2, <1>3, Arrived

LEMMA NextInv == Inv /\ [Next]_vars => Inv'
BY RegisterInv, BeginInv, CalibratedInv, PoweredOffInv, AdcPowerUpInv, AdcDelayInv, PoweredOnInv,
   GetReadingInv, GetReadingFailsInv, TmpResetInv, TmpWaitInv, TmpSetModeInv, DelayInv, LoopInv, RowPrintsInv,
   ChipInv, RestartInv, StutterInv
   DEF Next, Program, Adc

\* The place, and what each operation has left there, in every state.
LEMMA InvHolds == Spec => []Inv
<1>1. Init => Inv
  BY InitInv
<1>2. Inv /\ [Next]_vars => Inv'
  BY NextInv
<1>3. QED BY <1>1, <1>2, PTL DEF Spec

-----------------------------------------------------------------------------
(* The theorems *)

LEMMA EnvironmentLength ==
  ASSUME NEW columns \in Environment
  PROVE  \/ columns = <<"degrees", "pressure", "humidity", "gas">> /\ Len(columns) = 4
         \/ columns = <<"", "", "", "", "">> /\ Len(columns) = 5
<1>1. Len(<<"degrees", "pressure", "humidity", "gas">>) = 4 /\ Len(<<"", "", "", "", "">>) = 5
  OBVIOUS
<1>2. QED BY <1>1 DEF Environment

LEMMA RowLength == ASSUME NEW k \in 1..34, row \in Rows(k) PROVE Len(row) <= 14
<1>1. Len(<<>>) = 0 /\ Len(<<"time">>) = 1 /\ Len(<<"time", "adc">>) = 2 /\ Len(Start) = 3
  BY DEF Start
<1>2. CASE k <= 30
  <2>1. row = <<>> \/ row = <<"time">> \/ row = <<"time", "adc">> \/ row = Start
    BY <1>2 DEF Rows
  <2>2. PICK n \in 0..3 : Len(row) = n
    BY <1>1, <2>1
  <2>3. QED BY <2>2
<1>3. CASE k = 31
  <2>1. PICK columns \in Environment : row = Start \o columns
    BY <1>3 DEF Rows
  <2>2. columns \in Seq(Columns) /\ Start \in Seq(Columns)
    BY ColumnTypes
  <2>3. PICK n \in {4, 5} : Len(columns) = n
    BY EnvironmentLength
  <2>4. Len(row) = 3 + n
    <3>1. Concat(row, Start, columns)
      BY <2>1 DEF Concat
    <3>2. Len(row) = Len(Start) + Len(columns)
      BY <2>2, <3>1, ConcatSeq
    <3>3. QED BY <1>1, <2>3, <3>2
  <2>5. QED BY <2>3, <2>4
<1>4. CASE k > 31
  <2>1. PICK columns \in Environment : row = Start \o columns \o Later
    <3>1. k \in 32..34
      BY <1>4
    <3>2. QED BY <3>1, FullRow, Zenon
  <2>2. columns \in Seq(Columns)
    BY ColumnTypes
  <2>3. PICK n \in {4, 5} : Len(columns) = n
    BY EnvironmentLength
  <2>4. Len(row) = 9 + n
    <3>1. PICK a : Concat(a, Start, columns) /\ Concat(row, a, Later)
      BY <2>1 DEF Concat
    <3>2. a \in Seq(Columns) /\ Len(a) = Len(Start) + Len(columns)
      <4>1. Start \in Seq(Columns)
        BY ColumnTypes
      <4>2. Concat(a, Start, columns)
        BY <3>1
      <4>3. QED BY <2>2, <4>1, <4>2, ConcatSeq, ZenonT(20)
    <3>3. Len(Later) = 6 /\ Len(row) = Len(a) + Len(Later)
      <4>1. Later \in Seq(Columns) /\ Len(Later) = 6
        BY ColumnTypes
      <4>2. Len(row) = Len(a) + Len(Later)
        <5>1. Concat(row, a, Later)
          BY <3>1
        <5>2. QED BY <3>2, <4>1, <5>1, ConcatSeq, ZenonT(20)
      <4>3. QED BY <4>1, <4>2
    <3>4. QED BY <1>1, <2>3, <3>2, <3>3
  <2>5. QED BY <2>3, <2>4
<1>5. QED BY <1>2, <1>3, <1>4

\* In every life, after every failed access: a register field holds what fits in it, and
\* the row that loop() begins anew (MethaneFeather_RecorderV4.ino) never grows past one
\* record's columns, whichever way the environment sensor answers.
THEOREM RecordTypes == Spec => []TypeOK
<1>1. Inv => TypeOK
  <2>1. SUFFICES ASSUME Inv PROVE TypeOK
    OBVIOUS
  <2>2. PICK call, j, k : AtPlace(call, j, k)
    BY <2>1 DEF Inv
  <2>3. k \in 1..34 /\ row \in Rows(k)
    BY <2>2 DEF AtPlace, Place
  <2>4. Len(row) <= 14
    BY <2>3, RowLength
  <2>5. QED BY <2>1, <2>4 DEF Inv, Types, TypeOK
<1>2. QED BY <1>1, InvHolds, PTL

\* After a start whose accesses all succeed and whose two calibrations end well, for every
\* time at which the chip ends them and every content of its registers before: what is
\* recorded are conversions made since the last power-up, under the configuration of
\* adc_setup and calibrated for it.  setup() hears of a calibration that timed out or ended
\* with an error and goes on (adc_setup, adc_powerUp, adc_getReading, waitForCalibrateAFE).
THEOREM ReadingsRight == Spec => []ReadingRight
<1>1. Inv => ReadingRight
  <2>1. SUFFICES ASSUME Inv, ~disturbed, ~calFailed PROVE reading \in {"none", "right"}
    BY DEF ReadingRight
  <2>2. PICK call, j, k : AtPlace(call, j, k)
    BY <2>1 DEF Inv
  <2>3. QED BY <2>1, <2>2 DEF AtPlace, Undisturbed
<1>2. QED BY <1>1, InvHolds, PTL

=============================================================================
