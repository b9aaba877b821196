-------------------------- MODULE GpsReaderProofs --------------------------
(***************************************************************************)
(* What gps_process gets out of the receiver, for every length of the      *)
(* sentences, of the transfers and of the line and any number of lost      *)
(* transfers: sentences whole, in order, at most once, each with its own   *)
(* time.                                                                   *)
(*                                                                         *)
(* The cells of the stream are in order by sentence and place, and so are  *)
(* those that are on their way through buffer and line; fillers lie        *)
(* between.  A line that parse accepts begins with the first cell of its   *)
(* sentence, so that everything behind it is later than this cell, and the *)
(* next line that is accepted begins with the first cell of a later        *)
(* sentence.                                                               *)
(*                                                                         *)
(* For the losses the cells of a sentence are followed to where they are:  *)
(* as long as no transfer is lost they lie in line and buffer one behind   *)
(* the other, at the beginning of a line, with an end of line behind them. *)
(***************************************************************************)
EXTENDS GpsReader, FiniteSetTheorems, WellFoundedInduction, SequenceTheorems, TLAPS

-----------------------------------------------------------------------------
(* The stream: the cells of the sentences in their order *)

Chars    == {"text", "star", "CR", "LF"}
RealCell == (1..MaxSentences) \X (Nat \ {0}) \X Chars
Before(c, d) == c[1] < d[1] \/ (c[1] = d[1] /\ c[2] < d[2])
Upto(length, s) == UNION {{t} \X (1..length[t]) : t \in 1..s}

LEMMA UptoFinite ==
  ASSUME NEW length \in [1..MaxSentences -> Lengths], NEW s \in 0..MaxSentences
  PROVE  IsFiniteSet(Upto(length, s))
<1> DEFINE bad == {t \in Nat : t \in 0..MaxSentences /\ ~IsFiniteSet(Upto(length, t))}
<1>1. SUFFICES ASSUME bad # {} PROVE FALSE
  BY ReaderAssumption
<1>2. PICK t \in bad : \A u \in bad : ~(u < t)
  <2>1. IsWellFoundedOn(OpToRel(<, Nat), Nat) /\ bad \subseteq Nat
    BY NatLessThanWellFounded
  <2>2. PICK t \in bad : \A u \in bad : ~(<<u, t>> \in OpToRel(<, Nat))
    BY <1>1, <2>1, WFMin, Zenon
  <2>3. QED BY <2>2 DEF OpToRel
<1>3. t # 0
  <2>1. Upto(length, 0) = {}
    BY DEF Upto
  <2>2. QED BY <2>1, FS_EmptySet
<1>4. t \in 1..MaxSentences /\ t - 1 \in 0..MaxSentences /\ t - 1 \in Nat
  BY <1>3, ReaderAssumption
<1>5. IsFiniteSet(Upto(length, t - 1))
  BY <1>2, <1>4
<1>6. IsFiniteSet({t} \X (1..length[t]))
  <2>1. length[t] \in Int
    <3>1. length[t] \in Lengths
      BY <1>4
    <3>2. Lengths \subseteq Nat
      BY ReaderAssumption
    <3>3. length[t] \in Nat
      BY <3>1, <3>2
    <3>4. QED BY <3>3
  <2>2. IsFiniteSet(1..length[t])
    BY <2>1, FS_Interval
  <2>3. IsFiniteSet({t})
    BY FS_Singleton
  <2>4. QED BY <2>2, <2>3, FS_Product
<1>7. Upto(length, t) = Upto(length, t - 1) \cup ({t} \X (1..length[t]))
  BY <1>4 DEF Upto
<1>8. IsFiniteSet(Upto(length, t))
  <2>1. IsFiniteSet(Upto(length, t - 1) \cup ({t} \X (1..length[t])))
    BY <1>5, <1>6, FS_Union
  <2>2. QED BY <1>7, <2>1, Zenon
<1>9. QED
  BY <1>2, <1>8

LEMMA EndGrows ==
  ASSUME NEW length \in [1..MaxSentences -> Lengths],
         NEW s \in 0..MaxSentences, NEW t \in 0..MaxSentences, s <= t
  PROVE  /\ End(length, s) \in Nat /\ End(length, t) \in Nat
         /\ End(length, s) <= End(length, t)
         /\ End(length, 0) = 0
<1>1. Upto(length, s) \subseteq Upto(length, t) /\ Upto(length, 0) = {}
  BY ReaderAssumption DEF Upto
<1>2. QED
  BY <1>1, UptoFinite, FS_Subset, FS_EmptySet, FS_CardinalityType DEF End, Upto

\* Every cell of the stream belongs to a sentence.
LEMMA SentenceOf ==
  ASSUME NEW length \in [1..MaxSentences -> Lengths], NEW k \in 1..End(length, MaxSentences)
  PROVE  \E s \in 1..MaxSentences : End(length, s - 1) < k /\ k <= End(length, s)
<1> DEFINE there == {t \in Nat : t \in 0..MaxSentences /\ k <= End(length, t)}
<1>1. MaxSentences \in there /\ k \in Nat \ {0}
  <2>1. MaxSentences \in 0..MaxSentences /\ MaxSentences \in Nat
    BY ReaderAssumption
  <2>2. End(length, MaxSentences) \in Nat
    BY <2>1, EndGrows
  <2>3. QED BY <2>1, <2>2
<1>2. PICK s \in there : \A u \in there : ~(u < s)
  <2>1. IsWellFoundedOn(OpToRel(<, Nat), Nat) /\ there \subseteq Nat
    BY NatLessThanWellFounded
  <2>2. PICK s \in there : \A u \in there : ~(<<u, s>> \in OpToRel(<, Nat))
    BY <1>1, <2>1, WFMin, Zenon
  <2>3. QED BY <2>2 DEF OpToRel
<1>3. s # 0
  BY <1>1, EndGrows
<1>4. s \in 1..MaxSentences /\ s - 1 \in 0..MaxSentences /\ s - 1 \in Nat /\ s - 1 < s
  BY <1>3, ReaderAssumption
<1>5. ~(k <= End(length, s - 1)) /\ End(length, s - 1) \in Nat
  BY <1>2, <1>4, EndGrows
<1>6. End(length, s - 1) < k
  BY <1>1, <1>5
<1>7. QED
  BY <1>2, <1>4, <1>6

LEMMA StreamShape ==
  ASSUME NEW length \in [1..MaxSentences -> Lengths]
  PROVE  /\ StreamOf(length) \in Seq(RealCell)
         /\ \A j, k \in DOMAIN StreamOf(length) :
              j < k => Before(StreamOf(length)[j], StreamOf(length)[k])
<1> DEFINE N == End(length, MaxSentences)
           S(k) == CHOOSE t \in 1..MaxSentences : End(length, t - 1) < k /\ k <= End(length, t)
           text == StreamOf(length)
<1>1. N \in Nat /\ MaxSentences \in Nat
  BY EndGrows, ReaderAssumption
<1>2. text = [k \in 1..N |-> CellAt(S(k), k - End(length, S(k) - 1), length[S(k)])]
  BY DEF StreamOf
<1>3. ASSUME NEW k \in 1..N
      PROVE  /\ S(k) \in 1..MaxSentences /\ End(length, S(k) - 1) \in Nat
             /\ End(length, S(k) - 1) < k /\ k <= End(length, S(k))
  <2>1. S(k) \in 1..MaxSentences /\ End(length, S(k) - 1) < k /\ k <= End(length, S(k))
    BY SentenceOf, Zenon
  <2>2. S(k) - 1 \in 0..MaxSentences
    BY <1>1, <2>1
  <2> HIDE DEF S
  <2>3. QED BY <2>1, <2>2, EndGrows
<1> HIDE DEF S, N, text
<1>4. ASSUME NEW k \in 1..N
      PROVE  text[k] \in RealCell /\ text[k][1] = S(k) /\ text[k][2] = k - End(length, S(k) - 1)
  <2>1. text[k] = CellAt(S(k), k - End(length, S(k) - 1), length[S(k)])
    BY <1>2
  <2>2. k - End(length, S(k) - 1) \in Nat \ {0}
    BY <1>1, <1>3
  <2>3. CellAt(S(k), k - End(length, S(k) - 1), length[S(k)]) \in RealCell
    BY <1>3, <2>2 DEF CellAt, RealCell, Chars
  <2>4. QED
    BY <2>1, <2>3 DEF CellAt
<1>5. text \in Seq(RealCell) /\ DOMAIN text = 1..N
  <2>1. DOMAIN text = 1..N
    BY <1>2
  <2>2. text \in [1..N -> RealCell]
    BY <1>2, <1>4, <2>1
  <2>3. QED BY <1>1, <2>1, <2>2
<1>6. ASSUME NEW j \in 1..N, NEW k \in 1..N, j < k
      PROVE  Before(text[j], text[k])
  <2>1. CASE S(k) < S(j)
    <3>1. S(k) \in 0..MaxSentences /\ S(j) - 1 \in 0..MaxSentences /\ S(k) <= S(j) - 1
      BY <1>1, <1>3, <2>1
    <3>2. End(length, S(k)) <= End(length, S(j) - 1) /\ End(length, S(k)) \in Nat
      BY <3>1, EndGrows
    <3>3. k <= End(length, S(k)) /\ End(length, S(j) - 1) < j /\ End(length, S(j) - 1) \in Nat
      BY <1>3
    <3>4. j \in Nat /\ k \in Nat
      BY <1>1
    <3>5. QED BY <1>6, <3>2, <3>3, <3>4
  <2>2. CASE S(k) = S(j)
    <3>1. End(length, S(k) - 1) \in Nat /\ j \in Nat /\ k \in Nat
      BY <1>1, <1>3
    <3>2. j - End(length, S(k) - 1) < k - End(length, S(k) - 1)
      BY <1>6, <3>1
    <3>3. text[j][1] = text[k][1] /\ text[j][2] = j - End(length, S(k) - 1)
          /\ text[k][2] = k - End(length, S(k) - 1)
      BY <1>4, <2>2
    <3>4. QED BY <3>2, <3>3 DEF Before
  <2>3. CASE S(j) < S(k)
    BY <1>4, <2>3 DEF Before
  <2>4. QED
    BY <1>1, <1>3, <2>1, <2>2, <2>3
<1>7. QED
  BY <1>5, <1>6 DEF text

-----------------------------------------------------------------------------
(* The inductive invariant *)

\* The cells that the receiver has handed over.
Handed == {stream[k] : k \in 1..got}

Types ==
  /\ stream \in Seq(RealCell) /\ got \in 0..Len(stream)
  /\ lastChar \in Chars \cup {"none"}
  /\ buf \in Seq(Handed \cup {Filler}) /\ Len(buf) <= TransferSize
  /\ line \in Seq({c \in Handed : Char(c) # "LF"}) /\ Len(line) <= LineCap
  /\ received \in Seq(Handed \cup {Filler}) /\ Len(received) <= LineCap
  /\ {firstChar, sentTime, lastTime} \subseteq Handed \cup {Filler, NoTime}
  /\ parsed \in Seq(1..MaxSentences)
  /\ fails \in 0..MaxFails /\ drops \in Nat

\* Whose time firstChar and sentTime are.
Times ==
  /\ line = <<>> => firstChar = NoTime
  /\ line # <<>> => firstChar = line[1]
  /\ received # <<>> =>
       \/ sentTime = received[1]
       \/ Len(received) = 1 /\ Char(received[1]) = "LF"
  /\ TimeIsOwn

\* The cells go through the program in their order, and those that are on the way
\* come after the beginning of the sentence that was taken last.
LaterThanTaken(c) == parsed # <<>> => c[1] > Last(parsed) \/ (c[1] = Last(parsed) /\ c[2] > 1)
Order ==
  /\ \A j, k \in DOMAIN stream : j < k => Before(stream[j], stream[k])
  /\ \A j, k \in DOMAIN buf : j < k /\ buf[j] # Filler /\ buf[k] # Filler => Before(buf[j], buf[k])
  /\ \A j \in DOMAIN line, k \in DOMAIN buf : buf[k] # Filler => Before(line[j], buf[k])
  /\ \A j \in DOMAIN received, k \in DOMAIN buf :
       received[j] # Filler /\ buf[k] # Filler => Before(received[j], buf[k])
  /\ received # <<>> => line = <<>>
  /\ \A k \in DOMAIN stream : k > got => LaterThanTaken(stream[k])
  /\ \A c \in Range(buf) \cup Range(line) \cup Range(received) : c # Filler => LaterThanTaken(c)

Inv == Types /\ Times /\ Order

-----------------------------------------------------------------------------
(* Sequences and the two operators on sets of numbers *)

LEMMA SeqGrows ==
  ASSUME NEW A, NEW B, A \subseteq B, NEW s \in Seq(A)
  PROVE  s \in Seq(B)
<1>1. Len(s) \in Nat /\ s \in [1..Len(s) -> A]
  BY LenProperties
<1>2. s \in [1..Len(s) -> B]
  BY <1>1
<1>3. QED BY <1>1, <1>2

LEMMA MinOfTwo ==
  ASSUME NEW a \in Nat, NEW b \in Nat
  PROVE  Min({a, b}) \in Nat /\ Min({a, b}) <= a /\ Min({a, b}) <= b
<1>1. \E m \in {a, b} : \A y \in {a, b} : m <= y
  BY Z3
<1>2. Min({a, b}) \in {a, b} /\ \A y \in {a, b} : Min({a, b}) <= y
  BY <1>1 DEF Min
<1>3. QED BY <1>2

LEMMA MaxOfPlaces ==
  ASSUME NEW n \in Nat, NEW S \in SUBSET (0..n), S # {}
  PROVE  Max(S) \in S /\ \A x \in S : Max(S) >= x
<1> DEFINE above == {m \in Nat : \A x \in S : x <= m}
<1>1. n \in above
  OBVIOUS
<1>2. PICK m \in above : \A u \in above : ~(u < m)
  <2>1. IsWellFoundedOn(OpToRel(<, Nat), Nat) /\ above \subseteq Nat
    BY NatLessThanWellFounded
  <2>2. PICK m \in above : \A u \in above : ~(<<u, m>> \in OpToRel(<, Nat))
    BY <1>1, <2>1, WFMin, Zenon
  <2>3. QED BY <2>2 DEF OpToRel
<1>3. m \in S
  <2>1. SUFFICES ASSUME m \notin S PROVE FALSE
    OBVIOUS
  <2>2. PICK x \in S : TRUE
    OBVIOUS
  <2>3. m # 0
    BY <2>1, <2>2
  <2>4. m - 1 \in Nat /\ m - 1 < m
    BY <2>3
  <2>5. \A y \in S : y <= m - 1
    BY <2>1, <2>4
  <2>6. QED BY <1>2, <2>4, <2>5
<1>4. \A x \in S : m >= x
  OBVIOUS
<1>5. QED
  BY <1>3, <1>4 DEF Max

\* The transfer: what the program keeps of it is in order, and comes from what
\* the receiver hands over now.
RawOf(n) == [i \in 1..TransferSize |-> IF i <= n THEN stream[got + i] ELSE Filler]
KeptOf(n, at) == [j \in DOMAIN at |-> RawOf(n)[at[j]]]

LEMMA KeptInOrder ==
  ASSUME Types, NEW n \in Nat, n <= TransferSize, n <= Len(stream) - got,
         NEW at \in InOrder(Kept(RawOf(n)))
  PROVE  /\ KeptOf(n, at) \in Seq({stream[k] : k \in (got + 1)..(got + n)} \cup {Filler})
         /\ Len(KeptOf(n, at)) <= TransferSize
         /\ DOMAIN KeptOf(n, at) = 1..Len(KeptOf(n, at))
         /\ \A j \in DOMAIN KeptOf(n, at) : KeptOf(n, at)[j] # Filler =>
              at[j] \in 1..n /\ KeptOf(n, at)[j] = stream[got + at[j]]
         /\ \A j, k \in DOMAIN KeptOf(n, at) : j < k => at[j] < at[k]
<1> DEFINE places == Kept(RawOf(n))
           new == {stream[k] : k \in (got + 1)..(got + n)} \cup {Filler}
           m == Cardinality(places)
<1>1. places \subseteq 1..TransferSize /\ TransferSize \in Nat /\ TransferSize \in Int /\ 1 \in Int
  BY ReaderAssumption DEF Kept, RawOf
<1>2. m \in Nat /\ m <= TransferSize
  <2>1. IsFiniteSet(1..TransferSize) /\ Cardinality(1..TransferSize) = TransferSize
    BY <1>1, FS_Interval, ReaderAssumption
  <2>2. QED BY <1>1, <2>1, FS_Subset, FS_CardinalityType
<1> HIDE DEF m, places
<1>3. at \in [1..m -> places] /\ \A j, k \in 1..m : j < k => at[j] < at[k]
  BY DEF InOrder, m, places
<1>4. ASSUME NEW i \in 1..TransferSize
      PROVE  RawOf(n)[i] \in new /\ (RawOf(n)[i] # Filler => i \in 1..n /\ RawOf(n)[i] = stream[got + i])
  <2>1. RawOf(n)[i] = IF i <= n THEN stream[got + i] ELSE Filler
    BY DEF RawOf
  <2>2. CASE i <= n
    <3>1. got + i \in (got + 1)..(got + n) /\ i \in 1..n
      BY <1>1, <2>2 DEF Types
    <3>2. QED BY <2>1, <2>2, <3>1
  <2>3. CASE ~(i <= n)
    BY <2>1, <2>3
  <2>4. QED BY <2>2, <2>3
<1>5. KeptOf(n, at) = [j \in 1..m |-> RawOf(n)[at[j]]]
  BY <1>3 DEF KeptOf
<1>6. \A j \in 1..m : at[j] \in 1..TransferSize
  BY <1>1, <1>3
<1> HIDE DEF new
<1>7. KeptOf(n, at) \in [1..m -> new]
  BY <1>4, <1>5, <1>6
<1>8. KeptOf(n, at) \in Seq(new) /\ Len(KeptOf(n, at)) = m /\ DOMAIN KeptOf(n, at) = 1..m
  BY <1>2, <1>7
<1>9. QED
  BY <1>2, <1>3, <1>4, <1>5, <1>6, <1>8 DEF new

-----------------------------------------------------------------------------
(* Every step keeps the invariant *)

LEMMA InitInv == Init => Inv
<1> SUFFICES ASSUME Init PROVE Inv
  OBVIOUS
<1>1. PICK length \in [1..MaxSentences -> Lengths] : stream = StreamOf(length)
  BY DEF Init, Streams
<1>2. stream \in Seq(RealCell) /\ \A j, k \in DOMAIN stream : j < k => Before(stream[j], stream[k])
  BY <1>1, StreamShape
<1>3. Types
  <2>1. got \in 0..Len(stream)
    BY DEF Init
  <2>2. TransferSize \in Nat /\ LineCap \in Nat /\ MaxFails \in Nat
    BY ReaderAssumption
  <2>3. QED
    BY <1>2, <2>1, <2>2 DEF Init, Types
<1>4. Times
  BY DEF Init, Times, TimeIsOwn
<1>5. Order
  BY <1>2 DEF Init, Order, LaterThanTaken, Range
<1>6. QED
  BY <1>3, <1>4, <1>5 DEF Inv

\* What was handed over stays so when more is handed over.
LEMMA HandedGrows ==
  ASSUME Types, stream' = stream, got' \in Nat, got <= got'
  PROVE  Handed \subseteq Handed'
BY DEF Types, Handed

LEMMA HandedCells == Types => Handed \subseteq RealCell /\ Filler \notin RealCell
<1> SUFFICES ASSUME Types PROVE Handed \subseteq RealCell /\ Filler \notin RealCell
  OBVIOUS
<1>1. \A k \in 1..got : k \in 1..Len(stream)
  BY LenProperties DEF Types
<1>2. \A k \in 1..Len(stream) : stream[k] \in RealCell
  BY DEF Types
<1>3. Filler[1] \notin 1..MaxSentences
  BY DEF Filler
<1>4. QED
  BY <1>1, <1>2, <1>3 DEF Handed, RealCell

\* The parts of Types that a step keeps when it touches neither line nor history.
LEMMA TypesKept ==
  ASSUME Types, UNCHANGED <<stream, lineVars, parsed, lastTime>>, got' \in 0..Len(stream), got <= got'
  PROVE  /\ (stream \in Seq(RealCell) /\ got \in 0..Len(stream))'
         /\ (line \in Seq({c \in Handed : Char(c) # "LF"}) /\ Len(line) <= LineCap)'
         /\ (received \in Seq(Handed \cup {Filler}) /\ Len(received) <= LineCap)'
         /\ ({firstChar, sentTime, lastTime} \subseteq Handed \cup {Filler, NoTime})'
         /\ (parsed \in Seq(1..MaxSentences))'
<1>1. got' \in Nat /\ UNCHANGED <<stream, line, received, firstChar, sentTime, parsed, lastTime>>
  BY LenProperties DEF Types, lineVars
<1>2. Handed \subseteq Handed'
  BY <1>1, HandedGrows
<1>3. line \in Seq({c \in Handed' : Char(c) # "LF"})
  BY <1>2, SeqGrows DEF Types
<1>4. received \in Seq(Handed' \cup {Filler})
  BY <1>2, SeqGrows DEF Types
<1>5. QED
  BY <1>1, <1>2, <1>3, <1>4 DEF Types

LEMMA RefillInv == Inv /\ Refill => Inv'
<1> SUFFICES ASSUME Inv, Refill PROVE Inv'
  OBVIOUS
<1> USE DEF Inv
<1>1. buf = <<>> /\ received = <<>> /\ UNCHANGED <<stream, lineVars, parsed, lastTime, fails>>
  BY DEF Refill
<1>2. PICK n \in 0..Min({TransferSize, Len(stream) - got}) : \E at \in InOrder(Kept(RawOf(n))) :
        /\ got' = got + n
        /\ lastChar' = IF KeptOf(n, at) = <<>> THEN lastChar ELSE Char(Last(KeptOf(n, at)))
        /\ buf' = IF NothingRead(KeptOf(n, at)) THEN <<>> ELSE KeptOf(n, at)
        /\ drops' = IF NothingRead(KeptOf(n, at)) THEN drops + 1 ELSE drops
  BY Zenon DEF Refill, RawOf, KeptOf
<1>3. PICK at \in InOrder(Kept(RawOf(n))) :
        /\ got' = got + n
        /\ lastChar' = IF KeptOf(n, at) = <<>> THEN lastChar ELSE Char(Last(KeptOf(n, at)))
        /\ buf' = IF NothingRead(KeptOf(n, at)) THEN <<>> ELSE KeptOf(n, at)
        /\ drops' = IF NothingRead(KeptOf(n, at)) THEN drops + 1 ELSE drops
  BY <1>2
<1>4. n \in Nat /\ n <= TransferSize /\ n <= Len(stream) - got /\ got \in Nat /\ Len(stream) \in Nat
  <2>1. Len(stream) \in Nat /\ got \in Nat /\ Len(stream) - got \in Nat
    BY LenProperties DEF Types
  <2>2. QED BY <2>1, MinOfTwo, ReaderAssumption
<1>5. got' \in 0..Len(stream) /\ got <= got'
  BY <1>3, <1>4
<1> DEFINE kept == KeptOf(n, at)
           new  == {stream[k] : k \in (got + 1)..(got + n)} \cup {Filler}
<1>6. /\ kept \in Seq(new) /\ Len(kept) <= TransferSize
      /\ DOMAIN kept = 1..Len(kept)
      /\ \A j \in DOMAIN kept : kept[j] # Filler => at[j] \in 1..n /\ kept[j] = stream[got + at[j]]
      /\ \A j, k \in DOMAIN kept : j < k => at[j] < at[k]
  BY <1>4, KeptInOrder
<1>7. new \subseteq Handed' \cup {Filler} /\ \A c \in new : Char(c) \in Chars
  <2>1. \A k \in (got + 1)..(got + n) : k \in 1..got' /\ k \in 1..Len(stream)
    BY <1>3, <1>4
  <2>2. \A k \in 1..Len(stream) : Char(stream[k]) \in Chars
    BY SMTT(30) DEF Types, RealCell, Char
  <2>3. Char(Filler) \in Chars
    BY DEF Filler, Char, Chars
  <2>4. QED BY <1>1, <2>1, <2>2, <2>3 DEF Handed
<1> HIDE DEF kept, new
<1>8. Types'
  <2>1. kept \in Seq(Handed' \cup {Filler})
    BY <1>6, <1>7, SeqGrows
  <2>2. buf' \in Seq(Handed' \cup {Filler}) /\ Len(buf') <= TransferSize
    BY <1>3, <1>6, <2>1, ReaderAssumption DEF kept
  <2>3. lastChar' \in Chars \cup {"none"}
    <3>1. CASE kept = <<>>
      BY <1>3, <3>1 DEF Types, kept
    <3>2. CASE kept # <<>>
      <4>1. Last(kept) \in new
        BY <1>6, <3>2, LenProperties DEF Last
      <4>2. QED BY <1>3, <1>7, <3>2, <4>1 DEF kept
    <3>3. QED BY <3>1, <3>2
  <2>4. drops' \in Nat /\ fails' \in 0..MaxFails
    BY <1>1, <1>3 DEF Types
  <2>5. QED
    BY <1>1, <1>5, <2>2, <2>3, <2>4, TypesKept DEF Types
<1>9. Times'
  BY <1>1 DEF Times, TimeIsOwn, lineVars
<1>10. Order'
  <2>1. buf' = <<>> \/ buf' = kept
    BY <1>3 DEF kept
  <2>2. \A j \in DOMAIN kept : kept[j] # Filler => at[j] \in 1..n /\ got + at[j] \in DOMAIN stream
    BY <1>4, <1>6 DEF Types
  <2>3. \A j, k \in DOMAIN kept : j < k /\ kept[j] # Filler /\ kept[k] # Filler => Before(kept[j], kept[k])
    <3>1. SUFFICES ASSUME NEW j \in DOMAIN kept, NEW k \in DOMAIN kept, j < k,
                          kept[j] # Filler, kept[k] # Filler
                   PROVE  Before(kept[j], kept[k])
      OBVIOUS
    <3>2. at[j] < at[k] /\ at[j] \in 1..n /\ at[k] \in 1..n
      BY <1>6, <3>1
    <3>3. got + at[j] < got + at[k]
      BY <1>4, <3>2
    <3>4. QED
      BY <1>6, <2>2, <3>1, <3>3 DEF Order
  <2>4. \A j \in DOMAIN line, k \in DOMAIN kept : kept[k] # Filler => Before(line[j], kept[k])
    <3>1. SUFFICES ASSUME NEW j \in DOMAIN line, NEW k \in DOMAIN kept, kept[k] # Filler
                   PROVE  Before(line[j], kept[k])
      OBVIOUS
    <3>2. line[j] \in Handed
      BY DEF Types
    <3>3. PICK i \in 1..got : line[j] = stream[i]
      BY <3>2 DEF Handed
    <3>4. i \in DOMAIN stream /\ i < got + at[k] /\ got + at[k] \in DOMAIN stream
      BY <1>4, <1>6, <2>2, <3>1, SMTT(30) DEF Types
    <3>5. QED
      BY <1>6, <3>1, <3>3, <3>4 DEF Order
  <2>5. \A k \in DOMAIN kept : kept[k] # Filler => LaterThanTaken(kept[k])
    <3>1. SUFFICES ASSUME NEW k \in DOMAIN kept, kept[k] # Filler PROVE LaterThanTaken(kept[k])
      OBVIOUS
    <3>2. got + at[k] \in DOMAIN stream /\ got + at[k] > got
      BY <1>4, <1>6, <2>2, <3>1
    <3>3. QED BY <1>6, <3>1, <3>2 DEF Order
  <2>6. \A c : LaterThanTaken(c) <=> LaterThanTaken(c)'
    BY <1>1 DEF LaterThanTaken
  <2>7. UNCHANGED <<stream, line, received, parsed>> /\ received = <<>>
    BY <1>1 DEF lineVars
  <2>8. QED
    <3>1. CASE buf' = kept
      BY <1>4, <1>5, <2>3, <2>4, <2>5, <2>7, <3>1, SMTT(30) DEF Order, LaterThanTaken, Range, Types
    <3>2. CASE buf' = <<>>
      BY <1>4, <1>5, <2>7, <3>2 DEF Order, LaterThanTaken, Range, Types
    <3>3. QED BY <2>1, <3>1, <3>2
<1>11. QED
  BY <1>8, <1>9, <1>10

LEMMA RefillFailsInv == Inv /\ RefillFails => Inv'
<1> SUFFICES ASSUME Inv, RefillFails PROVE Inv'
  OBVIOUS
<1> USE DEF Inv
<1>1. /\ buf = <<>> /\ received = <<>> /\ fails < MaxFails /\ fails' = fails + 1
      /\ UNCHANGED <<stream, lastChar, buf, lineVars, parsed, lastTime, drops>>
      /\ got' \in (got + 1)..Min({got + TransferSize, Len(stream)})
  BY DEF RefillFails
<1>2. Len(stream) \in Nat /\ got \in Nat /\ got + TransferSize \in Nat
  BY LenProperties, ReaderAssumption DEF Types
<1>3. got' \in 0..Len(stream) /\ got <= got'
  BY <1>1, <1>2, MinOfTwo
<1>4. Types'
  <2>1. fails' \in 0..MaxFails
    BY <1>1, ReaderAssumption DEF Types
  <2>2. buf' \in Seq((Handed \cup {Filler})') /\ Len(buf') <= TransferSize
    BY <1>1, ReaderAssumption
  <2>3. QED
    BY <1>1, <1>3, <2>1, <2>2, TypesKept DEF Types
<1>5. Times'
  BY <1>1 DEF Times, TimeIsOwn, lineVars
<1>6. Order'
  <2>1. UNCHANGED <<stream, line, received, parsed, buf>>
    BY <1>1 DEF lineVars
  <2>2. QED
    BY <1>2, <1>3, <2>1 DEF Order, LaterThanTaken, Range
<1>7. QED
  BY <1>4, <1>5, <1>6

\* The character that is read next, and what is left of the buffer.
LEMMA HeadOfBuf ==
  ASSUME Types, buf # <<>>
  PROVE  /\ Len(buf) \in Nat \ {0} /\ DOMAIN buf = 1..Len(buf)
         /\ Head(buf) = buf[1] /\ buf[1] \in Handed \cup {Filler}
         /\ Tail(buf) \in Seq(Handed \cup {Filler}) /\ Len(Tail(buf)) = Len(buf) - 1
         /\ DOMAIN Tail(buf) = 1..(Len(buf) - 1)
         /\ \A k \in 1..(Len(buf) - 1) : Tail(buf)[k] = buf[k + 1]
BY HeadTailProperties, LenProperties DEF Types

LEMMA LineType ==
  ASSUME Types
  PROVE  /\ Len(line) \in Nat /\ DOMAIN line = 1..Len(line)
         /\ \A j \in DOMAIN line : line[j] \in Handed /\ Char(line[j]) # "LF"
         /\ line = <<>> <=> Len(line) = 0
         /\ \A j \in DOMAIN line : line[j] # Filler
<1>1. Len(line) \in Nat /\ DOMAIN line = 1..Len(line)
      /\ \A j \in DOMAIN line : line[j] \in Handed /\ Char(line[j]) # "LF"
  BY LenProperties DEF Types
<1>2. line = <<>> <=> Len(line) = 0
  BY EmptySeq DEF Types
<1>3. Char(Filler) = "LF"
  BY DEF Filler, Char
<1>4. QED BY <1>1, <1>2, <1>3

LEMMA TailInOrder ==
  ASSUME Types, Order, buf # <<>>
  PROVE  /\ \A j, k \in DOMAIN Tail(buf) :
              j < k /\ Tail(buf)[j] # Filler /\ Tail(buf)[k] # Filler => Before(Tail(buf)[j], Tail(buf)[k])
         /\ \A k \in DOMAIN Tail(buf) :
              Head(buf) # Filler /\ Tail(buf)[k] # Filler => Before(Head(buf), Tail(buf)[k])
         /\ \A j \in DOMAIN line, k \in DOMAIN Tail(buf) :
              Tail(buf)[k] # Filler => Before(line[j], Tail(buf)[k])
         /\ Range(Tail(buf)) \cup {Head(buf)} \subseteq Range(buf)
<1>1. /\ Len(buf) \in Nat \ {0} /\ DOMAIN buf = 1..Len(buf) /\ Head(buf) = buf[1]
      /\ DOMAIN Tail(buf) = 1..(Len(buf) - 1)
      /\ \A k \in 1..(Len(buf) - 1) : Tail(buf)[k] = buf[k + 1]
  BY HeadOfBuf
<1>2. \A k \in DOMAIN Tail(buf) :
        k + 1 \in DOMAIN buf /\ 1 \in DOMAIN buf /\ 1 < k + 1 /\ Tail(buf)[k] = buf[k + 1]
  BY <1>1
<1>3. ASSUME NEW j \in DOMAIN Tail(buf), NEW k \in DOMAIN Tail(buf), j < k,
             Tail(buf)[j] # Filler, Tail(buf)[k] # Filler
      PROVE  Before(Tail(buf)[j], Tail(buf)[k])
  <2>1. j + 1 \in DOMAIN buf /\ k + 1 \in DOMAIN buf /\ j + 1 < k + 1
    BY <1>1, <1>3
  <2>2. Tail(buf)[j] = buf[j + 1] /\ Tail(buf)[k] = buf[k + 1]
    BY <1>2
  <2>3. QED BY <1>3, <2>1, <2>2 DEF Order
<1>4. QED
  <2>1. Range(Tail(buf)) \cup {Head(buf)} \subseteq Range(buf)
    BY <1>1, <1>2 DEF Range
  <2>2. QED BY <1>1, <1>2, <1>3, <2>1 DEF Order

\* What Lengthened makes of the line.
LEMMA LineLonger ==
  ASSUME Types, NEW c \in Handed \cup {Filler}
  PROVE  /\ Lengthened(c) \in Seq(Handed \cup {Filler})
         /\ Char(c) # "LF" => Lengthened(c) \in Seq({d \in Handed : Char(d) # "LF"})
         /\ Len(Lengthened(c)) <= LineCap /\ DOMAIN Lengthened(c) = 1..Len(Lengthened(c))
         /\ Lengthened(c) # <<>>
         /\ \A j \in DOMAIN Lengthened(c) : Lengthened(c)[j] = c \/ (j \in DOMAIN line /\ Lengthened(c)[j] = line[j])
         /\ line # <<>> => Lengthened(c)[1] = line[1]
         /\ line = <<>> => Lengthened(c) = <<c>>
<1> DEFINE lineCells == {d \in Handed : Char(d) # "LF"}
<1>1. line \in Seq(lineCells) /\ line \in Seq(Handed \cup {Filler}) /\ Len(line) <= LineCap
      /\ LineCap \in Nat \ {0}
  BY SeqGrows, ReaderAssumption DEF Types
<1>2. Len(line) \in Nat /\ DOMAIN line = 1..Len(line) /\ (line = <<>> <=> Len(line) = 0)
  BY LineType
<1>3. CASE Len(line) < LineCap
  <2>1. Lengthened(c) = Append(line, c)
    BY <1>3 DEF Lengthened
  <2>2. /\ Append(line, c) \in Seq(Handed \cup {Filler})
        /\ Len(Append(line, c)) = Len(line) + 1
        /\ DOMAIN Append(line, c) = 1..(Len(line) + 1)
        /\ \A j \in 1..Len(line) : Append(line, c)[j] = line[j]
        /\ Append(line, c)[Len(line) + 1] = c
    BY <1>1, <1>2, AppendProperties
  <2>3. Char(c) # "LF" => Append(line, c) \in Seq(lineCells)
    <3>1. ASSUME Char(c) # "LF" PROVE c \in lineCells
      BY <3>1 DEF Filler, Char
    <3>2. QED BY <1>1, <3>1, AppendProperties
  <2>4. Append(<<>>, c) = <<c>>
    OBVIOUS
  <2>5. Append(line, c) # <<>>
    BY <1>2, <2>2
  <2> HIDE DEF lineCells
  <2>6. line # <<>> => Append(line, c)[1] = line[1]
    BY <1>2, <2>2
  <2>7. line = <<>> => Append(line, c) = <<c>>
    BY <2>4
  <2>8. Len(line) + 1 <= LineCap
    BY <1>1, <1>2, <1>3
  <2>9. \A j \in 1..(Len(line) + 1) : j = Len(line) + 1 \/ j \in 1..Len(line)
    BY <1>2
  <2>10. QED
    BY <1>2, <2>1, <2>2, <2>3, <2>5, <2>6, <2>7, <2>8, <2>9 DEF lineCells
<1>4. CASE ~(Len(line) < LineCap)
  <2>1. Lengthened(c) = line
    BY <1>4 DEF Lengthened
  <2>2. QED
    BY <1>1, <1>2, <1>4, <2>1
<1>5. QED
  BY <1>3, <1>4

LEMMA ReadCharInv == Inv /\ ReadChar => Inv'
<1> SUFFICES ASSUME Inv, ReadChar PROVE Inv'
  OBVIOUS
<1> USE DEF Inv
<1> DEFINE c == Head(buf)
<1>1. /\ buf # <<>> /\ received = <<>> /\ Char(c) # "LF"
      /\ buf' = Tail(buf) /\ line' = Lengthened(c)
      /\ firstChar' = IF firstChar = NoTime THEN c ELSE firstChar
      /\ UNCHANGED <<stream, got, lastChar, received, sentTime, parsed, lastTime, fails, drops>>
  BY DEF ReadChar, lossVars
<1>2. /\ Len(buf) \in Nat \ {0} /\ DOMAIN buf = 1..Len(buf)
      /\ c = buf[1] /\ c \in Handed /\ c # Filler
      /\ Tail(buf) \in Seq(Handed \cup {Filler}) /\ Len(Tail(buf)) = Len(buf) - 1
      /\ DOMAIN Tail(buf) = 1..(Len(buf) - 1)
      /\ \A k \in 1..(Len(buf) - 1) : Tail(buf)[k] = buf[k + 1]
  BY <1>1, HeadOfBuf DEF Filler, Char
<1> HIDE DEF c
<1>3. Handed' = Handed /\ TransferSize \in Nat
  BY <1>1, ReaderAssumption DEF Handed
<1>4. /\ Lengthened(c) \in Seq({d \in Handed : Char(d) # "LF"})
      /\ Len(Lengthened(c)) <= LineCap /\ Lengthened(c) # <<>>
      /\ \A j \in DOMAIN Lengthened(c) : Lengthened(c)[j] = c \/ (j \in DOMAIN line /\ Lengthened(c)[j] = line[j])
      /\ line # <<>> => Lengthened(c)[1] = line[1]
      /\ line = <<>> => Lengthened(c)[1] = c
  BY <1>1, <1>2, LineLonger, ReaderAssumption
<1>5. Types'
  <2>1. Len(buf) - 1 <= TransferSize
    BY <1>2, <1>3 DEF Types
  <2>2. firstChar' \in Handed \cup {Filler, NoTime}
    BY <1>1, <1>2 DEF Types
  <2>3. QED
    BY <1>1, <1>2, <1>3, <1>4, <2>1, <2>2 DEF Types
<1>6. Times'
  <2>1. firstChar' = line'[1]
    <3>1. CASE line = <<>>
      BY <1>1, <1>4, <3>1 DEF Times
    <3>2. CASE line # <<>>
      <4>1. line[1] \in Handed /\ firstChar = line[1]
        BY <3>2, LineType DEF Times
      <4>2. line[1] # NoTime
        BY <4>1, HandedCells DEF RealCell, NoTime
      <4>3. QED BY <1>1, <1>4, <3>2, <4>1, <4>2
    <3>3. QED BY <3>1, <3>2
  <2>2. QED
    BY <1>1, <1>4, <2>1 DEF Times, TimeIsOwn
<1>7. Order'
  <2>1. /\ \A j, k \in DOMAIN Tail(buf) :
             j < k /\ Tail(buf)[j] # Filler /\ Tail(buf)[k] # Filler => Before(Tail(buf)[j], Tail(buf)[k])
        /\ \A k \in DOMAIN Tail(buf) : c # Filler /\ Tail(buf)[k] # Filler => Before(c, Tail(buf)[k])
        /\ \A j \in DOMAIN line, k \in DOMAIN Tail(buf) :
             Tail(buf)[k] # Filler => Before(line[j], Tail(buf)[k])
        /\ \A d \in Range(Tail(buf)) \cup {c} : d \in Range(buf)
    BY <1>1, TailInOrder DEF c
  <2>3. \A j \in DOMAIN Lengthened(c), k \in DOMAIN Tail(buf) :
          Tail(buf)[k] # Filler => Before(Lengthened(c)[j], Tail(buf)[k])
    BY <1>2, <1>4, <2>1
  <2>5. \A d \in Range(Lengthened(c)) : d \in Range(buf) \/ d \in Range(line)
    BY <1>4, <2>1 DEF Range
  <2>6. \A d : LaterThanTaken(d) <=> LaterThanTaken(d)'
    BY <1>1 DEF LaterThanTaken
  <2>7. \A d \in Range(buf') \cup Range(line') \cup Range(received') : d # Filler => LaterThanTaken(d)'
    <3>1. \A d \in Range(buf) \cup Range(line) : d # Filler => LaterThanTaken(d)
      BY DEF Order
    <3>2. Range(received') = {}
      BY <1>1 DEF Range
    <3>3. QED BY <1>1, <2>1, <2>5, <2>6, <3>1, <3>2
  <2>8. \A k \in DOMAIN stream : k > got => LaterThanTaken(stream[k])'
    BY <1>1, <2>6 DEF Order, LaterThanTaken
  <2>9. QED
    BY <1>1, <2>1, <2>3, <2>7, <2>8 DEF Order, LaterThanTaken
<1>8. QED
  BY <1>5, <1>6, <1>7

LEMMA LineEndInv == Inv /\ LineEnd => Inv'
<1> SUFFICES ASSUME Inv, LineEnd PROVE Inv'
  OBVIOUS
<1> USE DEF Inv
<1> DEFINE c == Head(buf)
<1>1. /\ buf # <<>> /\ received = <<>> /\ Char(c) = "LF"
      /\ buf' = Tail(buf) /\ received' = Lengthened(c) /\ line' = <<>>
      /\ sentTime' = firstChar /\ firstChar' = NoTime
      /\ UNCHANGED <<stream, got, lastChar, parsed, lastTime, fails, drops>>
  BY DEF LineEnd, lossVars
<1>2. /\ Len(buf) \in Nat \ {0} /\ DOMAIN buf = 1..Len(buf)
      /\ c = buf[1] /\ c \in Handed \cup {Filler}
      /\ Tail(buf) \in Seq(Handed \cup {Filler}) /\ Len(Tail(buf)) = Len(buf) - 1
      /\ DOMAIN Tail(buf) = 1..(Len(buf) - 1)
      /\ \A k \in 1..(Len(buf) - 1) : Tail(buf)[k] = buf[k + 1]
  BY <1>1, HeadOfBuf
<1> HIDE DEF c
<1>3. Handed' = Handed /\ TransferSize \in Nat /\ LineCap \in Nat
  BY <1>1, ReaderAssumption DEF Handed
<1>4. /\ Lengthened(c) \in Seq(Handed \cup {Filler})
      /\ Len(Lengthened(c)) <= LineCap
      /\ \A j \in DOMAIN Lengthened(c) : Lengthened(c)[j] = c \/ (j \in DOMAIN line /\ Lengthened(c)[j] = line[j])
      /\ line # <<>> => Lengthened(c)[1] = line[1]
      /\ line = <<>> => Lengthened(c) = <<c>>
  BY <1>2, LineLonger, ReaderAssumption
<1>5. Types'
  <2>1. Len(buf) - 1 <= TransferSize
    BY <1>2, <1>3 DEF Types
  <2>2. line' \in Seq({d \in Handed : Char(d) # "LF"}) /\ Len(line') <= LineCap
    BY <1>1, <1>3
  <2>3. {firstChar', sentTime', lastTime'} \subseteq Handed \cup {Filler, NoTime}
    BY <1>1 DEF Types
  <2>4. QED
    BY <1>1, <1>2, <1>3, <1>4, <2>1, <2>2, <2>3 DEF Types
<1>6. Times'
  <2>1. sentTime' = received'[1] \/ (Len(received') = 1 /\ Char(received'[1]) = "LF")
    <3>1. CASE line = <<>>
      BY <1>1, <1>4, <3>1
    <3>2. CASE line # <<>>
      BY <1>1, <1>4, <3>2 DEF Times
    <3>3. QED BY <3>1, <3>2
  <2>2. QED
    BY <1>1, <2>1 DEF Times, TimeIsOwn
<1>7. Order'
  <2>1. /\ \A j, k \in DOMAIN Tail(buf) :
             j < k /\ Tail(buf)[j] # Filler /\ Tail(buf)[k] # Filler => Before(Tail(buf)[j], Tail(buf)[k])
        /\ \A k \in DOMAIN Tail(buf) : c # Filler /\ Tail(buf)[k] # Filler => Before(c, Tail(buf)[k])
        /\ \A j \in DOMAIN line, k \in DOMAIN Tail(buf) :
             Tail(buf)[k] # Filler => Before(line[j], Tail(buf)[k])
        /\ \A d \in Range(Tail(buf)) \cup {c} : d \in Range(buf)
    BY <1>1, TailInOrder DEF c
  <2>3. \A j \in DOMAIN Lengthened(c), k \in DOMAIN Tail(buf) :
          Lengthened(c)[j] # Filler /\ Tail(buf)[k] # Filler => Before(Lengthened(c)[j], Tail(buf)[k])
    BY <1>2, <1>4, <2>1
  <2>5. \A d \in Range(Lengthened(c)) : d \in Range(buf) \/ d \in Range(line)
    BY <1>4, <2>1 DEF Range
  <2>6. \A d : LaterThanTaken(d) <=> LaterThanTaken(d)'
    BY <1>1 DEF LaterThanTaken
  <2>7. \A d \in Range(buf') \cup Range(line') \cup Range(received') : d # Filler => LaterThanTaken(d)'
    <3>1. \A d \in Range(buf) \cup Range(line) : d # Filler => LaterThanTaken(d)
      BY DEF Order
    <3>2. Range(line') = {}
      BY <1>1 DEF Range
    <3>3. QED BY <1>1, <2>1, <2>5, <2>6, <3>1, <3>2
  <2>8. \A k \in DOMAIN stream : k > got => LaterThanTaken(stream[k])'
    BY <1>1, <2>6 DEF Order, LaterThanTaken
  <2>9. QED
    BY <1>1, <2>1, <2>3, <2>7, <2>8 DEF Order, LaterThanTaken
<1>8. QED
  BY <1>5, <1>6, <1>7

\* A line that parse accepts begins with the first cell of its sentence, and the
\* star of the sentence was handed over.
LEMMA ValidLine ==
  ASSUME Inv, NEW s \in 1..MaxSentences, received # <<>>, Valid(received, s)
  PROVE  /\ 1 \in DOMAIN received /\ received[1] \in Handed /\ received[1] # Filler
         /\ received[1][1] = s /\ received[1][2] = 1
         /\ sentTime = received[1]
         /\ HandedOver(s, "star")
<1> USE DEF Inv
<1>1. Len(received) \in Nat /\ DOMAIN received = 1..Len(received)
      /\ \A i \in 1..Len(received) : received[i] \in Handed \cup {Filler}
  BY LenProperties DEF Types
<1> DEFINE m == Max(Stars(received))
<1>2. Stars(received) \subseteq 1..Len(received) /\ Stars(received) # {}
  BY <1>1 DEF Stars, Valid
<1>3. m \in Stars(received)
  <2>1. Stars(received) \subseteq 0..Len(received)
    BY <1>1, <1>2
  <2>2. QED BY <1>1, <1>2, <2>1, MaxOfPlaces
<1>4. m \in 1..Len(received) /\ Char(received[m]) = "star"
  BY <1>1, <1>3 DEF Stars
<1>5. \A i \in 1..m : received[i][1] = s /\ received[i][2] = i
  BY DEF Valid
<1> HIDE DEF m
<1>6. 1 \in 1..m /\ m \in 1..m /\ 1 \in DOMAIN received
  BY <1>1, <1>4
<1>7. Filler[1] # s
  BY ReaderAssumption DEF Filler
<1>8. received[1] \in Handed /\ received[1] # Filler /\ received[m] \in Handed
  BY <1>1, <1>4, <1>5, <1>6, <1>7
<1>9. sentTime = received[1]
  <2>1. SUFFICES ASSUME Len(received) = 1, Char(received[1]) = "LF" PROVE FALSE
    BY DEF Times
  <2>2. m = 1
    BY <1>4, <2>1
  <2>3. QED BY <1>4, <2>1, <2>2
<1>10. HandedOver(s, "star")
  BY <1>4, <1>5, <1>6, <1>8 DEF Handed, HandedOver
<1>11. QED
  BY <1>5, <1>6, <1>8, <1>9, <1>10

LEMMA ParseInv == Inv /\ Parse => Inv'
<1> SUFFICES ASSUME Inv, Parse PROVE Inv'
  OBVIOUS
<1> USE DEF Inv
<1>1. /\ received # <<>> /\ received' = <<>> /\ line = <<>> /\ LineCap \in Nat
      /\ UNCHANGED <<stream, got, lastChar, buf, line, firstChar, sentTime, fails, drops>>
  BY ReaderAssumption DEF Parse, LastNMEA, Order, lossVars
<1>2. Handed' = Handed
  BY <1>1 DEF Handed
<1>3. CASE UNCHANGED <<parsed, lastTime>>
  <2>1. Types'
    BY <1>1, <1>2, <1>3 DEF Types
  <2>2. Times'
    BY <1>1, <1>3 DEF Times, TimeIsOwn
  <2>3. Order'
    BY <1>1, <1>3 DEF Order, LaterThanTaken, Range
  <2>4. QED BY <2>1, <2>2, <2>3
<1>4. CASE \E s \in 1..MaxSentences :
             Valid(received, s) /\ parsed' = Append(parsed, s) /\ lastTime' = sentTime
  <2>1. PICK s \in 1..MaxSentences :
               Valid(received, s) /\ parsed' = Append(parsed, s) /\ lastTime' = sentTime
    BY <1>4
  <2>2. /\ 1 \in DOMAIN received /\ received[1] \in Handed /\ received[1] # Filler
        /\ received[1][1] = s /\ received[1][2] = 1 /\ sentTime = received[1]
    BY <1>1, <2>1, ValidLine
  <2>3. parsed' \in Seq(1..MaxSentences) /\ Last(parsed') = s /\ parsed' # <<>>
    <3>1. Len(parsed) \in Nat /\ parsed \in Seq(1..MaxSentences)
      BY LenProperties DEF Types
    <3>2. QED BY <2>1, <3>1, AppendProperties DEF Last
  <2>4. Types'
    BY <1>1, <1>2, <2>1, <2>3 DEF Types
  <2>5. Times'
    BY <1>1, <2>1, <2>2, <2>3 DEF Times, TimeIsOwn
  <2>6. \A c : Before(received[1], c) => LaterThanTaken(c)'
    <3>1. s \in Nat
      BY ReaderAssumption
    <3>2. QED BY <2>2, <2>3, <3>1 DEF Before, LaterThanTaken
  <2>7. \A k \in DOMAIN stream : k > got => LaterThanTaken(stream[k])'
    <3>1. PICK i \in 1..got : received[1] = stream[i]
      BY <2>2 DEF Handed
    <3>2. i \in DOMAIN stream /\ \A k \in DOMAIN stream : k > got => i < k
      BY LenProperties DEF Types
    <3>3. \A k \in DOMAIN stream : k > got => Before(received[1], stream[k])
      BY <3>1, <3>2 DEF Order
    <3>4. QED BY <1>1, <2>6, <3>3
  <2>8. \A c \in Range(buf) : c # Filler => LaterThanTaken(c)'
    BY <2>2, <2>6 DEF Order, Range
  <2>9. Order'
    BY <1>1, <2>7, <2>8 DEF Order, Range
  <2>10. QED BY <2>4, <2>5, <2>9
<1>5. QED
  BY <1>3, <1>4 DEF Parse

LEMMA InvHolds == Spec => []Inv
<1>1. Inv /\ [Next]_vars => Inv'
  <2> SUFFICES ASSUME Inv, [Next]_vars PROVE Inv'
    OBVIOUS
  <2>1. CASE UNCHANGED vars
    BY <2>1 DEF vars, lineVars, lossVars, Inv, Types, Times, TimeIsOwn, Order, LaterThanTaken, Handed, Range
  <2>2. CASE Next
    BY <2>2, RefillInv, RefillFailsInv, ReadCharInv, LineEndInv, ParseInv DEF Next
  <2>3. QED
    BY <2>1, <2>2
<1>2. QED
  BY <1>1, InitInv, PTL DEF Spec

-----------------------------------------------------------------------------
(* Theorems *)

\* Neither the buffer of a transfer nor the line overflows, and nothing that was
\* not received gets into them (Adafruit_GPS.cpp:268-345).
THEOREM ReaderTypes == Spec => []TypeOK
<1>1. Inv => TypeOK
  <2> SUFFICES ASSUME Types PROVE TypeOK
    BY DEF Inv
  <2>1. Handed \cup {Filler} \subseteq Cells /\ Handed \cup {Filler, NoTime} \subseteq Cells
    BY LenProperties DEF Types, Handed, Cells, Range
  <2>2. Range(buf) \subseteq Cells /\ Range(received) \subseteq Cells
    BY <2>1, LenProperties DEF Types, Range
  <2>3. Range(line) \subseteq Cells
    BY <2>1, LineType DEF Range
  <2>4. Range(parsed) \subseteq 1..MaxSentences
    <3>1. parsed \in Seq(1..MaxSentences)
      BY DEF Types
    <3>2. \A k \in DOMAIN parsed : parsed[k] \in 1..MaxSentences
      BY <3>1, LenProperties
    <3>3. QED BY <3>2 DEF Range
  <2>5. QED
    BY <2>1, <2>2, <2>3, <2>4 DEF Types, TypeOK, Chars
<1>2. QED
  BY <1>1, InvHolds, PTL

\* The time of a parsed sentence is that of its own first character, wherever
\* lines and transfers are cut (Adafruit_GPS.cpp:336-371).
THEOREM OwnTime == Spec => []TimeIsOwn
<1>1. Inv => TimeIsOwn
  BY DEF Inv, Times
<1>2. QED
  BY <1>1, InvHolds, PTL

SentNow == {0} \cup {s \in 1..MaxSentences : HandedOver(s, "star")}

LEMMA SentMax ==
  /\ Max(SentNow) \in SentNow /\ Max(SentNow) \in Nat
  /\ \A s \in SentNow : s \in Nat /\ s <= Max(SentNow)
<1>1. MaxSentences \in Nat /\ SentNow \subseteq 0..MaxSentences /\ SentNow # {}
  BY ReaderAssumption DEF SentNow
<1>2. Max(SentNow) \in SentNow /\ \A s \in SentNow : Max(SentNow) >= s
  BY <1>1, MaxOfPlaces
<1>3. \A s \in SentNow : s \in Nat
  BY <1>1
<1> DEFINE m == Max(SentNow)
<1> HIDE DEF m, SentNow
<1>4. m \in SentNow /\ m \in Nat /\ \A s \in SentNow : m >= s
  BY <1>2, <1>3 DEF m
<1>5. \A s \in SentNow : s \in Nat /\ s <= m
  BY <1>3, <1>4
<1>6. QED
  BY <1>4, <1>5 DEF m

LEMMA SentSame ==
  ASSUME UNCHANGED <<stream, got>>
  PROVE  Max(SentNow)' = Max(SentNow)
BY DEF SentNow, HandedOver, Max

LEMMA SentGrows ==
  ASSUME Inv, Inv', stream' = stream, got <= got'
  PROVE  Max(SentNow) <= Max(SentNow)'
<1>1. SentNow \subseteq SentNow'
  <2>1. \A k \in 1..got : k \in 1..got'
    BY LenProperties DEF Inv, Types
  <2>2. QED
    BY <2>1 DEF SentNow, HandedOver
<1>2. Max(SentNow) \in SentNow'
  BY <1>1, SentMax
<1>3. (\A s \in SentNow : s \in Nat /\ s <= Max(SentNow))'
  BY SentMax, PTL
<1>4. QED
  BY <1>2, <1>3

\* A transfer or a character is a step of the receiver, a line that is accepted a
\* step that takes a later sentence, and no step takes one twice or out of order.
LEMMA ReaderStep == Inv /\ Inv' /\ [Next]_vars => [Sentences!Next]_(Sentences!vars)
<1> SUFFICES ASSUME Inv, Inv', [Next]_vars PROVE [Sentences!Next]_(Sentences!vars)
  OBVIOUS
<1> USE DEF Sentences!vars, Sentences!Next, Sentences!Send, Sentences!Take, Sentences!LastTaken
<1>1. ASSUME UNCHANGED <<stream, got, parsed>>
      PROVE  [Sentences!Next]_(Sentences!vars)
  <2>1. Max(SentNow)' = Max(SentNow)
    BY <1>1, SentSame
  <2>2. QED BY <1>1, <2>1 DEF SentNow
<1>2. ASSUME UNCHANGED <<stream, parsed>>, got <= got'
      PROVE  [Sentences!Next]_(Sentences!vars)
  <2>1. Max(SentNow) <= Max(SentNow)' /\ Max(SentNow) \in Nat
    BY <1>2, SentGrows, SentMax
  <2>2. QED BY <1>2, <2>1 DEF SentNow
<1>3. CASE UNCHANGED vars \/ ReadChar \/ LineEnd
  BY <1>1, <1>3 DEF vars, ReadChar, LineEnd
<1>4. CASE Refill \/ RefillFails
  <2>1. got <= got'
    <3>1. got \in Nat /\ got' \in Nat
      BY LenProperties DEF Inv, Types
    <3>2. CASE Refill
      <4>1. PICK n \in 0..Min({TransferSize, Len(stream) - got}) : got' = got + n
        BY <3>2 DEF Refill
      <4>2. QED BY <3>1, <4>1
    <3>3. CASE RefillFails
      BY <3>1, <3>3 DEF RefillFails
    <3>4. QED BY <1>4, <3>2, <3>3
  <2>2. QED
    BY <1>2, <1>4, <2>1 DEF Refill, RefillFails
<1>5. CASE Parse
  <2>1. UNCHANGED <<stream, got>> /\ received # <<>>
    BY <1>5 DEF Parse
  <2>2. CASE UNCHANGED parsed
    BY <1>1, <2>1, <2>2
  <2>3. CASE \E s \in 1..MaxSentences : Valid(received, s) /\ parsed' = Append(parsed, s)
    <3>1. PICK s \in 1..MaxSentences : Valid(received, s) /\ parsed' = Append(parsed, s)
      BY <2>3
    <3>2. /\ 1 \in DOMAIN received /\ received[1] # Filler
          /\ received[1][1] = s /\ received[1][2] = 1 /\ HandedOver(s, "star")
      BY <2>1, <3>1, ValidLine
    <3>3. s <= Max(SentNow) /\ s \in Nat /\ Max(SentNow) \in Nat
      BY <3>2, SentMax DEF SentNow
    <3>4. LaterThanTaken(received[1])
      BY <3>2 DEF Inv, Order, Range
    <3> DEFINE taken == IF parsed = <<>> THEN 0 ELSE parsed[Len(parsed)]
    <3>5. taken \in Nat /\ taken < s
      <4>1. CASE parsed = <<>>
        BY <4>1, ReaderAssumption
      <4>2. CASE parsed # <<>>
        <5>1. Last(parsed) \in Nat /\ taken = Last(parsed)
          <6>1. parsed \in Seq(1..MaxSentences) /\ MaxSentences \in Nat
            BY ReaderAssumption DEF Inv, Types
          <6>2. Len(parsed) \in 1..Len(parsed) /\ DOMAIN parsed = 1..Len(parsed)
            BY <4>2, <6>1, LenProperties, EmptySeq
          <6>3. parsed[Len(parsed)] \in 1..MaxSentences
            BY <6>1, <6>2
          <6>4. QED BY <4>2, <6>1, <6>3 DEF Last
        <5>2. QED
          BY <3>2, <3>3, <3>4, <4>2, <5>1 DEF LaterThanTaken
      <4>3. QED BY <4>1, <4>2
    <3> HIDE DEF taken
    <3>6. s \in (taken + 1)..Max(SentNow)
      BY <3>3, <3>5
    <3>7. Max(SentNow)' = Max(SentNow)
      BY <2>1, SentSame
    <3>8. QED
      BY <3>1, <3>6, <3>7 DEF taken, SentNow
  <2>4. QED
    BY <1>5, <2>2, <2>3 DEF Parse
<1>6. QED
  BY <1>3, <1>4, <1>5 DEF Next

\* The reader keeps the promise of SentenceStream.
THEOREM StreamImplemented == Spec => ImplementsStream
<1>1. Init => Sentences!Init
  BY SentMax DEF Init, Sentences!Init, SentNow
<1>2. QED
  BY <1>1, ReaderStep, InvHolds, PTL DEF Spec, ImplementsStream, Sentences!Spec

-----------------------------------------------------------------------------
(* Losses: the layout of the stream *)

\* Sentence s occupies the cells start[s] + 1 to start[s] + length[s].
Laid(length, start) ==
  /\ length \in [1..MaxSentences -> Lengths] /\ start \in [1..(MaxSentences + 1) -> Nat]
  /\ start[1] = 0 /\ Len(stream) = start[MaxSentences + 1]
  /\ \A s \in 1..MaxSentences : start[s + 1] = start[s] + length[s]
  /\ \A s \in 1..MaxSentences, t \in 1..(MaxSentences + 1) : s < t => start[s] + length[s] <= start[t]
  /\ \A s \in 1..MaxSentences : \A i \in 1..length[s] :
       stream[start[s] + i] = CellAt(s, i, length[s])
  /\ \A k \in 1..Len(stream) : \E s \in 1..MaxSentences : start[s] < k /\ k <= start[s] + length[s]

LEMMA LengthsFit ==
  ASSUME NEW length \in [1..MaxSentences -> Lengths], NEW s \in 1..MaxSentences
  PROVE  length[s] \in Nat /\ 4 <= length[s] /\ TransferSize < length[s] /\ length[s] <= LineCap
<1>1. PICK n \in Lengths : n = length[s]
  OBVIOUS
<1>2. n \in Nat \ 0..3 /\ TransferSize < n /\ n <= LineCap
  BY ReaderAssumption, FitAssumption
<1>3. n \in Nat /\ 4 <= n
  BY <1>2
<1>4. QED
  BY <1>1, <1>2, <1>3

LEMMA EndStep ==
  ASSUME NEW length \in [1..MaxSentences -> Lengths], NEW s \in 1..MaxSentences
  PROVE  End(length, s) = End(length, s - 1) + length[s]
<1>1. s - 1 \in 0..MaxSentences /\ s \in 0..MaxSentences /\ s \in Nat
  BY ReaderAssumption
<1> PICK n : n = length[s]
  OBVIOUS
<1>2. n \in Nat /\ n \in Int /\ 1 \in Int /\ n >= 1
  <2>1. n \in Nat /\ 4 <= n
    BY LengthsFit
  <2>2. QED BY <2>1
<1>3. IsFiniteSet(1..n) /\ Cardinality(1..n) = n
  BY <1>2, FS_Interval
<1>4. IsFiniteSet({s}) /\ Cardinality({s}) = 1
  BY FS_Singleton
<1> DEFINE own == {s} \X (1..n)
<1>5. IsFiniteSet(own) /\ Cardinality(own) = n
  <2>1. IsFiniteSet(own) /\ Cardinality(own) = Cardinality({s}) * Cardinality(1..n)
    BY <1>3, <1>4, FS_Product
  <2>2. QED BY <1>2, <1>3, <1>4, <2>1
<1>6. IsFiniteSet(Upto(length, s - 1))
  BY <1>1, UptoFinite
<1>7. Upto(length, s) = Upto(length, s - 1) \cup own
  BY <1>1 DEF Upto
<1>8. Upto(length, s - 1) \cap own = {}
  BY <1>1 DEF Upto
<1> HIDE DEF own
<1>9. Cardinality(Upto(length, s)) = Cardinality(Upto(length, s - 1)) + Cardinality(own) - Cardinality({})
  BY <1>5, <1>6, <1>7, <1>8, FS_Union
<1>10. Cardinality({}) = 0 /\ Cardinality(Upto(length, s - 1)) \in Nat
  BY <1>6, FS_EmptySet, FS_CardinalityType
<1>11. QED
  BY <1>2, <1>5, <1>9, <1>10 DEF End, Upto

LEMMA CellIs ==
  ASSUME NEW s, NEW i \in Nat, NEW n \in Nat, 4 <= n
  PROVE  /\ CellAt(s, i, n)[1] = s /\ CellAt(s, i, n)[2] = i
         /\ Char(CellAt(s, i, n)) = "LF" <=> i = n
         /\ Char(CellAt(s, i, n)) = "CR" <=> i = n - 1
         /\ Char(CellAt(s, i, n)) = "star" <=> i = n - 2
BY DEF CellAt, Char

LEMMA InitLaid == Init => \E length, start : Laid(length, start)
<1> SUFFICES ASSUME Init PROVE \E length, start : Laid(length, start)
  OBVIOUS
<1>1. PICK length \in [1..MaxSentences -> Lengths] : stream = StreamOf(length)
  BY DEF Init, Streams
<1> DEFINE start == [s \in 1..(MaxSentences + 1) |-> End(length, s - 1)]
           N == End(length, MaxSentences)
           S(k) == CHOOSE t \in 1..MaxSentences : End(length, t - 1) < k /\ k <= End(length, t)
<1>2. MaxSentences \in Nat /\ MaxSentences # 0
  BY ReaderAssumption
<1>3. ASSUME NEW s \in 1..(MaxSentences + 1)
      PROVE  start[s] = End(length, s - 1) /\ start[s] \in Nat
  <2>1. s - 1 \in 0..MaxSentences
    BY <1>2
  <2>2. QED BY <2>1, EndGrows
<1>4. ASSUME NEW s \in 1..MaxSentences
      PROVE  /\ start[s + 1] = End(length, s) /\ End(length, s) = start[s] + length[s]
             /\ start[s] \in Nat /\ length[s] \in Nat
  <2>1. s + 1 \in 1..(MaxSentences + 1) /\ s \in 1..(MaxSentences + 1) /\ (s + 1) - 1 = s
    BY <1>2
  <2>2. QED BY <1>3, <2>1, EndStep, LengthsFit
<1>5. ASSUME NEW s \in 1..MaxSentences, NEW t \in 1..(MaxSentences + 1), s < t
      PROVE  start[s] + length[s] <= start[t]
  <2>1. s \in 0..MaxSentences /\ t - 1 \in 0..MaxSentences /\ s <= t - 1
    BY <1>2, <1>5
  <2>2. End(length, s) <= End(length, t - 1)
    BY <2>1, EndGrows
  <2>3. QED BY <1>3, <1>4, <2>2
<1>6. N \in Nat /\ stream = [k \in 1..N |-> CellAt(S(k), k - End(length, S(k) - 1), length[S(k)])]
  <2>1. MaxSentences \in 0..MaxSentences
    BY <1>2
  <2>2. QED BY <1>1, <2>1, EndGrows DEF StreamOf
<1>7. Len(stream) = N /\ start[MaxSentences + 1] = N /\ start[1] = 0
  <2>1. Len(stream) = N
    BY <1>6
  <2>2. MaxSentences + 1 \in 1..(MaxSentences + 1) /\ 1 \in 1..(MaxSentences + 1) /\ 1 - 1 = 0
        /\ (MaxSentences + 1) - 1 = MaxSentences /\ 0 \in 0..MaxSentences
    BY <1>2
  <2>3. QED BY <1>3, <2>1, <2>2, EndGrows
<1>8. ASSUME NEW s \in 1..MaxSentences, NEW i \in 1..length[s]
      PROVE  stream[start[s] + i] = CellAt(s, i, length[s])
  <2> DEFINE k == start[s] + i
  <2>1. k \in 1..N
    <3>1. start[s] + length[s] <= start[MaxSentences + 1]
      <4>1. MaxSentences + 1 \in 1..(MaxSentences + 1) /\ s < MaxSentences + 1
        BY <1>2
      <4> HIDE DEF start
      <4>2. QED BY <1>5, <4>1
    <3>2. i \in Nat /\ 1 <= i /\ i <= length[s] /\ start[s] \in Nat /\ length[s] \in Nat
      BY <1>4, SMTT(30)
    <3> HIDE DEF start, N
    <3>3. N \in Nat /\ start[MaxSentences + 1] = N
      BY <1>6, <1>7
    <3>4. QED BY <3>1, <3>2, <3>3
  <2>2. S(k) \in 1..MaxSentences /\ End(length, S(k) - 1) < k /\ k <= End(length, S(k))
    BY <2>1, SentenceOf, Zenon
  <2> DEFINE u == S(k)
  <2> HIDE DEF S, N, start
  <2>3. u \in 1..MaxSentences /\ start[u] < k /\ k <= start[u] + length[u]
    BY <1>2, <1>3, <1>4, <2>2, SMTT(30)
  <2> HIDE DEF u
  <2>4. u = s
    <3>1. start[s] < k /\ k <= start[s] + length[s] /\ k \in Nat /\ start[s] \in Nat
          /\ start[u] \in Nat /\ length[u] \in Nat /\ length[s] \in Nat
      BY <1>4, <2>3
    <3> s \in 1..(MaxSentences + 1) /\ u \in 1..(MaxSentences + 1) /\ s \in Nat /\ u \in Nat
      BY <1>2, <2>3
    <3> HIDE DEF k
    <3>2. CASE u < s
      <4>1. start[u] + length[u] <= start[s]
        BY <1>5, <2>3, <3>2
      <4>2. QED BY <2>3, <3>1, <4>1
    <3>3. CASE s < u
      <4>1. start[s] + length[s] <= start[u]
        BY <1>5, <3>3
      <4>2. QED BY <2>3, <3>1, <4>1
    <3>4. QED BY <2>3, <3>2, <3>3
  <2>5. stream[k] = CellAt(u, k - End(length, u - 1), length[u])
    BY <1>6, <2>1 DEF u
  <2>6. End(length, u - 1) = start[s] /\ k - start[s] = i
    <3>1. s \in 1..(MaxSentences + 1)
      BY <1>2
    <3>2. QED BY <1>3, <1>4, <2>4, <3>1
  <2>7. QED BY <2>4, <2>5, <2>6
<1>9. ASSUME NEW k \in 1..Len(stream)
      PROVE  \E s \in 1..MaxSentences : start[s] < k /\ k <= start[s] + length[s]
  <2>1. PICK s \in 1..MaxSentences : End(length, s - 1) < k /\ k <= End(length, s)
    BY <1>7, SentenceOf
  <2>2. s \in 1..(MaxSentences + 1)
    BY <1>2
  <2>3. QED BY <1>3, <1>4, <2>1, <2>2
<1>10. start \in [1..(MaxSentences + 1) -> Nat]
  BY <1>3
<1> HIDE DEF start, N
<1>11. Laid(length, start)
  BY <1>4, <1>5, <1>7, <1>8, <1>9, <1>10 DEF Laid
<1>12. QED BY <1>11

-----------------------------------------------------------------------------
(* Losses: a sentence that nothing has damaged, on its way *)

\* Nothing stands before what comes next: the last line is complete.
Clean == IF buf = <<>> THEN line = <<>> ELSE Char(buf[Len(buf)]) = "LF"

\* The line of the sentence before is complete, or will be at its LF, when the
\* sentence that begins behind cell b has not begun.
Boundary(b) ==
  /\ got + 1 = b => lastChar = "CR" \/ Clean
  /\ got = b => Clean

\* The sentence behind cell b, of n cells, is in line and buf: its cell i is
\* buf[i + o], or in the line when there is no such place.  It begins a line, and
\* an LF follows its CR, its own or a filler.
Lying(b, n, s, o) ==
  /\ o \in Int
  /\ o > 0 => o <= Len(buf) /\ Char(buf[o]) = "LF"
  /\ o <= 0 => Len(line) = -o /\ -o < n /\ b - o <= got
  /\ \A i \in 1..(n - 1) : b + i <= got =>
       IF i + o >= 1 THEN i + o <= Len(buf) /\ buf[i + o] = CellAt(s, i, n)
                     ELSE line[i] = CellAt(s, i, n)
  /\ got + 1 < b + n => Len(buf) = got - b + o
  /\ got + 1 = b + n =>
       \/ Len(buf) = n - 1 + o /\ lastChar = "CR"
       \/ Len(buf) = n + o /\ n + o >= 1 /\ Char(buf[n + o]) = "LF"
  /\ got >= b + n => Len(buf) >= n + o /\ n + o >= 1 /\ Char(buf[n + o]) = "LF"

\* Once begun, it is there, in the last line, or parsed.
Flight(b, n, s) ==
  got > b =>
    \/ s \in Range(parsed)
    \/ received # <<>> /\ Valid(received, s) /\ got + 1 >= b + n
    \/ \E o \in Int : Lying(b, n, s, o)

LEMMA CleanRead ==
  ASSUME Types, buf # <<>>, buf' = Tail(buf), Char(Head(buf)) # "LF" \/ line' = <<>>, Clean
  PROVE  Clean'
<1>1. /\ Len(buf) \in Nat \ {0} /\ Head(buf) = buf[1] /\ Len(Tail(buf)) = Len(buf) - 1
      /\ \A k \in 1..(Len(buf) - 1) : Tail(buf)[k] = buf[k + 1]
      /\ Tail(buf) \in Seq(Handed \cup {Filler})
  BY HeadOfBuf
<1>2. Char(buf[Len(buf)]) = "LF"
  BY DEF Clean
<1>3. CASE Len(buf) = 1
  <2>1. Tail(buf) = <<>> /\ line' = <<>>
    BY <1>1, <1>2, <1>3, EmptySeq
  <2>2. QED BY <2>1 DEF Clean
<1>4. CASE Len(buf) # 1
  <2>1. Len(buf) - 1 \in 1..(Len(buf) - 1) /\ (Len(buf) - 1) + 1 = Len(buf)
    BY <1>1, <1>4
  <2>2. Tail(buf)[Len(buf) - 1] = buf[Len(buf)]
    BY <1>1, <2>1
  <2>3. Tail(buf) # <<>>
    BY <1>1, <2>1, SMTT(30)
  <2>4. QED BY <1>1, <1>2, <2>2, <2>3 DEF Clean
<1>5. QED
  BY <1>3, <1>4

LEMMA FilledLine ==
  ASSUME Types, NEW c, c \in Handed \cup {Filler}, Len(line) < LineCap
  PROVE  /\ Len(Lengthened(c)) = Len(line) + 1
         /\ \A j \in 1..Len(line) : Lengthened(c)[j] = line[j]
         /\ Lengthened(c)[Len(line) + 1] = c
         /\ Lengthened(c) # <<>> /\ DOMAIN Lengthened(c) = 1..(Len(line) + 1)
<1>1. Lengthened(c) = Append(line, c) /\ line \in Seq(Handed \cup {Filler}) /\ Len(line) \in Nat
  BY SeqGrows, LineType DEF Lengthened, Types
<1>2. /\ Len(Append(line, c)) = Len(line) + 1
      /\ DOMAIN Append(line, c) = 1..(Len(line) + 1)
      /\ \A j \in 1..Len(line) : Append(line, c)[j] = line[j]
      /\ Append(line, c)[Len(line) + 1] = c
  BY <1>1, AppendProperties
<1>3. Append(line, c) # <<>>
  BY <1>1, <1>2
<1>4. QED
  BY <1>1, <1>2, <1>3

\* The next character is the next cell of the sentence whose beginning is the
\* line, or its end.
LEMMA NextOfLine ==
  ASSUME Types, buf # <<>>, NEW b \in Nat, NEW n \in Nat, NEW s, 4 <= n,
         NEW o \in Int, Lying(b, n, s, o), o <= 0, got > b
  PROVE  IF Char(buf[1]) = "LF"
         THEN -o = n - 1 /\ got + 1 >= b + n
         ELSE 1 - o < n /\ b + (1 - o) <= got /\ buf[1] = CellAt(s, 1 - o, n)
<1>1. Len(buf) \in Nat \ {0} /\ got \in Nat
  BY HeadOfBuf, LenProperties DEF Types
<1>2. -o \in Nat /\ Len(line) = -o /\ -o < n /\ b - o <= got
  BY DEF Lying
<1>3. CASE 1 - o < n /\ b + (1 - o) <= got
  <2>1. 1 - o \in 1..(n - 1) /\ (1 - o) + o = 1 /\ 1 - o \in Nat /\ 1 - o # n
    BY <1>2, <1>3
  <2>2. buf[1] = CellAt(s, 1 - o, n)
    BY <1>3, <2>1 DEF Lying
  <2>3. Char(buf[1]) # "LF"
    BY <2>1, <2>2, CellIs
  <2>4. QED BY <1>3, <2>2, <2>3
<1>4. CASE ~(1 - o < n /\ b + (1 - o) <= got)
  <2>1. got + 1 >= b + n
    <3>1. SUFFICES ASSUME got + 1 < b + n PROVE FALSE
      BY <1>1
    <3>2. Len(buf) = got - b + o
      BY <3>1 DEF Lying
    <3>3. QED BY <1>1, <1>2, <1>4, <3>1, <3>2
  <2>2. -o = n - 1
    <3>1. CASE b + (1 - o) <= got
      BY <1>2, <1>4, <3>1
    <3>2. CASE ~(b + (1 - o) <= got)
      BY <1>1, <1>2, <2>1, <3>2
    <3>3. QED BY <3>1, <3>2
  <2>3. n + o = 1
    BY <2>2
  <2>4. Char(buf[1]) = "LF"
    <3>1. CASE got + 1 = b + n
      BY <1>1, <2>3, <3>1 DEF Lying
    <3>2. CASE got + 1 # b + n
      BY <1>1, <2>1, <2>3, <3>2 DEF Lying
    <3>3. QED BY <3>1, <3>2
  <2>5. QED BY <2>1, <2>2, <2>4
<1>5. QED
  BY <1>3, <1>4

\* Everything that is not in the line moves by one place when the next character
\* is taken.
LEMMA MovedUp ==
  ASSUME Types, buf # <<>>, buf' = Tail(buf), got' = got, lastChar' = lastChar,
         NEW b \in Nat, NEW n \in Nat, NEW s, 4 <= n, NEW o \in Int, Lying(b, n, s, o),
         o > 1 \/ (o = 1 /\ Len(line') = 0)
               \/ (o <= 0 /\ Len(line') = 1 - o /\ 1 - o < n /\ b + (1 - o) <= got
                   /\ \A i \in 1..(1 - o) : line'[i] = CellAt(s, i, n)),
         got > b, n + o > 1
  PROVE  Lying(b, n, s, o - 1)'
<1>1. /\ Len(buf) \in Nat \ {0} /\ Len(buf') = Len(buf) - 1
      /\ \A k \in 1..(Len(buf) - 1) : buf'[k] = buf[k + 1]
      /\ got \in Nat
  BY HeadOfBuf, LenProperties DEF Types
<1>2. \A k \in Int : k > 1 /\ k <= Len(buf) => buf'[k - 1] = buf[k]
  <2>1. SUFFICES ASSUME NEW k \in Int, k > 1, k <= Len(buf) PROVE buf'[k - 1] = buf[k]
    OBVIOUS
  <2>2. k - 1 \in 1..(Len(buf) - 1) /\ (k - 1) + 1 = k
    BY <1>1, <2>1
  <2>3. QED BY <1>1, <2>2
<1>3. o - 1 > 0 => o - 1 <= Len(buf') /\ Char(buf'[o - 1]) = "LF"
  <2>1. SUFFICES ASSUME o > 1 PROVE o - 1 <= Len(buf') /\ Char(buf'[o - 1]) = "LF"
    OBVIOUS
  <2>2. o <= Len(buf) /\ Char(buf[o]) = "LF"
    BY <2>1 DEF Lying
  <2>3. buf'[o - 1] = buf[o]
    BY <1>2, <2>1, <2>2
  <2>4. QED BY <1>1, <2>1, <2>2, <2>3
<1>4. o - 1 <= 0 => Len(line') = -(o - 1) /\ -(o - 1) < n /\ b - (o - 1) <= got
  BY <1>1
<1>5. ASSUME NEW i \in 1..(n - 1), b + i <= got
      PROVE  IF i + (o - 1) >= 1 THEN i + (o - 1) <= Len(buf') /\ buf'[i + (o - 1)] = CellAt(s, i, n)
                                 ELSE line'[i] = CellAt(s, i, n)
  <2>1. CASE i + (o - 1) >= 1
    <3>1. i + o <= Len(buf) /\ buf[i + o] = CellAt(s, i, n)
      BY <1>5, <2>1 DEF Lying
    <3>2. i + o \in Int /\ i + o > 1 /\ (i + o) - 1 = i + (o - 1)
      BY <2>1
    <3>3. buf'[i + (o - 1)] = buf[i + o]
      BY <1>2, <3>1, <3>2
    <3>4. QED BY <1>1, <2>1, <3>1, <3>3
  <2>2. CASE ~(i + (o - 1) >= 1)
    <3>1. i \in 1..(1 - o) /\ o <= 0
      BY <2>2
    <3>2. QED BY <2>2, <3>1
  <2>3. QED BY <2>1, <2>2
<1>6. got + 1 < b + n => Len(buf') = got - b + (o - 1)
  <2>1. got + 1 < b + n => Len(buf) = got - b + o
    BY DEF Lying
  <2>2. QED BY <1>1, <2>1
<1>7. ASSUME Len(buf) >= n + o, Char(buf[n + o]) = "LF"
      PROVE  Len(buf') >= n + (o - 1) /\ n + (o - 1) >= 1 /\ Char(buf'[n + (o - 1)]) = "LF"
  <2>1. n + o \in Int /\ (n + o) - 1 = n + (o - 1)
    OBVIOUS
  <2>2. buf'[n + (o - 1)] = buf[n + o]
    BY <1>2, <1>7, <2>1
  <2>3. QED BY <1>1, <1>7, <2>2
<1>8. got + 1 = b + n =>
        \/ Len(buf') = n - 1 + (o - 1) /\ lastChar' = "CR"
        \/ Len(buf') = n + (o - 1) /\ n + (o - 1) >= 1 /\ Char(buf'[n + (o - 1)]) = "LF"
  <2>1. got + 1 = b + n =>
          \/ Len(buf) = n - 1 + o /\ lastChar = "CR"
          \/ Len(buf) = n + o /\ Char(buf[n + o]) = "LF"
    BY DEF Lying
  <2>2. ASSUME Len(buf) = n + o PROVE Len(buf') = n + (o - 1) /\ Len(buf) >= n + o
    BY <1>1, <2>2
  <2>3. ASSUME Len(buf) = n - 1 + o PROVE Len(buf') = n - 1 + (o - 1)
    BY <1>1, <2>3
  <2>4. QED BY <1>7, <2>1, <2>2, <2>3
<1>9. got >= b + n =>
        Len(buf') >= n + (o - 1) /\ n + (o - 1) >= 1 /\ Char(buf'[n + (o - 1)]) = "LF"
  BY <1>7 DEF Lying
<1>10. o - 1 \in Int
  OBVIOUS
<1>11. QED
  BY <1>3, <1>4, <1>5, <1>6, <1>8, <1>9, <1>10 DEF Lying

LEMMA ReadCharFlight ==
  ASSUME Inv, ReadChar, NEW b \in Nat, NEW n \in Nat, NEW s, 4 <= n, n <= LineCap,
         Boundary(b), Flight(b, n, s)
  PROVE  Boundary(b)' /\ Flight(b, n, s)'
<1> DEFINE c == Head(buf)
<1>1. /\ buf # <<>> /\ received = <<>> /\ Char(c) # "LF" /\ buf' = Tail(buf)
      /\ line' = Lengthened(c) /\ UNCHANGED <<got, lastChar, received, parsed>>
  BY DEF ReadChar
<1>2. Types
  BY DEF Inv
<1>3. Len(buf) \in Nat \ {0} /\ c = buf[1] /\ c \in Handed \cup {Filler}
  BY <1>1, <1>2, HeadOfBuf
<1>4. Clean => Clean'
  BY <1>1, <1>2, CleanRead
<1>5. Boundary(b)'
  BY <1>1, <1>4 DEF Boundary
<1>6. ASSUME got > b, \E o \in Int : Lying(b, n, s, o)
      PROVE  Flight(b, n, s)'
  <2>1. PICK o \in Int : Lying(b, n, s, o)
    BY <1>6
  <2>2. CASE o > 1
    <3>1. Lying(b, n, s, o - 1)'
      BY <1>1, <1>2, <1>6, <2>1, <2>2, MovedUp
    <3>2. QED BY <3>1 DEF Flight
  <2>3. CASE o = 1
    BY <1>1, <1>3, <2>1, <2>3 DEF Lying
  <2>4. CASE o <= 0
    <3>1. 1 - o < n /\ b + (1 - o) <= got /\ c = CellAt(s, 1 - o, n)
      BY <1>1, <1>2, <1>3, <1>6, <2>1, <2>4, NextOfLine
    <3>2. Len(line) = -o /\ -o < LineCap
      <4>1. Len(line) = -o
        BY <2>1, <2>4 DEF Lying
      <4>2. LineCap \in Nat
        BY ReaderAssumption
      <4>3. QED BY <3>1, <4>1, <4>2
    <3>3. Len(line') = 1 - o /\ \A j \in 1..(-o) : line'[j] = line[j] /\ line'[1 - o] = c
      <4>1. /\ Len(Lengthened(c)) = Len(line) + 1
            /\ \A j \in 1..Len(line) : Lengthened(c)[j] = line[j]
            /\ Lengthened(c)[Len(line) + 1] = c
        BY <1>2, <1>3, <3>2, FilledLine
      <4>2. Len(line) + 1 = 1 - o
        BY <3>2
      <4>3. QED BY <1>1, <3>2, <4>1, <4>2
    <3>4. line'[1 - o] = c
      <4>1. /\ Lengthened(c)[Len(line) + 1] = c
        BY <1>2, <1>3, <3>2, FilledLine
      <4>2. Len(line) + 1 = 1 - o
        BY <3>2
      <4>3. QED BY <1>1, <4>1, <4>2
    <3>5. ASSUME NEW i \in 1..(1 - o) PROVE line'[i] = CellAt(s, i, n)
      <4>1. CASE i = 1 - o
        BY <3>1, <3>4, <4>1
      <4>2. CASE i # 1 - o
        <5>1. got \in Nat
          BY <1>2, LenProperties DEF Types
        <5>2. i \in 1..(-o) /\ i \in 1..(n - 1) /\ b + i <= got /\ ~(i + o >= 1)
          BY <2>4, <3>1, <4>2, <5>1
        <5>3. line[i] = CellAt(s, i, n)
          BY <2>1, <5>2 DEF Lying
        <5>4. QED BY <3>3, <5>2, <5>3
      <4>3. QED BY <4>1, <4>2
    <3>6. n + o > 1
      BY <3>1
    <3>7. Lying(b, n, s, o - 1)'
      BY <1>1, <1>2, <1>6, <2>1, <2>4, <3>1, <3>3, <3>5, <3>6, MovedUp
    <3>8. QED BY <3>7 DEF Flight
  <2>5. QED BY <2>2, <2>3, <2>4
<1>7. Flight(b, n, s)'
  <2>1. CASE got > b /\ s \in Range(parsed)
    BY <1>1, <2>1 DEF Flight
  <2>2. CASE ~(got > b)
    BY <1>1, <2>2 DEF Flight
  <2>3. QED BY <1>1, <1>6, <2>1, <2>2 DEF Flight
<1>8. QED
  BY <1>5, <1>7

LEMMA LineEndFlight ==
  ASSUME Inv, LineEnd, NEW b \in Nat, NEW n \in Nat, NEW s, 4 <= n, n <= LineCap,
         Boundary(b), Flight(b, n, s)
  PROVE  Boundary(b)' /\ Flight(b, n, s)'
<1> DEFINE c == Head(buf)
<1>1. /\ buf # <<>> /\ received = <<>> /\ Char(c) = "LF" /\ buf' = Tail(buf)
      /\ received' = Lengthened(c) /\ line' = <<>> /\ UNCHANGED <<got, lastChar, parsed>>
  BY DEF LineEnd
<1>2. Types
  BY DEF Inv
<1>3. Len(buf) \in Nat \ {0} /\ c = buf[1] /\ c \in Handed \cup {Filler}
  BY <1>1, <1>2, HeadOfBuf
<1>4. Clean => Clean'
  BY <1>1, <1>2, CleanRead
<1>5. Boundary(b)'
  BY <1>1, <1>4 DEF Boundary
<1>6. ASSUME got > b, \E o \in Int : Lying(b, n, s, o)
      PROVE  Flight(b, n, s)'
  <2>1. PICK o \in Int : Lying(b, n, s, o)
    BY <1>6
  <2>2. CASE o >= 1
    <3>1. Len(line') = 0 /\ n + o > 1 /\ (o > 1 \/ o = 1)
      BY <1>1, <2>2
    <3>2. Lying(b, n, s, o - 1)'
      BY <1>1, <1>2, <1>6, <2>1, <2>2, <3>1, MovedUp
    <3>3. QED BY <3>2 DEF Flight
  <2>3. CASE o <= 0
    <3>1. -o = n - 1 /\ got + 1 >= b + n
      BY <1>1, <1>2, <1>3, <1>6, <2>1, <2>3, NextOfLine
    <3>2. Len(line) = n - 1 /\ Len(line) < LineCap
      <4>1. Len(line) = -o
        BY <2>1, <2>3 DEF Lying
      <4>2. LineCap \in Nat
        BY ReaderAssumption
      <4>3. QED BY <3>1, <4>1, <4>2
    <3>3. /\ \A j \in 1..(n - 1) : received'[j] = line[j]
          /\ received'[n] = c /\ received' # <<>> /\ DOMAIN received' = 1..n
      <4>1. /\ \A j \in 1..Len(line) : Lengthened(c)[j] = line[j]
            /\ Lengthened(c)[Len(line) + 1] = c
            /\ Lengthened(c) # <<>> /\ DOMAIN Lengthened(c) = 1..(Len(line) + 1)
        BY <1>2, <1>3, <3>2, FilledLine
      <4>2. Len(line) + 1 = n
        BY <3>2
      <4>3. QED BY <1>1, <3>2, <4>1, <4>2
    <3>4. ASSUME NEW i \in 1..(n - 1) PROVE received'[i] = CellAt(s, i, n)
      <4>1. got \in Nat
        BY <1>2, LenProperties DEF Types
      <4>2. b + i <= got /\ ~(i + o >= 1)
        BY <3>1, <4>1
      <4>3. line[i] = CellAt(s, i, n)
        BY <2>1, <4>2 DEF Lying
      <4>4. QED BY <3>3, <4>3
    <3>5. Valid(received', s)
      <4> DEFINE stars == Stars(received')
      <4>1. stars \subseteq 1..(n - 1)
        <5>1. n \notin stars
          BY <1>1, <3>3 DEF Stars
        <5>2. stars \subseteq 1..n
          BY <3>3 DEF Stars
        <5>3. \A i \in 1..n : i = n \/ i \in 1..(n - 1)
          OBVIOUS
        <5>4. QED BY <5>1, <5>2, <5>3
      <4>2. stars # {}
        <5>1. n - 2 \in 1..(n - 1) /\ n - 2 \in Nat /\ n - 2 \in 1..n
          OBVIOUS
        <5>2. Char(CellAt(s, n - 2, n)) = "star"
          BY <5>1, CellIs
        <5>3. Char(received'[n - 2]) = "star"
          BY <3>4, <5>1, <5>2
        <5>4. QED BY <3>3, <5>1, <5>3 DEF Stars
      <4>3. Max(stars) \in stars
        <5>1. stars \in SUBSET (0..n)
          BY <4>1
        <5>2. QED BY <4>2, <5>1, MaxOfPlaces
      <4> DEFINE m == Max(stars)
      <4>4. m \in 1..(n - 1)
        BY <4>1, <4>3
      <4> HIDE DEF m, stars
      <4>5. \A i \in 1..m : i \in 1..(n - 1) /\ i \in Nat
        BY <4>4
      <4>6. \A i \in 1..m : received'[i][1] = s /\ received'[i][2] = i
        BY <3>4, <4>5, CellIs
      <4>7. QED BY <4>2, <4>6 DEF Valid, m, stars
    <3>6. QED BY <1>1, <3>1, <3>3, <3>5 DEF Flight, Valid, Stars
  <2>4. QED BY <2>2, <2>3
<1>7. Flight(b, n, s)'
  <2>1. CASE got > b /\ s \in Range(parsed)
    BY <1>1, <2>1 DEF Flight
  <2>2. CASE ~(got > b)
    BY <1>1, <2>2 DEF Flight
  <2>3. QED BY <1>1, <1>6, <2>1, <2>2 DEF Flight
<1>8. QED
  BY <1>5, <1>7

LEMMA ParseFlight ==
  ASSUME Inv, Parse, NEW b \in Nat, NEW n \in Nat, NEW s \in 1..MaxSentences,
         Boundary(b), Flight(b, n, s)
  PROVE  Boundary(b)' /\ Flight(b, n, s)'
<1>1. received # <<>> /\ UNCHANGED <<got, lastChar, buf, line>>
  BY DEF Parse
<1>2. Boundary(b)'
  BY <1>1 DEF Boundary, Clean
<1>3. \A o : Lying(b, n, s, o) => Lying(b, n, s, o)'
  BY <1>1 DEF Lying
<1>4. CASE \E t \in 1..MaxSentences : Valid(received, t) /\ parsed' = Append(parsed, t)
  <2>1. PICK t \in 1..MaxSentences : Valid(received, t) /\ parsed' = Append(parsed, t)
    BY <1>4
  <2>2. Range(parsed') = Range(parsed) \cup {t}
    <3>1. parsed \in Seq(1..MaxSentences)
      BY DEF Inv, Types
    <3>2. QED BY <2>1, <3>1 DEF Range
  <2>3. Valid(received, s) => s = t
    <3>1. received[1][1] = t
      BY <1>1, <2>1, ValidLine
    <3>2. Valid(received, s) => received[1][1] = s
      BY <1>1, ValidLine
    <3>3. QED BY <3>1, <3>2
  <2>4. QED
    BY <1>1, <1>2, <1>3, <2>2, <2>3 DEF Flight
<1>5. CASE (\A t \in 1..MaxSentences : ~Valid(received, t)) /\ UNCHANGED parsed
  BY <1>1, <1>2, <1>3, <1>5 DEF Flight
<1>6. QED
  BY <1>4, <1>5 DEF Parse

-----------------------------------------------------------------------------
(* Losses: what a transfer brings *)

\* The only way to list the numbers of an interval in order.
LEMMA InOrderIs ==
  ASSUME NEW lo \in Nat, NEW hi \in Nat, lo <= hi, NEW at \in InOrder((lo + 1)..hi)
  PROVE  /\ DOMAIN at = 1..(hi - lo)
         /\ \A j \in 1..(hi - lo) : at[j] = lo + j
<1> DEFINE m == hi - lo
<1>1. m \in Nat /\ Cardinality((lo + 1)..hi) = m
  <2>1. lo + 1 \in Int /\ hi \in Int
    OBVIOUS
  <2>2. Cardinality((lo + 1)..hi) = IF lo + 1 > hi THEN 0 ELSE hi - (lo + 1) + 1
    BY <2>1, FS_Interval
  <2>3. QED BY <2>2
<1>2. at \in [1..m -> (lo + 1)..hi] /\ \A i, j \in 1..m : i < j => at[i] < at[j]
  BY <1>1 DEF InOrder
<1>3. \A j \in 1..m : at[j] \in Nat /\ lo + 1 <= at[j] /\ at[j] <= hi
  BY <1>2
<1>4. \A j \in 1..m : at[j] >= lo + j
  <2> DEFINE bad == {j \in Nat : j \in 1..m /\ ~(at[j] >= lo + j)}
  <2>1. SUFFICES ASSUME bad # {} PROVE FALSE
    BY <1>1
  <2>2. PICK j \in bad : \A i \in bad : ~(i < j)
    <3>1. IsWellFoundedOn(OpToRel(<, Nat), Nat) /\ bad \subseteq Nat
      BY NatLessThanWellFounded
    <3>2. PICK j \in bad : \A i \in bad : ~(<<i, j>> \in OpToRel(<, Nat))
      BY <2>1, <3>1, WFMin, Zenon
    <3>3. QED BY <3>2 DEF OpToRel
  <2>3. j # 1
    BY <1>3, <2>2
  <2>4. j - 1 \in 1..m /\ j - 1 \in Nat /\ j - 1 < j /\ j \in 1..m
    BY <1>1, <2>2, <2>3
  <2>5. at[j - 1] >= lo + (j - 1)
    BY <2>2, <2>4
  <2>6. at[j - 1] < at[j]
    BY <1>2, <2>4
  <2>7. QED BY <1>3, <2>2, <2>4, <2>5, <2>6
<1>5. \A j \in 1..m : at[j] <= lo + j
  <2> DEFINE bad == {k \in Nat : k < m /\ ~(at[m - k] <= lo + (m - k))}
  <2>1. SUFFICES ASSUME bad # {} PROVE FALSE
    <3>1. SUFFICES ASSUME NEW j \in 1..m, ~(at[j] <= lo + j) PROVE bad # {}
      OBVIOUS
    <3>2. m - j \in Nat /\ m - j < m /\ m - (m - j) = j
      BY <1>1
    <3>3. m - j \in bad
      BY <3>1, <3>2
    <3>4. QED BY <3>3
  <2>2. PICK k \in bad : \A i \in bad : ~(i < k)
    <3>1. IsWellFoundedOn(OpToRel(<, Nat), Nat) /\ bad \subseteq Nat
      BY NatLessThanWellFounded
    <3>2. PICK k \in bad : \A i \in bad : ~(<<i, k>> \in OpToRel(<, Nat))
      BY <2>1, <3>1, WFMin, Zenon
    <3>3. QED BY <3>2 DEF OpToRel
  <2>3. k # 0
    BY <1>1, <1>3, <2>2
  <2>4. k - 1 \in Nat /\ k - 1 < m /\ k - 1 < k /\ m - k \in 1..m /\ m - (k - 1) \in 1..m
        /\ m - k < m - (k - 1)
    BY <1>1, <2>2, <2>3
  <2>5. at[m - (k - 1)] <= lo + (m - (k - 1))
    BY <2>2, <2>4
  <2>6. at[m - k] < at[m - (k - 1)]
    BY <1>2, <2>4
  <2>7. QED BY <1>1, <1>3, <2>2, <2>4, <2>5, <2>6
<1> HIDE DEF m
<1>6. DOMAIN at = 1..m
  BY <1>2
<1> HIDE DEF m
<1>7. ASSUME NEW j \in 1..m PROVE at[j] = lo + j
  <2>1. at[j] \in Nat /\ at[j] >= lo + j /\ at[j] <= lo + j /\ j \in Nat
    BY <1>1, <1>3, <1>4, <1>5
  <2>2. QED BY <2>1
<1>8. QED
  BY <1>6, <1>7 DEF m

\* An LF of the stream stands behind a CR.
Paired == \A k \in 1..Len(stream) :
            Char(stream[k]) = "LF" => k > 1 /\ Char(stream[k - 1]) = "CR"

LEMMA LaidPaired == ASSUME NEW length, NEW start, Laid(length, start) PROVE Paired
<1> SUFFICES ASSUME NEW k \in 1..Len(stream), Char(stream[k]) = "LF"
             PROVE  k > 1 /\ Char(stream[k - 1]) = "CR"
  BY DEF Paired
<1>1. PICK s \in 1..MaxSentences : start[s] < k /\ k <= start[s] + length[s]
  BY DEF Laid
<1> PICK b, n : b = start[s] /\ n = length[s]
  OBVIOUS
<1>2. b \in Nat /\ n \in Nat /\ 4 <= n
  <2>1. MaxSentences \in Nat
    BY ReaderAssumption
  <2>2. s \in 1..(MaxSentences + 1)
    BY <2>1
  <2>3. QED BY <2>2, LengthsFit DEF Laid
<1>3. \A i \in 1..n : stream[b + i] = CellAt(s, i, n)
  BY DEF Laid
<1>4. k - b \in 1..n /\ b + (k - b) = k /\ k - b \in Nat /\ k \in Nat
  BY <1>1, <1>2, SMTT(30)
<1>5. stream[k] = CellAt(s, k - b, n)
  BY <1>3, <1>4
<1>6. k - b = n
  BY <1>2, <1>4, <1>5, CellIs
<1>7. n - 1 \in 1..n /\ n - 1 \in Nat /\ b + (n - 1) = k - 1 /\ k > 1
  <2>1. k = b + n
    BY <1>2, <1>4, <1>6
  <2>2. n - 1 \in 1..n /\ n - 1 \in Nat
    BY <1>2
  <2>3. b + (n - 1) = (b + n) - 1 /\ b + n > 1
    BY <1>2
  <2>4. QED BY <2>1, <2>2, <2>3
<1>8. stream[k - 1] = CellAt(s, n - 1, n)
  BY <1>3, <1>7
<1>9. QED
  BY <1>2, <1>7, <1>8, CellIs

\* Of a transfer with n characters an LF at its beginning is skipped, unless the
\* last transfer ended with CR, and a filler is kept behind a CR.
SkippedOf == IF Char(stream[got + 1]) = "LF" /\ lastChar # "CR" THEN 1 ELSE 0
KeptUpto(n) == IF Char(stream[got + n]) = "CR" /\ n < TransferSize THEN n + 1 ELSE n

LEMMA KeptIs ==
  ASSUME Types, Paired, NEW n \in Nat, 1 <= n, n <= TransferSize, n <= Len(stream) - got,
         NEW at \in InOrder(Kept(RawOf(n)))
  PROVE  /\ SkippedOf \in {0, 1} /\ KeptUpto(n) \in Nat
         /\ Len(KeptOf(n, at)) = KeptUpto(n) - SkippedOf
         /\ \A j \in 1..(KeptUpto(n) - SkippedOf) : KeptOf(n, at)[j] = RawOf(n)[SkippedOf + j]
<1> DEFINE lo == SkippedOf
           hi == KeptUpto(n)
<1>1. /\ TransferSize \in Nat /\ got \in Nat /\ Len(stream) \in Nat
      /\ lo \in {0, 1} /\ hi \in Nat /\ n <= hi /\ hi <= n + 1 /\ hi <= TransferSize /\ lo <= hi
  BY ReaderAssumption, LenProperties DEF Types, SkippedOf, KeptUpto
<1>2. Char(Filler) = "LF"
  BY DEF Filler, Char
<1>3. /\ DOMAIN RawOf(n) = 1..TransferSize
      /\ \A i \in 1..n : RawOf(n)[i] = stream[got + i] /\ got + i \in 1..Len(stream)
      /\ \A i \in (n + 1)..TransferSize : RawOf(n)[i] = Filler
  BY <1>1 DEF RawOf
<1>4. ASSUME NEW i \in 1..TransferSize
      PROVE  i \in Kept(RawOf(n)) <=> i \in (lo + 1)..hi
  <2>1. i \in Kept(RawOf(n)) <=> Char(RawOf(n)[i]) # "LF" \/ Behind(RawOf(n), i) = "CR"
    BY <1>3 DEF Kept
  <2>2. CASE i = 1
    <3>1. Behind(RawOf(n), 1) = lastChar /\ RawOf(n)[1] = stream[got + 1]
      BY <1>3 DEF Behind
    <3>2. i \in Kept(RawOf(n)) <=> lo = 0
      BY <2>1, <2>2, <3>1 DEF SkippedOf
    <3>3. QED BY <1>1, <2>2, <3>2
  <2>3. CASE i # 1 /\ i <= n
    <3>1. i - 1 \in 1..n /\ got + (i - 1) = (got + i) - 1 /\ i \in 1..n
      BY <1>1, <2>3
    <3>2. Behind(RawOf(n), i) = Char(stream[(got + i) - 1]) /\ RawOf(n)[i] = stream[got + i]
      BY <1>3, <2>3, <3>1 DEF Behind
    <3>3. i \in Kept(RawOf(n))
      BY <1>3, <2>1, <3>1, <3>2 DEF Paired
    <3>4. i \in (lo + 1)..hi
      BY <1>1, <2>3
    <3>5. QED BY <3>3, <3>4
  <2>4. CASE i = n + 1
    <3>1. i - 1 = n /\ n \in 1..n /\ i # 1 /\ n < TransferSize /\ i \in (n + 1)..TransferSize
      BY <1>1, <2>4
    <3>2. Behind(RawOf(n), i) = Char(stream[got + n]) /\ RawOf(n)[i] = Filler
      BY <1>3, <3>1 DEF Behind
    <3>3. i \in Kept(RawOf(n)) <=> hi = n + 1
      BY <1>2, <2>1, <3>1, <3>2 DEF KeptUpto
    <3>4. QED BY <1>1, <2>4, <3>3
  <2>5. CASE i > n + 1
    <3>1. i - 1 \in (n + 1)..TransferSize /\ i \in (n + 1)..TransferSize /\ i # 1
      BY <1>1, <2>5
    <3>2. Behind(RawOf(n), i) = "LF" /\ Char(RawOf(n)[i]) = "LF"
      BY <1>2, <1>3, <3>1 DEF Behind
    <3>3. i \notin Kept(RawOf(n))
      BY <2>1, <3>2
    <3>4. QED BY <1>1, <2>5, <3>3
  <2>6. QED BY <1>1, <2>2, <2>3, <2>4, <2>5
<1>5. Kept(RawOf(n)) \subseteq 1..TransferSize /\ (lo + 1)..hi \subseteq 1..TransferSize
  BY <1>1, <1>3 DEF Kept
<1>6. Kept(RawOf(n)) = (lo + 1)..hi
  BY <1>4, <1>5
<1>7. DOMAIN at = 1..(hi - lo) /\ \A j \in 1..(hi - lo) : at[j] = lo + j
  <2>1. lo \in Nat
    BY <1>1
  <2> HIDE DEF lo, hi
  <2>2. QED BY <1>1, <1>6, <2>1, InOrderIs
<1>8. KeptOf(n, at) = [j \in 1..(hi - lo) |-> RawOf(n)[at[j]]] /\ hi - lo \in Nat
  BY <1>1, <1>7 DEF KeptOf
<1> HIDE DEF lo, hi
<1>9. Len(KeptOf(n, at)) = hi - lo /\ \A j \in 1..(hi - lo) : KeptOf(n, at)[j] = RawOf(n)[lo + j]
  BY <1>7, <1>8
<1>10. QED
  BY <1>1, <1>9 DEF lo, hi

\* A transfer of fillers only leaves everything as it is, or is dropped.
LEMMA OnlyFillers ==
  ASSUME Types, NEW at \in InOrder(Kept(RawOf(0)))
  PROVE  KeptOf(0, at) = <<>> \/ NothingRead(KeptOf(0, at))
<1>1. TransferSize \in Nat /\ Char(Filler) = "LF"
  BY ReaderAssumption DEF Filler, Char
<1>2. RawOf(0) = [i \in 1..TransferSize |-> Filler]
  BY <1>1 DEF RawOf
<1>3. Kept(RawOf(0)) \subseteq {1}
  <2>1. SUFFICES ASSUME NEW i \in 1..TransferSize, i # 1 PROVE i \notin Kept(RawOf(0))
    BY <1>2 DEF Kept
  <2>2. i - 1 \in 1..TransferSize
    BY <1>1, <2>1
  <2>3. Behind(RawOf(0), i) = "LF" /\ Char(RawOf(0)[i]) = "LF"
    BY <1>1, <1>2, <2>1, <2>2 DEF Behind
  <2>4. QED BY <2>3 DEF Kept
<1>4. CASE Kept(RawOf(0)) = {}
  <2>1. Cardinality(Kept(RawOf(0))) = 0
    BY <1>4, FS_EmptySet
  <2>2. DOMAIN at = {}
    BY <2>1 DEF InOrder
  <2>3. QED BY <2>2 DEF KeptOf
<1>5. CASE Kept(RawOf(0)) = {1}
  <2>1. Cardinality(Kept(RawOf(0))) = 1
    BY <1>5, FS_Singleton
  <2>2. DOMAIN at = 1..1 /\ at[1] = 1
    BY <1>5, <2>1 DEF InOrder
  <2>3. 1 \in DOMAIN RawOf(0)
    BY <1>5 DEF Kept
  <2>4. KeptOf(0, at) = [j \in 1..1 |-> Filler]
    <3>1. RawOf(0)[1] = Filler
      BY <1>2, <2>3
    <3> HIDE DEF RawOf
    <3>2. \A j \in 1..1 : RawOf(0)[at[j]] = Filler
      <4>1. \A j \in 1..1 : j = 1
        OBVIOUS
      <4>2. QED BY <2>2, <3>1, <4>1
    <3>3. QED BY <2>2, <3>2 DEF KeptOf
  <2>5. QED BY <1>1, <2>4 DEF NothingRead
<1>6. QED
  BY <1>3, <1>4, <1>5

-----------------------------------------------------------------------------
(* Losses: a transfer that is taken *)

\* The sentence s of n cells behind cell b, and the two cells before it.
Placed(b, n, s) ==
  /\ b \in Nat /\ n \in Nat /\ 4 <= n /\ n <= LineCap /\ TransferSize < n
  /\ b + n <= Len(stream) /\ b > 1
  /\ Char(stream[b]) = "LF" /\ Char(stream[b - 1]) = "CR"
  /\ \A i \in 1..n : stream[b + i] = CellAt(s, i, n)

\* What a transfer of n characters does when it is taken.
Taken(n) ==
  /\ n \in Nat /\ 1 <= n /\ n <= TransferSize /\ n <= Len(stream) - got
  /\ buf = <<>> /\ received = <<>> /\ UNCHANGED <<line, received, parsed>>
  /\ got' = got + n
  /\ SkippedOf \in {0, 1} /\ KeptUpto(n) \in Nat
  /\ Len(buf') = KeptUpto(n) - SkippedOf
  /\ \A j \in 1..(KeptUpto(n) - SkippedOf) : buf'[j] = RawOf(n)[SkippedOf + j]
  /\ buf' # <<>> => lastChar' = Char(buf'[Len(buf')])
  /\ buf' = <<>> <=> Len(buf') = 0

LEMMA TakenIs ==
  ASSUME Types, Paired, NEW n, Taken(n)
  PROVE  /\ got \in Nat /\ TransferSize \in Nat /\ n <= KeptUpto(n) /\ KeptUpto(n) <= n + 1
         /\ SkippedOf <= n
         /\ \A i \in Int : SkippedOf < i /\ i <= n => buf'[i - SkippedOf] = stream[got + i]
         /\ KeptUpto(n) = n + 1 => Char(buf'[Len(buf')]) = "LF" /\ Len(buf') >= 1
<1>1. /\ n \in Nat /\ 1 <= n /\ n <= TransferSize /\ got \in Nat /\ TransferSize \in Nat
      /\ KeptUpto(n) \in Nat /\ n <= KeptUpto(n) /\ KeptUpto(n) <= n + 1 /\ KeptUpto(n) <= TransferSize
      /\ SkippedOf \in {0, 1}
  BY ReaderAssumption DEF Types, Taken, KeptUpto
<1> PICK lo, hi : lo = SkippedOf /\ hi = KeptUpto(n)
  OBVIOUS
<1>2. \A j \in 1..(hi - lo) : buf'[j] = RawOf(n)[lo + j]
  BY DEF Taken
<1>3. ASSUME NEW i \in Int, lo < i, i <= n
      PROVE  buf'[i - lo] = stream[got + i]
  <2>1. i - lo \in 1..(hi - lo) /\ lo + (i - lo) = i /\ i \in 1..TransferSize
    BY <1>1, <1>3
  <2>2. buf'[i - lo] = RawOf(n)[i]
    BY <1>2, <2>1
  <2>3. QED BY <1>3, <2>1, <2>2 DEF RawOf
<1>4. ASSUME hi = n + 1
      PROVE  Char(buf'[Len(buf')]) = "LF" /\ Len(buf') >= 1
  <2>1. hi - lo \in 1..(hi - lo) /\ lo + (hi - lo) = n + 1 /\ n + 1 \in 1..TransferSize /\ ~(n + 1 <= n)
    BY <1>1, <1>4
  <2>2. Len(buf') = hi - lo /\ buf'[hi - lo] = RawOf(n)[n + 1]
    <3>1. buf'[hi - lo] = RawOf(n)[lo + (hi - lo)]
      BY <1>2, <2>1
    <3>2. QED BY <2>1, <3>1 DEF Taken
  <2>3. RawOf(n)[n + 1] = Filler
    BY <2>1 DEF RawOf
  <2>4. QED BY <2>1, <2>2, <2>3 DEF Filler, Char
<1>5. QED
  BY <1>1, <1>3, <1>4

\* The sentence that has begun goes on.
LEMMA Continue ==
  ASSUME Types, Paired, NEW m, Taken(m), NEW b, NEW n, NEW s, Placed(b, n, s),
         NEW o \in Int, Lying(b, n, s, o), b <= got, got < b + n
  PROVE  Lying(b, n, s, o)'
<1>1. /\ m \in Nat /\ 1 <= m /\ m <= TransferSize /\ got' = got + m /\ Len(buf) = 0
      /\ b \in Nat /\ n \in Nat /\ 4 <= n /\ TransferSize < n
  BY DEF Taken, Placed
<1>2. /\ got \in Nat /\ TransferSize \in Nat /\ m <= KeptUpto(m) /\ KeptUpto(m) <= m + 1
      /\ \A i \in Int : SkippedOf < i /\ i <= m => buf'[i - SkippedOf] = stream[got + i]
      /\ KeptUpto(m) = m + 1 => Char(buf'[Len(buf')]) = "LF" /\ Len(buf') >= 1
  BY TakenIs
<1>3. o <= 0 /\ Len(line) = -o /\ -o < n /\ b - o <= got
  BY <1>1 DEF Lying
<1>4. b - o = got /\ (got + 1 = b + n => lastChar = "CR")
  <2>1. CASE got + 1 < b + n
    <3>1. 0 = got - b + o
      BY <1>1, <2>1 DEF Lying
    <3>2. QED BY <1>1, <1>2, <2>1, <3>1
  <2>2. CASE got + 1 = b + n
    <3>1. (0 = n - 1 + o /\ lastChar = "CR") \/ (0 = n + o /\ n + o >= 1)
      BY <1>1, <2>2 DEF Lying
    <3>2. QED BY <1>1, <1>2, <2>2, <3>1, SMTT(30)
  <2>3. QED BY <1>1, <1>2, <2>1, <2>2
<1>5. \A i \in Int : 1 <= i /\ i <= n => stream[b + i] = CellAt(s, i, n)
  BY DEF Placed
<1>6. SkippedOf = 0
  <2>1. 1 - o \in 1..n /\ b + (1 - o) = got + 1 /\ 1 - o \in Nat
    BY <1>1, <1>2, <1>3, <1>4, SMTT(30)
  <2>2. stream[got + 1] = CellAt(s, 1 - o, n)
    BY <1>5, <2>1
  <2>3. Char(stream[got + 1]) = "LF" => 1 - o = n
    BY <1>1, <2>1, <2>2, CellIs
  <2>4. 1 - o = n => got + 1 = b + n
    BY <2>1
  <2>5. QED BY <1>4, <2>3, <2>4 DEF SkippedOf
<1>7. Len(buf') = KeptUpto(m)
  BY <1>2, <1>6 DEF Taken
<1>8. ASSUME NEW i \in Int, i + o >= 1, b + i <= got'
      PROVE  i + o <= m /\ buf'[i + o] = stream[b + i]
  <2>1. i + o <= m /\ got + (i + o) = b + i /\ (i + o) - 0 = i + o
    BY <1>1, <1>2, <1>4, <1>8
  <2>2. buf'[(i + o) - SkippedOf] = stream[got + (i + o)]
    BY <1>2, <1>6, <1>8, <2>1
  <2>3. QED BY <1>6, <2>1, <2>2
<1>9. ASSUME NEW i \in 1..(n - 1), b + i <= got'
      PROVE  IF i + o >= 1 THEN i + o <= Len(buf') /\ buf'[i + o] = CellAt(s, i, n)
                           ELSE line'[i] = CellAt(s, i, n)
  <2>1. CASE i + o >= 1
    <3>1. i + o <= m /\ buf'[i + o] = stream[b + i]
      BY <1>8, <1>9, <2>1
    <3>2. stream[b + i] = CellAt(s, i, n)
      BY <1>5, <1>1
    <3>3. QED BY <1>1, <1>2, <1>7, <2>1, <3>1, <3>2
  <2>2. CASE ~(i + o >= 1)
    <3>1. b + i <= got
      BY <1>1, <1>2, <1>4, <2>2
    <3>2. line[i] = CellAt(s, i, n)
      BY <2>2, <3>1 DEF Lying
    <3>3. QED BY <2>2, <3>2 DEF Taken
  <2>3. QED BY <2>1, <2>2
\* The last character of the transfer.
<1>10. m + got - b \in Int /\ (m - o) + o = m /\ b + (m - o) = got' /\ m - o = got' - b
  BY <1>1, <1>2, <1>4
<1>11. got' < b + n => stream[got'] = CellAt(s, got' - b, n) /\ got' - b \in Nat
  BY <1>1, <1>2, <1>3, <1>5, <1>10
<1>12. got' + 1 < b + n => Len(buf') = got' - b + o
  <2>1. SUFFICES ASSUME got' + 1 < b + n PROVE Len(buf') = got' - b + o
    OBVIOUS
  <2>2. got' < b + n /\ got' - b # n - 1
    BY <1>1, <1>2, <2>1
  <2>3. Char(stream[got']) # "CR"
    BY <1>1, <1>11, <2>2, CellIs
  <2>4. KeptUpto(m) = m
    BY <1>1, <2>3 DEF KeptUpto
  <2>5. QED BY <1>7, <1>10, <2>4
<1>13. got' + 1 = b + n =>
         \/ Len(buf') = n - 1 + o /\ lastChar' = "CR"
         \/ Len(buf') = n + o /\ n + o >= 1 /\ Char(buf'[n + o]) = "LF"
  <2>1. SUFFICES ASSUME got' + 1 = b + n
                 PROVE  \/ Len(buf') = n - 1 + o /\ lastChar' = "CR"
                        \/ Len(buf') = n + o /\ n + o >= 1 /\ Char(buf'[n + o]) = "LF"
    OBVIOUS
  <2>2. m = n - 1 + o /\ m + 1 = n + o /\ got' < b + n /\ got' - b = n - 1
    BY <1>1, <1>2, <1>4, <2>1
  <2>3. CASE KeptUpto(m) = m + 1
    <3>1. Char(buf'[Len(buf')]) = "LF" /\ Len(buf') = n + o /\ Len(buf') >= 1
      BY <1>2, <1>7, <2>2, <2>3
    <3>2. QED BY <3>1
  <2>4. CASE KeptUpto(m) = m
    <3>1. buf'[m - SkippedOf] = stream[got + m]
      BY <1>1, <1>2, <1>6
    <3>2. buf'[m] = stream[got'] /\ Len(buf') = m /\ buf' # <<>>
      BY <1>1, <1>6, <1>7, <2>4, <3>1 DEF Taken
    <3>3. Char(stream[got']) = "CR"
      BY <1>1, <1>11, <2>2, CellIs
    <3>4. QED BY <2>2, <3>2, <3>3 DEF Taken
  <2>5. QED BY <1>1, <2>3, <2>4 DEF KeptUpto
<1>14. got' >= b + n => Len(buf') >= n + o /\ n + o >= 1 /\ Char(buf'[n + o]) = "LF"
  <2>1. SUFFICES ASSUME got' >= b + n
                 PROVE  Len(buf') >= n + o /\ n + o >= 1 /\ Char(buf'[n + o]) = "LF"
    OBVIOUS
  <2>2. n \in Int /\ n + o >= 1 /\ n + o <= m /\ b + n <= got'
    BY <1>1, <1>2, <1>3, <1>4, <2>1
  <2>3. buf'[n + o] = stream[b + n]
    BY <1>8, <2>2
  <2>4. Char(CellAt(s, n, n)) = "LF" /\ stream[b + n] = CellAt(s, n, n)
    BY <1>1, <1>5, CellIs
  <2>5. KeptUpto(m) >= n + o
    <3>1. KeptUpto(m) \in Nat
      BY DEF Taken
    <3>2. QED BY <1>1, <1>2, <2>2, <3>1
  <2>6. QED BY <1>7, <2>2, <2>3, <2>4, <2>5
<1>15. line' = line /\ b - o <= got'
  BY <1>1, <1>2, <1>4 DEF Taken
<1>16. QED
  BY <1>3, <1>9, <1>12, <1>13, <1>14, <1>15 DEF Lying

\* The sentence that had not begun begins, or still has not, behind an end of line.
LEMMA StartLine ==
  ASSUME Types, Paired, NEW m, Taken(m), NEW b, NEW n, NEW s, Placed(b, n, s),
         Boundary(b), got < b
  PROVE  Boundary(b)' /\ Flight(b, n, s)'
<1>1. /\ m \in Nat /\ 1 <= m /\ m <= TransferSize /\ got' = got + m
      /\ b \in Nat /\ n \in Nat /\ 4 <= n /\ TransferSize < n
      /\ Len(buf') = KeptUpto(m) - SkippedOf /\ SkippedOf \in {0, 1} /\ KeptUpto(m) \in Nat
      /\ buf' = <<>> <=> Len(buf') = 0
  BY DEF Taken, Placed
<1>2. /\ got \in Nat /\ TransferSize \in Nat /\ m <= KeptUpto(m) /\ KeptUpto(m) <= m + 1
      /\ \A i \in Int : SkippedOf < i /\ i <= m => buf'[i - SkippedOf] = stream[got + i]
      /\ KeptUpto(m) = m + 1 => Char(buf'[Len(buf')]) = "LF" /\ Len(buf') >= 1
  BY TakenIs
<1>3. Char(stream[b]) = "LF" /\ Char(stream[b - 1]) = "CR"
  BY DEF Placed
<1>4. PICK q \in Nat : 1 <= q /\ got + q = b
  <2>1. b - got \in Nat /\ 1 <= b - got /\ got + (b - got) = b
    BY <1>1, <1>2
  <2>2. QED BY <2>1
<1>5. SkippedOf = 1 => Char(stream[got + 1]) = "LF" /\ lastChar # "CR"
  BY DEF SkippedOf
\* With a beginning that is skipped, the last line is complete.
<1>6. SkippedOf = 1 /\ q = 1 => line' = <<>>
  <2>1. SUFFICES ASSUME SkippedOf = 1, q = 1 PROVE line' = <<>>
    OBVIOUS
  <2>2. got + 1 = b
    BY <1>4, <2>1
  <2>3. Clean
    BY <1>5, <2>1, <2>2 DEF Boundary
  <2>4. QED BY <2>3 DEF Clean, Taken
\* What stands last when no filler does.
<1>7. ASSUME KeptUpto(m) = m, SkippedOf < m
      PROVE  buf' # <<>> /\ buf'[Len(buf')] = stream[got'] /\ lastChar' = Char(stream[got'])
  <2>1. buf'[m - SkippedOf] = stream[got + m] /\ Len(buf') = m - SkippedOf /\ Len(buf') # 0
    BY <1>1, <1>2, <1>7
  <2>2. buf' # <<>>
    BY <1>1, <2>1
  <2>3. QED BY <1>1, <2>1, <2>2 DEF Taken
<1>8. KeptUpto(m) = m + 1 => Clean'
  <2>1. KeptUpto(m) = m + 1 => buf' # <<>>
    BY <1>1, <1>2
  <2>2. QED BY <1>2, <2>1 DEF Clean
<1>9. KeptUpto(m) \in {m, m + 1}
  BY DEF KeptUpto
<1>10. ASSUME got' + 1 = b PROVE lastChar' = "CR" \/ Clean'
  <2>1. got' = b - 1 /\ Char(stream[got']) = "CR"
    BY <1>1, <1>2, <1>3, <1>10
  <2>2. SkippedOf < m
    <3>1. m = 1 => SkippedOf = 0
      BY <1>1, <1>5, <2>1
    <3>2. QED BY <1>1, <3>1
  <2>3. QED BY <1>7, <1>8, <1>9, <2>1, <2>2
<1>11. ASSUME got' = b PROVE Clean'
  <2>1. q = m
    BY <1>1, <1>2, <1>4, <1>11
  <2>2. CASE SkippedOf < m
    <3>1. Char(stream[got']) = "LF"
      BY <1>3, <1>11
    <3>2. CASE KeptUpto(m) = m
      BY <1>7, <2>2, <3>1, <3>2 DEF Clean
    <3>3. QED BY <1>8, <1>9, <3>2
  <2>3. CASE ~(SkippedOf < m)
    <3>1. m = 1 /\ SkippedOf = 1
      BY <1>1, <2>3
    <3>2. CASE KeptUpto(m) = m
      <4>1. Len(buf') = 0
        BY <1>1, <3>1, <3>2
      <4>2. QED BY <1>1, <1>6, <2>1, <3>1, <4>1 DEF Clean
    <3>3. QED BY <1>8, <1>9, <3>2
  <2>4. QED BY <2>2, <2>3
<1>12. Boundary(b)'
  BY <1>10, <1>11 DEF Boundary
<1>13. ASSUME got' > b PROVE Flight(b, n, s)'
  <2>0. PICK lo \in 0..1, o \in Nat : lo = SkippedOf /\ q = o + lo
    <3>1. SkippedOf \in 0..1 /\ q - SkippedOf \in Nat /\ q = (q - SkippedOf) + SkippedOf
      BY <1>1, <1>4
    <3>2. QED BY <3>1
  <2>1. /\ got' = got + (o + lo) + (got' - b) /\ m = o + lo + (got' - b)
        /\ got' - b \in Nat /\ 1 <= got' - b /\ got' + 1 < b + n /\ got' - b <= n - 2
    BY <1>1, <1>2, <1>4, <1>13, <2>0
  <2>2. \A i \in Int : 1 <= i /\ i <= n => stream[b + i] = CellAt(s, i, n)
    BY DEF Placed
  <2>3. KeptUpto(m) = m
    <3>1. got' - b \in Int /\ 1 <= got' - b /\ got' - b <= n /\ b + (got' - b) = got' /\ got' - b # n - 1
      BY <1>1, <1>2, <2>0, <2>1
    <3>2. stream[got'] = CellAt(s, got' - b, n)
      BY <2>2, <3>1
    <3>3. Char(stream[got']) # "CR"
      BY <1>1, <3>1, <3>2, CellIs
    <3>4. QED BY <1>1, <3>3 DEF KeptUpto
  <2>4. o > 0 => o <= Len(buf') /\ Char(buf'[o]) = "LF"
    <3>1. SUFFICES ASSUME o > 0 PROVE o <= Len(buf') /\ Char(buf'[o]) = "LF"
      OBVIOUS
    <3>2. q \in Int /\ lo < q /\ q <= m /\ q - lo = o /\ got + q = b
      BY <1>1, <1>4, <2>0, <2>1, <3>1, SMTT(30)
    <3>3. buf'[o] = stream[b]
      BY <1>2, <2>0, <3>2
    <3>4. o <= Len(buf')
      BY <1>1, <2>0, <2>1, <2>3, SMTT(30)
    <3>5. QED BY <1>3, <3>3, <3>4
  <2>5. o <= 0 => Len(line') = -o /\ -o < n /\ b - o <= got'
    <3>1. SUFFICES ASSUME o <= 0 PROVE Len(line') = -o /\ -o < n /\ b - o <= got'
      OBVIOUS
    <3>2. o <= 0 /\ o >= 0 /\ lo = 1 /\ q = 1
      BY <1>4, <2>0, <2>1, <3>1
    <3>3. line' = <<>>
      BY <1>6, <2>0, <3>2
    <3>4. Len(line') = 0
      BY <3>3
    <3>5. -o <= 0 /\ -o >= 0 /\ b - o <= got' /\ -o < n
      BY <1>1, <1>2, <1>13, <2>0, <3>2
    <3>6. QED BY <2>0, <3>4, <3>5
  <2>6. ASSUME NEW i \in 1..(n - 1), b + i <= got'
        PROVE  i + o >= 1 /\ i + o <= Len(buf') /\ buf'[i + o] = CellAt(s, i, n)
    <3>1. q + i \in Int /\ lo < q + i /\ q + i <= m /\ (q + i) - lo = i + o /\ got + (q + i) = b + i
          /\ i + o >= 1 /\ i \in Int /\ 1 <= i /\ i <= n
      BY <1>1, <1>2, <1>4, <2>0, <2>1, <2>6
    <3>2. buf'[i + o] = stream[b + i]
      BY <1>2, <2>0, <3>1
    <3>3. i + o <= Len(buf')
      BY <1>1, <2>0, <2>1, <2>3, <3>1, SMTT(30)
    <3>4. QED BY <2>2, <3>1, <3>2, <3>3
  <2>7. Len(buf') = got' - b + o
    BY <1>1, <1>2, <1>4, <2>0, <2>1, <2>3
  <2>8. ~(got' + 1 = b + n) /\ ~(got' >= b + n)
    BY <1>1, <1>2, <2>0, <2>1
  <2>9. Lying(b, n, s, o)'
    BY <2>0, <2>1, <2>4, <2>5, <2>6, <2>7, <2>8 DEF Lying
  <2>10. QED BY <2>0, <2>9 DEF Flight
<1>14. Flight(b, n, s)'
  <2>1. CASE ~(got' > b)
    BY <2>1 DEF Flight
  <2>2. QED BY <1>13, <2>1
<1>15. QED
  BY <1>12, <1>14

\* Between two transfers a sentence that was handed over to the end is parsed.
LEMMA AllDone ==
  ASSUME Types, buf = <<>>, received = <<>>, NEW b, NEW n, NEW s, Placed(b, n, s),
         Flight(b, n, s), got >= b + n
  PROVE  s \in Range(parsed)
<1>1. got \in Nat /\ b \in Nat /\ n \in Nat /\ 4 <= n /\ Len(buf) = 0 /\ got > b
  <2>1. got \in Nat /\ b \in Nat /\ n \in Nat /\ 4 <= n
    BY LenProperties DEF Types, Placed
  <2>2. QED BY <2>1
<1>2. \A o \in Int : ~Lying(b, n, s, o)
  <2>1. SUFFICES ASSUME NEW o \in Int, Lying(b, n, s, o) PROVE FALSE
    OBVIOUS
  <2>2. 0 >= n + o /\ n + o >= 1
    <3>1. got >= b + n => Len(buf) >= n + o /\ n + o >= 1
      BY <2>1 DEF Lying
    <3>2. QED BY <1>1, <3>1
  <2>3. QED BY <1>1, <2>2
<1>3. QED
  BY <1>1, <1>2 DEF Flight

LEMMA TakenFlight ==
  ASSUME Types, Paired, NEW m, Taken(m), NEW b, NEW n, NEW s, Placed(b, n, s),
         Boundary(b), Flight(b, n, s)
  PROVE  Boundary(b)' /\ Flight(b, n, s)'
<1>1. /\ m \in Nat /\ 1 <= m /\ got' = got + m /\ got \in Nat /\ Len(buf) = 0 /\ buf = <<>>
      /\ received = <<>> /\ parsed' = parsed /\ b \in Nat /\ n \in Nat /\ 4 <= n
  BY TakenIs DEF Taken, Placed
<1>2. CASE got >= b + n
  <2>1. s \in Range(parsed)
    BY <1>1, <1>2, AllDone
  <2>2. ~(got' = b) /\ ~(got' + 1 = b)
    BY <1>1, <1>2
  <2>3. QED BY <1>1, <2>1, <2>2 DEF Boundary, Flight
<1>3. CASE b <= got /\ got < b + n
  <2>1. ~(got' = b) /\ ~(got' + 1 = b)
    BY <1>1, <1>3
  <2>2. CASE s \in Range(parsed)
    BY <1>1, <2>1, <2>2 DEF Boundary, Flight
  <2>3. CASE \E o \in Int : Lying(b, n, s, o)
    <3>1. PICK o \in Int : Lying(b, n, s, o)
      BY <2>3
    <3>2. Lying(b, n, s, o)'
      BY <1>3, <3>1, Continue
    <3>3. QED BY <2>1, <3>2 DEF Boundary, Flight
  <2>4. CASE got = b
    <3>1. line = <<>>
      BY <1>1, <2>4 DEF Boundary, Clean
    <3>2. Len(line) = 0
      BY <3>1
    <3>3. \E o \in Int : o = 0 /\ Lying(b, n, s, o)
      <4>0. PICK o \in Int : o <= 0 /\ o >= 0
        OBVIOUS
      <4>1. \A i \in 1..(n - 1) : ~(b + i <= got)
        BY <1>1, <2>4
      <4>2. ~(o > 0) /\ b - o <= got /\ ~(got + 1 = b + n) /\ ~(got >= b + n)
        BY <1>1, <2>4, <4>0
      <4>3. Len(line) = -o /\ -o < n
        <5>1. PICK z \in Int : z = Len(line) /\ z = 0
          BY <3>2
        <5>2. z = -o /\ -o < n
          <6>1. o <= 0 /\ o >= 0 /\ n \in Int /\ n > 0
            BY <1>1, <4>0
          <6>2. QED BY <5>1, <6>1
        <5>3. QED BY <5>1, <5>2
      <4>4. Len(buf) = got - b + o
        BY <1>1, <2>4, <4>0
      <4>5. QED BY <4>0, <4>1, <4>2, <4>3, <4>4 DEF Lying
    <3>4. QED BY <2>3, <3>3
  <2>5. QED BY <1>1, <1>3, <2>2, <2>3, <2>4 DEF Flight
<1>4. CASE got < b
  BY <1>4, StartLine
<1>5. QED
  BY <1>1, <1>2, <1>3, <1>4

\* Refill, when the transfer was not dropped.
LEMMA RefillFlight ==
  ASSUME Inv, Refill, drops' = drops, Paired, NEW b, NEW n, NEW s, Placed(b, n, s),
         Boundary(b), Flight(b, n, s)
  PROVE  Boundary(b)' /\ Flight(b, n, s)'
<1>1. /\ Types /\ drops \in Nat
      /\ buf = <<>> /\ received = <<>> /\ UNCHANGED <<line, received, parsed>>
  BY DEF Inv, Types, Refill, lineVars
<1>2. PICK m \in 0..Min({TransferSize, Len(stream) - got}) : \E at \in InOrder(Kept(RawOf(m))) :
        /\ got' = got + m
        /\ lastChar' = IF KeptOf(m, at) = <<>> THEN lastChar ELSE Char(Last(KeptOf(m, at)))
        /\ buf' = IF NothingRead(KeptOf(m, at)) THEN <<>> ELSE KeptOf(m, at)
        /\ drops' = IF NothingRead(KeptOf(m, at)) THEN drops + 1 ELSE drops
  BY Zenon DEF Refill, RawOf, KeptOf
<1>3. PICK at \in InOrder(Kept(RawOf(m))) :
        /\ got' = got + m
        /\ lastChar' = IF KeptOf(m, at) = <<>> THEN lastChar ELSE Char(Last(KeptOf(m, at)))
        /\ buf' = IF NothingRead(KeptOf(m, at)) THEN <<>> ELSE KeptOf(m, at)
        /\ drops' = IF NothingRead(KeptOf(m, at)) THEN drops + 1 ELSE drops
  BY <1>2
<1>4. m \in Nat /\ m <= TransferSize /\ m <= Len(stream) - got /\ got \in Nat
  <2>1. Len(stream) \in Nat /\ got \in Nat /\ Len(stream) - got \in Nat
    BY <1>1, LenProperties DEF Types
  <2>2. QED BY <2>1, MinOfTwo, ReaderAssumption
<1>5. ~NothingRead(KeptOf(m, at))
  BY <1>1, <1>3
<1>6. buf' = KeptOf(m, at)
  BY <1>3, <1>5
<1>7. CASE m = 0
  <2>1. KeptOf(m, at) = <<>>
    BY <1>1, <1>5, <1>7, OnlyFillers
  <2>2. UNCHANGED <<got, lastChar, buf, line, received, parsed>>
    BY <1>1, <1>3, <1>4, <1>6, <1>7, <2>1
  <2>3. QED
    BY <2>2 DEF Boundary, Clean, Flight, Lying
<1>8. CASE m # 0
  <2>1. 1 <= m
    BY <1>4, <1>8
  <2>2. /\ SkippedOf \in {0, 1} /\ KeptUpto(m) \in Nat
        /\ Len(buf') = KeptUpto(m) - SkippedOf
        /\ \A j \in 1..(KeptUpto(m) - SkippedOf) : buf'[j] = RawOf(m)[SkippedOf + j]
    BY <1>1, <1>4, <1>6, <2>1, KeptIs
  <2>3. buf' = <<>> <=> Len(buf') = 0
    <3> DEFINE new == {stream[k] : k \in (got + 1)..(got + m)} \cup {Filler}
    <3>1. KeptOf(m, at) \in Seq(new)
      BY <1>1, <1>4, KeptInOrder
    <3> HIDE DEF new
    <3>2. QED BY <1>6, <3>1, EmptySeq
  <2>4. buf' # <<>> => lastChar' = Char(buf'[Len(buf')])
    BY <1>3, <1>6 DEF Last
  <2>5. Taken(m)
    BY <1>1, <1>3, <1>4, <2>1, <2>2, <2>3, <2>4 DEF Taken
  <2>6. QED
    BY <1>1, <2>5, TakenFlight
<1>9. QED
  BY <1>7, <1>8

LEMMA LaidPlaced ==
  ASSUME NEW length, NEW start, Laid(length, start), NEW s \in 2..MaxSentences
  PROVE  /\ Placed(start[s], length[s], s)
         /\ s + 1 \in 1..(MaxSentences + 1) /\ start[s + 1] = start[s] + length[s]
<1>1. /\ MaxSentences \in Nat /\ s \in Nat
      /\ s \in 1..MaxSentences /\ s - 1 \in 1..MaxSentences /\ (s - 1) + 1 = s
      /\ s \in 1..(MaxSentences + 1) /\ s - 1 \in 1..(MaxSentences + 1)
      /\ s + 1 \in 1..(MaxSentences + 1)
      /\ s < MaxSentences + 1 /\ MaxSentences + 1 \in 1..(MaxSentences + 1)
  BY ReaderAssumption
<1> PICK b, n, c, k : b = start[s] /\ n = length[s] /\ c = start[s - 1] /\ k = length[s - 1]
  OBVIOUS
<1>2. length \in [1..MaxSentences -> Lengths] /\ start \in [1..(MaxSentences + 1) -> Nat]
  BY DEF Laid
<1>3. /\ b \in Nat /\ c \in Nat
      /\ n \in Nat /\ 4 <= n /\ n <= LineCap /\ TransferSize < n
      /\ k \in Nat /\ 4 <= k
  BY <1>1, <1>2, LengthsFit
<1>4. b = c + k /\ b + n <= Len(stream) /\ start[s + 1] = b + n
  BY <1>1 DEF Laid
<1>5. \A i \in 1..n : stream[b + i] = CellAt(s, i, n)
  BY <1>1 DEF Laid
<1>6. \A i \in 1..k : stream[c + i] = CellAt(s - 1, i, k)
  BY <1>1 DEF Laid
<1>7. k \in 1..k /\ k - 1 \in 1..k /\ k - 1 \in Nat /\ c + (k - 1) = (c + k) - 1
  BY <1>3
<1>8. stream[b] = CellAt(s - 1, k, k) /\ stream[b - 1] = CellAt(s - 1, k - 1, k)
  BY <1>4, <1>6, <1>7
<1>9. Char(stream[b]) = "LF" /\ Char(stream[b - 1]) = "CR"
  BY <1>3, <1>7, <1>8, CellIs
<1>10. b > 1
  BY <1>3, <1>4
<1>11. QED
  BY <1>1, <1>3, <1>4, <1>5, <1>9, <1>10 DEF Placed

-----------------------------------------------------------------------------
(* Losses: a transfer that is lost *)

\* The sentences that nothing has damaged are on their way or parsed.
Sound(b, n, s) == Boundary(b) /\ Flight(b, n, s)

\* A lost transfer damages at most the sentence of the next cell and the one
\* behind it, since it is shorter than that one.
LEMMA LostTransfer ==
  ASSUME Types, buf = <<>>, received = <<>>, UNCHANGED <<received, parsed>>,
         NEW length, NEW start, Laid(length, start),
         got' \in Nat, got <= got', got' <= got + TransferSize, got' <= Len(stream)
  PROVE  \E a \in Nat : \A s \in 2..MaxSentences :
           Sound(start[s], length[s], s) => s \in {a, a + 1} \/ Sound(start[s], length[s], s)'
<1>1. got \in Nat /\ Len(stream) \in Nat /\ got <= Len(stream) /\ TransferSize \in Nat /\ MaxSentences \in Nat
  BY ReaderAssumption, LenProperties DEF Types
<1>0. PICK g \in Nat : got' = g /\ got <= g /\ g <= got + TransferSize /\ g <= Len(stream)
  OBVIOUS
<1>2. ASSUME NEW b, NEW n, NEW s, Placed(b, n, s), Sound(b, n, s), got >= b + n
      PROVE  Sound(b, n, s)'
  <2>1. s \in Range(parsed)
    BY <1>2, AllDone DEF Sound
  <2>2. b \in Nat /\ n \in Nat /\ 4 <= n
    BY <1>2 DEF Placed
  <2>3. ~(g = b) /\ ~(g + 1 = b)
    BY <1>0, <1>1, <1>2, <2>2
  <2>4. QED BY <1>0, <2>1, <2>3 DEF Sound, Boundary, Flight
<1>3. ASSUME NEW b \in Nat, NEW n, NEW s, g + 1 < b
      PROVE  Sound(b, n, s)'
  <2>1. ~(g = b) /\ ~(g + 1 = b) /\ ~(g > b)
    BY <1>3
  <2>2. QED BY <1>0, <2>1 DEF Sound, Boundary, Flight
<1>4. CASE got = Len(stream)
  <2>1. ASSUME NEW s \in 2..MaxSentences, Sound(start[s], length[s], s)
        PROVE  Sound(start[s], length[s], s)'
    <3>1. Placed(start[s], length[s], s)
      BY LaidPlaced
    <3>2. got >= start[s] + length[s]
      BY <1>4, <3>1 DEF Placed
    <3>3. QED BY <1>2, <2>1, <3>1, <3>2
  <2>2. QED BY <2>1
<1>5. CASE got # Len(stream)
  <2>1. got + 1 \in 1..Len(stream)
    BY <1>1, <1>5
  <2>2. PICK a \in 1..MaxSentences : start[a] < got + 1 /\ got + 1 <= start[a] + length[a]
    BY <2>1 DEF Laid
  <2>3. a \in Nat
    BY <1>1
  <2>4. ASSUME NEW s \in 2..MaxSentences, Sound(start[s], length[s], s), s \notin {a, a + 1}
        PROVE  Sound(start[s], length[s], s)'
    <3> PICK b, n : b = start[s] /\ n = length[s]
      OBVIOUS
    <3>1. Placed(b, n, s) /\ b \in Nat /\ n \in Nat /\ Sound(b, n, s)
      BY <2>4, LaidPlaced DEF Placed
    <3>2. /\ a \in 1..(MaxSentences + 1) /\ s \in 1..(MaxSentences + 1) /\ s \in 1..MaxSentences
          /\ length \in [1..MaxSentences -> Lengths] /\ start \in [1..(MaxSentences + 1) -> Nat]
      BY <1>1 DEF Laid
    <3>3. start[a] \in Nat /\ length[a] \in Nat
      BY <3>2, LengthsFit
    <3>4. CASE s < a
      <4>1. b + n <= start[a]
        BY <3>2, <3>4 DEF Laid
      <4>2. got >= b + n
        BY <1>1, <2>2, <3>1, <3>3, <4>1, SMTT(30)
      <4>3. QED BY <1>2, <3>1, <4>2
    <3>5. CASE s > a
      <4>1. a + 1 < s /\ a + 1 \in 1..MaxSentences /\ a + 1 \in 1..(MaxSentences + 1)
        BY <1>1, <2>3, <2>4, <3>5
      <4>2. start[a] + length[a] <= start[a + 1]
        <5>1. a < a + 1
          BY <2>3
        <5>2. QED BY <4>1, <5>1 DEF Laid
      <4>3. start[a + 1] + length[a + 1] <= b
        BY <3>2, <4>1 DEF Laid
      <4>4. length[a + 1] \in Nat /\ TransferSize < length[a + 1] /\ start[a + 1] \in Nat
        BY <3>2, <4>1, LengthsFit
      <4>5. g + 1 < b
        <5>1. PICK c \in Nat, d \in Nat : c = start[a + 1] /\ d = length[a + 1]
          BY <4>4
        <5>2. got + 1 <= c
          <6>1. PICK e \in Nat, f \in Nat : e = start[a] /\ f = length[a]
            BY <3>3
          <6>2. got + 1 <= e + f /\ e + f <= c
            BY <2>2, <4>2, <5>1, <6>1
          <6>3. QED BY <1>1, <5>1, <6>1, <6>2, SMTT(30)
        <5>3. c + d <= b /\ TransferSize < d
          BY <4>3, <4>4, <5>1
        <5>4. QED BY <1>0, <1>1, <3>1, <5>1, <5>2, <5>3, SMTT(30)
      <4>6. QED BY <1>3, <3>1, <4>5
    <3>6. s \in Nat /\ s # a
      BY <2>4
    <3>7. QED BY <2>3, <3>4, <3>5, <3>6
  <2>5. QED BY <2>3, <2>4
<1>6. QED
  BY <1>4, <1>5

\* All but the damaged sentences are sound, and a lost transfer damages two.
Losses(length, start, hurt) ==
  /\ Laid(length, start)
  /\ hurt \subseteq Nat /\ IsFiniteSet(hurt) /\ Cardinality(hurt) <= 2 * (fails + drops)
  /\ \A s \in 2..MaxSentences : s \in hurt \/ Sound(start[s], length[s], s)
LossInv == \E length, start, hurt : Losses(length, start, hurt)

LEMMA TwoMore ==
  ASSUME NEW hurt, hurt \subseteq Nat, IsFiniteSet(hurt), NEW a \in Nat,
         NEW k \in Nat, Cardinality(hurt) <= 2 * k
  PROVE  /\ IsFiniteSet(hurt \cup {a, a + 1}) /\ hurt \cup {a, a + 1} \subseteq Nat
         /\ Cardinality(hurt \cup {a, a + 1}) <= 2 * (k + 1)
<1> DEFINE one == hurt \cup {a}
           two == one \cup {a + 1}
<1>1. IsFiniteSet(one) /\ (Cardinality(one) = Cardinality(hurt) \/ Cardinality(one) = Cardinality(hurt) + 1)
  BY FS_AddElement
<1>2. IsFiniteSet(two) /\ (Cardinality(two) = Cardinality(one) \/ Cardinality(two) = Cardinality(one) + 1)
  <2> HIDE DEF one
  <2>1. QED BY <1>1, FS_AddElement
<1>3. two = hurt \cup {a, a + 1}
  OBVIOUS
<1>4. Cardinality(hurt) \in Nat
  BY FS_CardinalityType
<1> HIDE DEF one, two
<1>5. Cardinality(two) <= 2 * (k + 1)
  BY <1>1, <1>2, <1>4
<1>6. QED
  BY <1>2, <1>3, <1>5

LEMMA HurtMore ==
  ASSUME NEW length, NEW start, NEW hurt, Losses(length, start, hurt), Types,
         buf = <<>>, received = <<>>, UNCHANGED <<stream, received, parsed>>,
         got' \in Nat, got <= got', got' <= got + TransferSize, got' <= Len(stream),
         fails' + drops' = (fails + drops) + 1
  PROVE  LossInv'
<1>1. fails + drops \in Nat
  BY ReaderAssumption DEF Types
<1>2. Laid(length, start) /\ hurt \subseteq Nat /\ IsFiniteSet(hurt)
      /\ Cardinality(hurt) <= 2 * (fails + drops)
  BY DEF Losses
<1>3. PICK a \in Nat : \A s \in 2..MaxSentences :
           Sound(start[s], length[s], s) => s \in {a, a + 1} \/ Sound(start[s], length[s], s)'
  BY <1>2, LostTransfer
<1> DEFINE more == hurt \cup {a, a + 1}
<1>4. IsFiniteSet(more) /\ more \subseteq Nat /\ Cardinality(more) <= 2 * (fails' + drops')
  BY <1>1, <1>2, TwoMore
<1>5. Laid(length, start)'
  BY <1>2 DEF Laid
<1>6. \A s \in 2..MaxSentences : s \in more \/ Sound(start[s], length[s], s)'
  BY <1>3 DEF Losses
<1> HIDE DEF more
<1>7. Losses(length, start, more)'
  BY <1>4, <1>5, <1>6 DEF Losses
<1>8. QED
  BY <1>7 DEF LossInv

LEMMA InitLosses == Init => LossInv
<1> SUFFICES ASSUME Init PROVE LossInv
  OBVIOUS
<1>1. PICK length, start : Laid(length, start)
  BY InitLaid
<1>2. /\ buf = <<>> /\ line = <<>> /\ fails = 0 /\ drops = 0 /\ got \in Nat /\ got <= Len(stream)
      /\ \A i \in 1..got : stream[i][1] = 1 /\ Char(stream[i]) # "LF"
  <2>1. Types
    BY InitInv DEF Inv
  <2>2. QED BY <2>1, LenProperties DEF Init, Types
\* The first transfer begins in the first sentence.
<1>3. ASSUME NEW s \in 2..MaxSentences PROVE Sound(start[s], length[s], s)
  <2> PICK b, n : b = start[s] /\ n = length[s]
    OBVIOUS
  <2>1. Placed(b, n, s)
    BY <1>1, LaidPlaced
  <2>2. b \in Nat /\ b > 1 /\ Char(stream[b]) = "LF"
    BY <2>1 DEF Placed
  <2>3. ~(got >= b)
    <3>1. got >= b => b \in 1..got
      BY <1>2, <2>2
    <3>2. QED BY <1>2, <2>2, <3>1
  <2>4. Clean /\ ~(got > b)
    BY <1>2, <2>2, <2>3 DEF Clean
  <2>5. QED BY <2>4 DEF Sound, Boundary, Flight
<1>4. IsFiniteSet({}) /\ Cardinality({}) = 0
  BY FS_EmptySet
<1>5. Losses(length, start, {})
  BY <1>1, <1>2, <1>3, <1>4 DEF Losses
<1>6. QED
  BY <1>5 DEF LossInv

LEMMA StepLosses == Inv /\ LossInv /\ [Next]_vars => LossInv'
<1> SUFFICES ASSUME Inv, LossInv, [Next]_vars PROVE LossInv'
  OBVIOUS
<1>1. PICK length, start, hurt : Losses(length, start, hurt)
  BY DEF LossInv
<1>2. Types /\ Laid(length, start)
  BY <1>1 DEF Inv, Losses
<1>3. Paired
  BY <1>2, LaidPaired
\* A step that keeps every sentence sound.
<1>4. ASSUME UNCHANGED <<stream, fails, drops>>,
             \A s \in 2..MaxSentences :
               Sound(start[s], length[s], s) => Sound(start[s], length[s], s)'
      PROVE  LossInv'
  <2>1. Losses(length, start, hurt)'
    BY <1>1, <1>4 DEF Losses, Laid
  <2>2. QED BY <2>1 DEF LossInv
<1>5. ASSUME NEW s \in 2..MaxSentences
      PROVE  Placed(start[s], length[s], s) /\ s \in 1..MaxSentences
  BY <1>2, LaidPlaced, ReaderAssumption
<1>6. CASE Refill
  <2>1. buf = <<>> /\ received = <<>> /\ UNCHANGED <<stream, received, parsed, fails>>
    BY <1>6 DEF Refill, lineVars
  <2>2. CASE drops' = drops
    <3>1. ASSUME NEW s \in 2..MaxSentences, Sound(start[s], length[s], s)
          PROVE  Sound(start[s], length[s], s)'
      BY <1>3, <1>5, <1>6, <2>2, <3>1, RefillFlight DEF Sound
    <3>2. QED BY <1>4, <2>1, <2>2, <3>1
  <2>3. CASE drops' # drops
    <3>1. PICK m \in 0..Min({TransferSize, Len(stream) - got}) :
            got' = got + m /\ drops' \in {drops, drops + 1}
      BY <1>6 DEF Refill
    <3>2. m \in Nat /\ m <= TransferSize /\ m <= Len(stream) - got /\ got \in Nat /\ Len(stream) \in Nat
          /\ TransferSize \in Nat
      <4>1. Len(stream) \in Nat /\ got \in Nat /\ Len(stream) - got \in Nat
        BY <1>2, LenProperties DEF Types
      <4>2. QED BY <4>1, MinOfTwo, ReaderAssumption
    <3>3. got' \in Nat /\ got <= got' /\ got' <= got + TransferSize /\ got' <= Len(stream)
      BY <3>1, <3>2
    <3>4. fails' + drops' = (fails + drops) + 1
      <4>1. fails' = fails /\ drops' = drops + 1
        BY <2>1, <2>3, <3>1
      <4>2. fails \in Nat /\ drops \in Nat
        BY <1>2, ReaderAssumption DEF Types
      <4>3. QED BY <4>1, <4>2
    <3>5. QED BY <1>1, <1>2, <2>1, <3>3, <3>4, HurtMore
  <2>4. QED BY <2>2, <2>3
<1>7. CASE RefillFails
  <2>1. buf = <<>> /\ received = <<>> /\ UNCHANGED <<stream, received, parsed, drops>>
    BY <1>7 DEF RefillFails, lineVars
  <2>2. got \in Nat /\ Len(stream) \in Nat /\ TransferSize \in Nat \ {0} /\ got <= Len(stream)
    BY <1>2, ReaderAssumption, LenProperties DEF Types
  <2>3. PICK g \in (got + 1)..Min({got + TransferSize, Len(stream)}) : got' = g
    BY <1>7 DEF RefillFails
  <2>4. got + TransferSize \in Nat
    BY <2>2
  <2>5. g \in Nat /\ got <= g /\ g <= got + TransferSize /\ g <= Len(stream)
    BY <2>2, <2>3, <2>4, MinOfTwo
  <2>6. fails' + drops' = (fails + drops) + 1
    <3>1. fails' = fails + 1 /\ drops' = drops
      BY <1>7, <2>1 DEF RefillFails
    <3>2. fails \in Nat /\ drops \in Nat
      BY <1>2, ReaderAssumption DEF Types
    <3>3. QED BY <3>1, <3>2
  <2>7. QED BY <1>1, <1>2, <2>1, <2>3, <2>5, <2>6, HurtMore
<1>8. CASE ReadChar
  <2>1. ASSUME NEW s \in 2..MaxSentences, Sound(start[s], length[s], s)
        PROVE  Sound(start[s], length[s], s)'
    <3>1. /\ start[s] \in Nat /\ length[s] \in Nat /\ 4 <= length[s] /\ length[s] <= LineCap
      BY <1>5 DEF Placed
    <3>2. QED BY <1>8, <2>1, <3>1, ReadCharFlight DEF Sound
  <2>2. QED BY <1>4, <1>8, <2>1 DEF ReadChar, lossVars
<1>9. CASE LineEnd
  <2>1. ASSUME NEW s \in 2..MaxSentences, Sound(start[s], length[s], s)
        PROVE  Sound(start[s], length[s], s)'
    <3>1. /\ start[s] \in Nat /\ length[s] \in Nat /\ 4 <= length[s] /\ length[s] <= LineCap
      BY <1>5 DEF Placed
    <3>2. QED BY <1>9, <2>1, <3>1, LineEndFlight DEF Sound
  <2>2. QED BY <1>4, <1>9, <2>1 DEF LineEnd, lossVars
<1>10. CASE Parse
  <2>1. ASSUME NEW s \in 2..MaxSentences, Sound(start[s], length[s], s)
        PROVE  Sound(start[s], length[s], s)'
    <3>1. start[s] \in Nat /\ length[s] \in Nat /\ s \in 1..MaxSentences
      BY <1>5 DEF Placed
    <3>2. QED BY <1>10, <2>1, <3>1, ParseFlight DEF Sound
  <2>2. QED BY <1>4, <1>10, <2>1 DEF Parse, lossVars
<1>11. CASE UNCHANGED vars
  <2>1. UNCHANGED <<stream, got, lastChar, buf, line, received, parsed, fails, drops>>
    BY <1>11 DEF vars, lineVars, lossVars
  <2>2. ASSUME NEW s \in 2..MaxSentences, Sound(start[s], length[s], s)
        PROVE  Sound(start[s], length[s], s)'
    BY <2>1, <2>2 DEF Sound, Boundary, Clean, Flight, Lying
  <2>3. QED BY <1>4, <2>1, <2>2
<1>12. QED
  BY <1>6, <1>7, <1>8, <1>9, <1>10, <1>11 DEF Next

\* What a sound sentence is, between two transfers: parsed, when it was handed over.
LEMMA LossFromInv == Inv /\ LossInv => LossBounded
<1> SUFFICES ASSUME Inv, LossInv, AllRead PROVE Cardinality(Missing) <= 2 * (fails + drops)
  BY DEF LossBounded
<1>1. PICK length, start, hurt : Losses(length, start, hurt)
  BY DEF LossInv
<1>2. Types /\ Laid(length, start) /\ buf = <<>> /\ received = <<>>
  BY <1>1 DEF Inv, Losses, AllRead
<1>3. Missing \subseteq hurt
  <2>1. SUFFICES ASSUME NEW s \in 2..MaxSentences, HandedOver(s, "LF"), s \notin Range(parsed), s \notin hurt
                 PROVE  FALSE
    BY DEF Missing
  <2> PICK b, n : b = start[s] /\ n = length[s]
    OBVIOUS
  <2>2. Placed(b, n, s) /\ Sound(b, n, s)
    BY <1>1, <1>2, <2>1, LaidPlaced DEF Losses
  <2>3. PICK k \in 1..got : stream[k][1] = s /\ Char(stream[k]) = "LF"
    BY <2>1 DEF HandedOver
  <2>4. got \in Nat /\ k \in 1..Len(stream) /\ k \in Nat /\ k <= got
    BY <1>2, LenProperties DEF Types
  <2>5. PICK t \in 1..MaxSentences : start[t] < k /\ k <= start[t] + length[t]
    BY <1>2, <2>4 DEF Laid
  <2> PICK c, d : c = start[t] /\ d = length[t]
    OBVIOUS
  <2>6. c \in Nat /\ d \in Nat /\ 4 <= d
    <3>1. length \in [1..MaxSentences -> Lengths] /\ start \in [1..(MaxSentences + 1) -> Nat]
      BY <1>2 DEF Laid
    <3>2. t \in 1..(MaxSentences + 1)
      BY ReaderAssumption
    <3>3. QED BY <3>1, <3>2, LengthsFit
  <2>7. k - c \in 1..d /\ k - c \in Nat /\ c + (k - c) = k
    BY <2>4, <2>5, <2>6
  <2>8. stream[k] = CellAt(t, k - c, d)
    <3>1. \A i \in 1..d : stream[c + i] = CellAt(t, i, d)
      BY <1>2 DEF Laid
    <3>2. QED BY <2>7, <3>1
  <2>9. t = s /\ k - c = d
    BY <2>3, <2>6, <2>7, <2>8, CellIs
  <2>10. got >= b + n
    <3>1. k = c + d
      BY <2>6, <2>7, <2>9
    <3>2. QED BY <2>4, <2>9, <3>1
  <2>11. s \in Range(parsed)
    BY <1>2, <2>2, <2>10, AllDone DEF Sound
  <2>12. QED BY <2>1, <2>11
<1>4. IsFiniteSet(hurt) /\ Cardinality(hurt) <= 2 * (fails + drops)
  BY <1>1 DEF Losses
<1>5. IsFiniteSet(Missing) /\ Cardinality(Missing) <= Cardinality(hurt)
  BY <1>3, <1>4, FS_Subset
<1>6. Cardinality(Missing) \in Nat /\ Cardinality(hurt) \in Nat /\ fails + drops \in Nat
  BY <1>2, <1>4, <1>5, FS_CardinalityType, ReaderAssumption DEF Types
<1>7. QED
  BY <1>4, <1>5, <1>6

\* Wherever the borders of the transfers fall, and however many fillers there are,
\* a transfer that fails or is taken for fillers costs at most two sentences
\* (Adafruit_GPS.cpp:305-334).
THEOREM LossesBounded == Spec => []LossBounded
<1>1. Inv /\ LossInv /\ Inv' /\ [Next]_vars => LossInv'
  BY StepLosses
<1>2. Spec => []LossInv
  BY <1>1, InitLosses, InvHolds, PTL DEF Spec
<1>3. QED
  BY <1>2, LossFromInv, InvHolds, PTL
=============================================================================
