----------------------------- MODULE GpsReader -----------------------------
(***************************************************************************)
(* How gps_process gets sentences out of the receiver: transfers of a      *)
(* fixed size, which the receiver fills up with line feeds when it has     *)
(* nothing to say; the buffer of the transfer; the line that read() puts   *)
(* together from it, cut at a maximal length; and parse(), which takes the *)
(* line when its checksum is right.                                        *)
(*                                                                         *)
(* A character is a cell <<sentence, place>>.  A sentence ends with its    *)
(* star (which stands for the checksum too), CR and LF; the checksum tells *)
(* any other string from a whole sentence.  A time is the cell that was    *)
(* being read then.  The receiver keeps what it has not been asked for.    *)
(***************************************************************************)
EXTENDS Naturals, SequencesExt

CONSTANTS
  MaxSentences,   \* bound on the sentences the receiver sends
  Lengths,        \* the lengths a sentence may have, CR and LF included
  TransferSize,   \* GPS_MAX_I2C_TRANSFER
  LineCap,        \* MAXLINELENGTH - 1
  MaxFails        \* bound on the transfers that fail

ASSUME ReaderAssumption ==
  /\ MaxSentences \in Nat \ {0} /\ Lengths \subseteq Nat \ 0..3
  /\ TransferSize \in Nat \ {0} /\ LineCap \in Nat \ {0} /\ MaxFails \in Nat
\* A transfer (32) is shorter than an RMC sentence (45 to 75), and this one is
\* shorter than the line (119).  Only LossBounded needs it: the reply to a command
\* is shorter, and may be lost together with the sentences on both sides of it.
ASSUME FitAssumption == \A n \in Lengths : TransferSize < n /\ n <= LineCap

VARIABLES
  stream,     \* everything the receiver is going to send
  got,        \* cells of it that the receiver has handed over
  lastChar,   \* the last character that was not skipped
  buf,        \* what is left of _i2cbuffer, from _buff_idx to _buff_max
  line,       \* currentline
  received,   \* lastline while recvdflag is set, else empty
  firstChar,  \* when the first character of the line was read; NoTime when none was
  sentTime,   \* firstChar of the last line
  parsed,     \* history: the sentences that parse accepted
  lastTime,   \* sentTime of the last one
  fails, drops  \* history: transfers that failed; that were taken for fillers

lineVars == <<line, received, firstChar, sentTime>>
lossVars == <<fails, drops>>
vars == <<stream, got, lastChar, buf, lineVars, parsed, lastTime, lossVars>>

-----------------------------------------------------------------------------
(* The receiver *)

Filler == <<0, 1, "LF">>
NoTime == <<0, 0, "none">>
Char(cell) == cell[3]

\* The cell at a place of a sentence of this length.
CellAt(s, place, length) ==
  <<s, place, CASE place = length -> "LF" [] place = length - 1 -> "CR"
                [] place = length - 2 -> "star" [] OTHER -> "text">>

\* Where sentence s ends, when the sentences have these lengths.
End(length, s) == Cardinality(UNION {{t} \X (1..length[t]) : t \in 1..s})
StreamOf(length) ==
  [k \in 1..End(length, MaxSentences) |->
     LET s == CHOOSE t \in 1..MaxSentences : End(length, t - 1) < k /\ k <= End(length, t)
     IN CellAt(s, k - End(length, s - 1), length[s])]
Streams == {StreamOf(length) : length \in [1..MaxSentences -> Lengths]}

\* The cell of sentence s with this character has been handed over.
HandedOver(s, char) == \E k \in 1..got : stream[k][1] = s /\ Char(stream[k]) = char

\* The receiver may be in the middle of a sentence when the first transfer asks.
Init == /\ stream \in Streams
        /\ got \in {k \in 0..Len(stream) : \A i \in 1..k : stream[i][1] = 1 /\ Char(stream[i]) # "LF"}
        /\ lastChar = "none" /\ buf = <<>>
        /\ line = <<>> /\ received = <<>>
        /\ firstChar = NoTime /\ sentTime = NoTime
        /\ parsed = <<>> /\ lastTime = NoTime
        /\ fails = 0 /\ drops = 0

-----------------------------------------------------------------------------
(* Adafruit_GPS::read, the transfer *)

\* An LF is kept only behind a CR.  (The one before it decides: an LF that was
\* skipped stood behind no CR, and lastChar has not moved since.)
Behind(raw, i) == IF i = 1 THEN lastChar ELSE Char(raw[i - 1])
Kept(raw) == {i \in DOMAIN raw : Char(raw[i]) # "LF" \/ Behind(raw, i) = "CR"}
\* The ways to list a set of numbers in order: there is one.
InOrder(places) == {at \in [1..Cardinality(places) -> places] : \A i, j \in DOMAIN at : i < j => at[i] < at[j]}

\* "ahh there was nothing to read after all"
NothingRead(kept) == Len(kept) = 1 /\ Char(kept[1]) = "LF"

Refill ==
  /\ buf = <<>> /\ received = <<>>
  /\ \E n \in 0..Min({TransferSize, Len(stream) - got}) :
       LET raw == [i \in 1..TransferSize |-> IF i <= n THEN stream[got + i] ELSE Filler]
       IN \E at \in InOrder(Kept(raw)) :
            LET kept == [j \in DOMAIN at |-> raw[at[j]]]
            IN /\ got' = got + n
               /\ lastChar' = IF kept = <<>> THEN lastChar ELSE Char(Last(kept))
               /\ buf' = IF NothingRead(kept) THEN <<>> ELSE kept
               /\ drops' = IF NothingRead(kept) THEN drops + 1 ELSE drops
  /\ UNCHANGED <<stream, lineVars, parsed, lastTime, fails>>

\* requestFrom returns less than it was asked for: nothing is taken, and what the
\* receiver had already put into the transfer is lost with it.
RefillFails ==
  /\ buf = <<>> /\ received = <<>> /\ fails < MaxFails
  /\ got' \in (got + 1)..Min({got + TransferSize, Len(stream)})
  /\ fails' = fails + 1
  /\ UNCHANGED <<stream, lastChar, buf, lineVars, parsed, lastTime, drops>>

-----------------------------------------------------------------------------
(* Adafruit_GPS::read, one character of the line *)

\* (Mutant: the length of the line is not limited.)
LengthenedAlways(cell) == Append(line, cell)
Lengthened(cell) == IF Len(line) < LineCap THEN Append(line, cell) ELSE line

ReadChar ==
  /\ buf # <<>> /\ received = <<>> /\ Char(Head(buf)) # "LF"
  /\ buf' = Tail(buf)
  /\ line' = Lengthened(Head(buf))
  /\ firstChar' = IF firstChar = NoTime THEN Head(buf) ELSE firstChar
  /\ UNCHANGED <<stream, got, lastChar, received, sentTime, parsed, lastTime, lossVars>>

\* (Mutants: firstChar is not reset; lineidx is not reset.)
LineEndKeepsTime ==
  /\ buf # <<>> /\ received = <<>> /\ Char(Head(buf)) = "LF"
  /\ buf' = Tail(buf)
  /\ received' = Lengthened(Head(buf)) /\ line' = <<>>
  /\ sentTime' = firstChar
  /\ UNCHANGED <<stream, got, lastChar, firstChar, parsed, lastTime, lossVars>>
LineEndKeepsLine ==
  /\ buf # <<>> /\ received = <<>> /\ Char(Head(buf)) = "LF"
  /\ buf' = Tail(buf)
  /\ received' = Lengthened(Head(buf)) /\ line' = received'
  /\ sentTime' = firstChar /\ firstChar' = NoTime
  /\ UNCHANGED <<stream, got, lastChar, parsed, lastTime, lossVars>>
LineEnd ==
  /\ buf # <<>> /\ received = <<>> /\ Char(Head(buf)) = "LF"
  /\ buf' = Tail(buf)
  /\ received' = Lengthened(Head(buf)) /\ line' = <<>>
  /\ sentTime' = firstChar /\ firstChar' = NoTime
  /\ UNCHANGED <<stream, got, lastChar, parsed, lastTime, lossVars>>

-----------------------------------------------------------------------------
(* gps_process: if (GPS.newNMEAreceived()) GPS.parse(GPS.lastNMEA()) *)

\* The checksum is looked for behind the last star, and found right only when
\* the line begins with a whole sentence that ends with this star.
Stars(text) == {i \in DOMAIN text : Char(text[i]) = "star"}
Valid(text, s) ==
  /\ Stars(text) # {}
  /\ \A i \in 1..Max(Stars(text)) : text[i][1] = s /\ text[i][2] = i

\* (Mutant: lastNMEA leaves the flag.)
LastNMEAKeepsFlag == UNCHANGED received
LastNMEA == received' = <<>>

Parse ==
  /\ received # <<>>
  /\ LastNMEA
  /\ \/ \E s \in 1..MaxSentences :
          /\ Valid(received, s)
          /\ parsed' = Append(parsed, s)
          /\ lastTime' = sentTime
     \/ /\ \A s \in 1..MaxSentences : ~Valid(received, s)
        /\ UNCHANGED <<parsed, lastTime>>
  /\ UNCHANGED <<stream, got, lastChar, buf, line, firstChar, sentTime, lossVars>>

Next == Refill \/ RefillFails \/ ReadChar \/ LineEnd \/ Parse
Spec == Init /\ [][Next]_vars

-----------------------------------------------------------------------------
Cells == Range(stream) \cup {Filler, NoTime}

\* Types; the buffer of the transfer and the line never overflow.
TypeOK ==
  /\ got \in 0..Len(stream)
  /\ lastChar \in {"none", "text", "star", "CR", "LF"}
  /\ Range(buf) \cup Range(line) \cup Range(received) \subseteq Cells
  /\ Len(buf) <= TransferSize /\ Len(line) <= LineCap /\ Len(received) <= LineCap
  /\ {firstChar, sentTime, lastTime} \subseteq Cells
  /\ Range(parsed) \subseteq 1..MaxSentences
  /\ fails \in 0..MaxFails /\ drops \in Nat

\* Whatever is lost on the way and wherever transfers and lines are cut, the
\* program takes sentences whole, in order, and each at most once (gps.ino:67).
Sentences == INSTANCE SentenceStream WITH
               sent <- Max({0} \cup {s \in 1..MaxSentences : HandedOver(s, "star")})
ImplementsStream == Sentences!Spec

\* The time of a sentence is the time of its own first character, not of another
\* line that a cut or a missing end has put before or behind it.
TimeIsOwn == parsed # <<>> => lastTime[1] = Last(parsed) /\ lastTime[2] = 1

\* The sentences that were handed over to the end, but not taken.  (Of the first
\* one, the beginning may have been sent before.)
Missing == {s \in 2..MaxSentences : HandedOver(s, "LF") /\ s \notin Range(parsed)}
AllRead == buf = <<>> /\ received = <<>>

\* A transfer that fails or is taken for fillers costs at most two sentences;
\* without one none is lost, wherever the borders of the transfers fall and
\* however many fillers there are (Adafruit_GPS.cpp:305-334).
LossBounded == AllRead => Cardinality(Missing) <= 2 * (fails + drops)
=============================================================================
