---------------------------- MODULE SdLogProofs ----------------------------
(***************************************************************************)
(* SdLog proved for every card, layout of sectors, rows and names.         *)
(*                                                                         *)
(* The invariant says who owns which cluster: a set used of clusters, the  *)
(* file that owns each of them and its number in the chain of that file.   *)
(* There is such a map in every state (Shape); a step gives the map of     *)
(* the next state: a new cluster at the end of the open file for a field   *)
(* that begins one, what is linked on the card alone after a restart, the  *)
(* same map for all others.  Beside it stand what is sure of a file (Sure: *)
(* the size in its entry, or its promise once a write has failed), where   *)
(* the cells of it are (OnCard), and where those of the open file beyond   *)
(* that are (InCache, BesideCache).                                        *)
(*                                                                         *)
(* From this the chain that a reader follows is the owned clusters in      *)
(* their order (ChainOf), and what it reads is what was printed            *)
(* (Readable); the theorems are at the end.                                *)
(***************************************************************************)
EXTENDS SdLog, WellFoundedInduction, SequenceTheorems, TLAPS

-----------------------------------------------------------------------------
(* Places in a file: cluster of the chain, sector of the cluster, cell of the *)
(* sector.                                                                    *)

ClusterOf(m) == m \div ClusterCells
SectorOf(m)  == (m % ClusterCells) \div SectorCells
CellOf(m)    == (m % SectorCells) + 1

LEMMA Sizes ==
  /\ SectorCells \in Nat \ {0} /\ SectorsPerCluster \in Nat \ {0} /\ ClusterCells \in Nat \ {0}
  /\ ClusterCells = SectorsPerCluster * SectorCells
<1>1. SectorCells \in Nat \ {0} /\ SectorsPerCluster \in Nat \ {0}
  BY LogAssumption
<1>2. SectorsPerCluster * SectorCells \in Nat \ {0}
  BY <1>1
<1>3. QED
  BY <1>1, <1>2 DEF ClusterCells

LEMMA Grows ==
  ASSUME NEW b \in Nat \ {0}, NEW x \in Nat, NEW y \in Nat, x < y
  PROVE  b * x + b <= b * y
<1>1. PICK d \in Nat : y = x + 1 + d
  <2>1. y - x - 1 \in Nat /\ y = x + 1 + (y - x - 1)
    OBVIOUS
  <2>2. QED BY <2>1
<1>2. b * y = b * x + b + b * d
  BY <1>1
<1>3. b * d \in Nat /\ b * x \in Nat
  OBVIOUS
<1>4. QED
  BY <1>2, <1>3

LEMMA Divided ==
  ASSUME NEW a \in Nat, NEW b \in Nat \ {0}
  PROVE  a \div b \in Nat /\ a % b \in 0..(b - 1) /\ a = b * (a \div b) + (a % b)
OBVIOUS

LEMMA DividedOnce ==
  ASSUME NEW a \in Nat, NEW b \in Nat \ {0}, NEW q \in Nat, NEW r \in 0..(b - 1), a = b * q + r
  PROVE  a \div b = q /\ a % b = r
<1>1. a \div b \in Nat /\ a % b \in 0..(b - 1) /\ a = b * (a \div b) + (a % b)
  BY Divided
<1> DEFINE p == a \div b
           t == a % b
<1> HIDE DEF p, t
<1>2. p \in Nat /\ t \in 0..(b - 1) /\ b * p + t = b * q + r
  BY <1>1 DEF p, t
<1>3. b * p \in Nat /\ b * q \in Nat
  BY <1>2
<1>4. ~(p < q)
  <2>1. SUFFICES ASSUME p < q PROVE FALSE
    OBVIOUS
  <2>2. b * p + b <= b * q
    BY <1>2, <2>1, Grows
  <2>3. QED BY <1>2, <1>3, <2>2
<1>5. ~(q < p)
  <2>1. SUFFICES ASSUME q < p PROVE FALSE
    OBVIOUS
  <2>2. b * q + b <= b * p
    BY <1>2, <2>1, Grows
  <2>3. QED BY <1>2, <1>3, <2>2
<1>6. p = q
  BY <1>2, <1>4, <1>5
<1>7. t = r
  BY <1>2, <1>3, <1>6
<1>8. QED
  BY <1>6, <1>7 DEF p, t

LEMMA Grid ==
  ASSUME NEW m \in Nat
  PROVE  /\ ClusterOf(m) \in Nat /\ SectorOf(m) \in 0..(SectorsPerCluster - 1) /\ CellOf(m) \in Slots
         /\ m % ClusterCells \in 0..(ClusterCells - 1)
         /\ m = ClusterCells * ClusterOf(m) + (m % ClusterCells)
         /\ m % ClusterCells = SectorCells * SectorOf(m) + (CellOf(m) - 1)
<1> DEFINE q == m \div ClusterCells
           r == m % ClusterCells
           s == r \div SectorCells
           t == r % SectorCells
<1>1. q \in Nat /\ r \in 0..(ClusterCells - 1) /\ m = ClusterCells * q + r
  BY Sizes, Divided
<1>2. r \in Nat
  BY <1>1, Sizes
<1>3. s \in Nat /\ t \in 0..(SectorCells - 1) /\ r = SectorCells * s + t
  BY <1>2, Sizes, Divided
<1> HIDE DEF q, r, s, t
<1>4. s < SectorsPerCluster
  <2>1. SUFFICES ASSUME SectorsPerCluster <= s PROVE FALSE
    BY <1>3, Sizes
  <2>2. SectorCells * SectorsPerCluster <= SectorCells * s
    <3>1. CASE SectorsPerCluster = s
      BY <1>3, <3>1, Sizes
    <3>2. CASE SectorsPerCluster < s
      <4>1. SectorCells * SectorsPerCluster + SectorCells <= SectorCells * s
        BY <1>3, <3>2, Sizes, Grows
      <4>2. SectorCells * SectorsPerCluster \in Nat /\ SectorCells * s \in Nat
        BY <1>3, Sizes
      <4>3. QED BY <4>1, <4>2, Sizes
    <3>3. QED BY <1>3, <2>1, <3>1, <3>2, Sizes
  <2>3. SectorCells * SectorsPerCluster = ClusterCells /\ SectorCells * s \in Nat
    BY <1>3, Sizes
  <2>4. QED BY <1>1, <1>2, <1>3, <2>2, <2>3, Sizes
<1>5. m % SectorCells = t
  <2>1. m = SectorCells * (SectorsPerCluster * q + s) + t
    <3>1. ClusterCells * q = SectorCells * (SectorsPerCluster * q)
      BY <1>1, Sizes
    <3>2. SectorsPerCluster * q \in Nat /\ SectorCells * (SectorsPerCluster * q + s) =
            SectorCells * (SectorsPerCluster * q) + SectorCells * s
      BY <1>1, <1>3, Sizes
    <3>3. SectorCells * (SectorsPerCluster * q) \in Nat /\ SectorCells * s \in Nat
      BY <1>3, <3>2, Sizes
    <3>4. QED BY <1>1, <1>3, <3>1, <3>2, <3>3
  <2>2. SectorsPerCluster * q + s \in Nat
    BY <1>1, <1>3, Sizes
  <2>3. QED
    BY <1>3, <2>1, <2>2, Sizes, DividedOnce
<1>6. CellOf(m) = t + 1 /\ SectorOf(m) = s /\ ClusterOf(m) = q
  BY <1>5 DEF CellOf, SectorOf, ClusterOf, q, r, s
<1>7. t + 1 \in Slots /\ s \in 0..(SectorsPerCluster - 1) /\ (t + 1) - 1 = t
  BY <1>3, <1>4, Sizes DEF Slots
<1>8. QED
  BY <1>1, <1>3, <1>6, <1>7 DEF r

\* Places are in the order of positions.
LEMMA PlacesInOrder ==
  ASSUME NEW m \in Nat, NEW p \in Nat, m < p
  PROVE  \/ ClusterOf(m) < ClusterOf(p)
         \/ ClusterOf(m) = ClusterOf(p) /\ SectorOf(m) < SectorOf(p)
         \/ ClusterOf(m) = ClusterOf(p) /\ SectorOf(m) = SectorOf(p) /\ CellOf(m) < CellOf(p)
<1> DEFINE q1 == ClusterOf(m)
           r1 == m % ClusterCells
           s1 == SectorOf(m)
           t1 == CellOf(m)
           q2 == ClusterOf(p)
           r2 == p % ClusterCells
           s2 == SectorOf(p)
           t2 == CellOf(p)
<1>1. /\ q1 \in Nat /\ r1 \in 0..(ClusterCells - 1) /\ s1 \in 0..(SectorsPerCluster - 1) /\ t1 \in 1..SectorCells
      /\ q2 \in Nat /\ r2 \in 0..(ClusterCells - 1) /\ s2 \in 0..(SectorsPerCluster - 1) /\ t2 \in 1..SectorCells
      /\ m = ClusterCells * q1 + r1 /\ p = ClusterCells * q2 + r2
      /\ r1 = SectorCells * s1 + (t1 - 1) /\ r2 = SectorCells * s2 + (t2 - 1)
  BY Grid DEF Slots
<1> HIDE DEF q1, r1, s1, t1, q2, r2, s2, t2
<1>2. /\ r1 \in Nat /\ r2 \in Nat /\ s1 \in Nat /\ s2 \in Nat /\ t1 \in Nat /\ t2 \in Nat
      /\ ClusterCells * q1 \in Nat /\ ClusterCells * q2 \in Nat /\ SectorCells * s1 \in Nat /\ SectorCells * s2 \in Nat
  BY <1>1, Sizes
<1>3. ~(q2 < q1)
  <2>1. SUFFICES ASSUME q2 < q1 PROVE FALSE
    OBVIOUS
  <2>2. ClusterCells * q2 + ClusterCells <= ClusterCells * q1
    BY <1>1, <2>1, Sizes, Grows
  <2>3. QED BY <1>1, <1>2, <2>2, Sizes
<1>4. q1 = q2 => r1 < r2
  BY <1>1, <1>2, Sizes
<1>5. r1 < r2 => ~(s2 < s1)
  <2>1. SUFFICES ASSUME r1 < r2, s2 < s1 PROVE FALSE
    OBVIOUS
  <2>2. SectorCells * s2 + SectorCells <= SectorCells * s1
    BY <1>2, <2>1, Sizes, Grows
  <2>3. QED BY <1>1, <1>2, <2>1, <2>2, Sizes
<1>6. r1 < r2 /\ s1 = s2 => t1 < t2
  BY <1>1, <1>2, Sizes
<1>7. \/ q1 < q2
      \/ q1 = q2 /\ s1 < s2
      \/ q1 = q2 /\ s1 = s2 /\ t1 < t2
  BY <1>1, <1>2, <1>3, <1>4, <1>5, <1>6
<1>8. QED
  BY <1>7 DEF q1, s1, t1, q2, s2, t2

\* A position at the beginning of a cluster; the next position.
LEMMA ClusterBegins ==
  ASSUME NEW m \in Nat, NEW p \in Nat, m < p, p % ClusterCells = 0
  PROVE  ClusterOf(m) < ClusterOf(p)
<1> DEFINE q1 == ClusterOf(m)
           r1 == m % ClusterCells
           q2 == ClusterOf(p)
<1>1. /\ q1 \in Nat /\ r1 \in Nat /\ q2 \in Nat
      /\ m = ClusterCells * q1 + r1 /\ p = ClusterCells * q2
  <2>1. /\ q1 \in Nat /\ r1 \in 0..(ClusterCells - 1) /\ q2 \in Nat
        /\ m = ClusterCells * q1 + r1 /\ p = ClusterCells * q2 + (p % ClusterCells)
    BY Grid
  <2>2. ClusterCells * q2 \in Nat
    BY <2>1, Sizes
  <2> HIDE DEF q1, r1, q2
  <2>3. QED BY <2>1, <2>2, Sizes
<1> HIDE DEF q1, r1, q2
<1>2. ClusterCells * q1 \in Nat /\ ClusterCells * q2 \in Nat
  BY <1>1, Sizes
<1>3. ~(q2 = q1) /\ ~(q2 < q1)
  <2>1. ~(q2 = q1)
    BY <1>1, <1>2
  <2>2. ASSUME q2 < q1 PROVE FALSE
    <3>1. ClusterCells * q2 + ClusterCells <= ClusterCells * q1
      BY <1>1, <2>2, Sizes, Grows
    <3>2. QED BY <1>1, <1>2, <3>1, Sizes
  <2>3. QED BY <2>1, <2>2
<1>4. QED
  BY <1>1, <1>3 DEF q1, q2

LEMMA NextPlace ==
  ASSUME NEW p \in Nat
  PROVE  IF (p + 1) % ClusterCells = 0 THEN ClusterOf(p + 1) = ClusterOf(p) + 1
                                       ELSE ClusterOf(p + 1) = ClusterOf(p)
<1> DEFINE q == ClusterOf(p)
           r == p % ClusterCells
<1>1. q \in Nat /\ r \in 0..(ClusterCells - 1) /\ p = ClusterCells * q + r
  BY Grid
<1> HIDE DEF q, r
<1>2. ClusterCells * q \in Nat /\ r \in Nat
  BY <1>1, Sizes
<1>3. CASE r + 1 = ClusterCells
  <2>1. p + 1 = ClusterCells * (q + 1) + 0
    BY <1>1, <1>2, <1>3, Sizes
  <2>2. q + 1 \in Nat /\ 0 \in 0..(ClusterCells - 1) /\ p + 1 \in Nat
    BY <1>1, Sizes
  <2>3. (p + 1) \div ClusterCells = q + 1 /\ (p + 1) % ClusterCells = 0
    BY <2>1, <2>2, Sizes, DividedOnce
  <2>4. QED BY <2>3 DEF ClusterOf, q
<1>4. CASE r + 1 # ClusterCells
  <2>1. p + 1 = ClusterCells * q + (r + 1)
    BY <1>1, <1>2
  <2>2. r + 1 \in 0..(ClusterCells - 1) /\ p + 1 \in Nat
    BY <1>1, <1>2, <1>4, Sizes
  <2>3. (p + 1) \div ClusterCells = q /\ (p + 1) % ClusterCells = r + 1
    BY <1>1, <2>1, <2>2, Sizes, DividedOnce
  <2>4. r + 1 # 0
    BY <1>2
  <2>5. QED BY <2>3, <2>4 DEF ClusterOf, q
<1>5. QED
  BY <1>3, <1>4

LEMMA FirstPlace == ClusterOf(0) = 0 /\ 0 % ClusterCells = 0
<1>1. 0 = ClusterCells * 0 + 0 /\ 0 \in 0..(ClusterCells - 1) /\ 0 \in Nat
  BY Sizes
<1>2. QED
  BY <1>1, Sizes, DividedOnce DEF ClusterOf

-----------------------------------------------------------------------------
(* The inductive invariant *)

Named   == {f \in Names : promised[f] # <<>>}
Owns(f) == f \in Named \/ (file.open /\ f = file.name)
Begins(s, t) == Len(s) <= Len(t) /\ \A n \in 1..Len(s) : s[n] = t[n]

Entries == [exists : BOOLEAN, size : Nat, first : Clusters \cup {0}]

CardTypes ==
  /\ dir \in [Names -> Entries]
  /\ fat \in [Clusters -> Clusters \cup {Free, EOC}]
  /\ fatRam \in [Clusters -> Clusters \cup {Free, EOC}]
  /\ data \in [Sectors -> [Slots -> Cells]]
CacheTypes ==
  /\ DOMAIN cache = {"sector", "dirty", "cells", "entries"}
  /\ cache.sector \in Sectors \cup {DirSector, NoSector} /\ cache.dirty \in BOOLEAN
  /\ cache.cells \in [Slots -> Cells]
  /\ cache.sector = DirSector => cache.entries \in [Names -> Entries]
FileTypes ==
  /\ DOMAIN file = {"open", "name", "first", "cur", "pos", "dirty"}
  /\ file.open \in BOOLEAN /\ file.dirty \in BOOLEAN /\ file.pos \in Nat
  /\ file.first \in Clusters \cup {0} /\ file.cur \in Clusters \cup {0}
  /\ file.open <=> pc # "open"
  /\ file.open => file.name \in Names
PlaceTypes ==
  /\ pc \in {"open", "print", "flush", "sync_data", "sync_fat", "stop"}
  /\ row \in 1..(MaxRows + 1) /\ cell \in 1..RowCells
  /\ pc # "stop" => row <= MaxRows
HistoryTypes ==
  /\ printed \in [Names -> Seq(Cells)] /\ promised \in [Names -> Seq(Cells)]
  /\ spoilt \subseteq Names
Types == CardTypes /\ CacheTypes /\ FileTypes /\ PlaceTypes /\ HistoryTypes

\* The FAT on the card lags behind the cached one, and no link leads to a free cluster.
FatInv ==
  /\ \A c \in Clusters : fat[c] # Free => fatRam[c] # Free
  /\ \A c \in Clusters : fat[c] \in Clusters => fatRam[c] = fat[c] /\ fat[fat[c]] # Free
  /\ \A c \in Clusters : fatRam[c] \in Clusters => fatRam[fatRam[c]] # Free

\* The clusters used by the files with a promise and by the open one: cluster c is the
\* index[c]th of owner[c], and both copies of the FAT link them in this order.
Linked(used, owner, index) ==
  /\ \A c \in used : fatRam[c] # Free /\ Owns(owner[c])
  /\ \A c, d \in used : owner[c] = owner[d] /\ index[c] = index[d] => c = d
  /\ \A c \in used : fatRam[c] \in Clusters =>
       fatRam[c] \in used /\ owner[fatRam[c]] = owner[c] /\ index[fatRam[c]] = index[c] + 1
  /\ \A c, d \in used : owner[d] = owner[c] /\ index[d] = index[c] + 1 =>
       fatRam[c] = d /\ (fat[d] # Free => fat[c] = d)

\* What the card has of a file with a promise.
KeptFile(f, used, owner, index) ==
  /\ dir[f].exists /\ dir[f].first \in used
  /\ owner[dir[f].first] = f /\ index[dir[f].first] = 0
  /\ Len(promised[f]) <= dir[f].size /\ dir[f].size <= Len(printed[f])
  /\ \A n \in Nat : n < Len(promised[f]) =>
       \E c \in used : owner[c] = f /\ index[c] = ClusterOf(n) /\ fat[c] # Free
  /\ Begins(promised[f], printed[f])
KeptFiles(used, owner, index) == \A f \in Named : KeptFile(f, used, owner, index)

\* The open file: cur is the last cluster of its chain; after a failed write the chain
\* may be longer than the position says.
Turn == IF NeedsCluster THEN 1 ELSE 0
OpenFile(used, owner, index) ==
  /\ file.pos = Len(printed[file.name])
  /\ file.cur = 0 => file.pos = 0 /\ file.first = 0 /\ \A c \in used : owner[c] # file.name
  /\ file.cur # 0 =>
       /\ file.first \in used /\ owner[file.first] = file.name /\ index[file.first] = 0
       /\ file.cur \in used /\ owner[file.cur] = file.name
       /\ \A c \in used : owner[c] = file.name => index[c] <= index[file.cur]
       /\ \A k \in Nat : k <= index[file.cur] => \E c \in used : owner[c] = file.name /\ index[c] = k
       /\ ClusterOf(file.pos) <= index[file.cur] + Turn
       /\ file.name \notin spoilt => ClusterOf(file.pos) = index[file.cur] + Turn
Extended(used, owner, index) == file.open => OpenFile(used, owner, index)

\* The entry of the open file, and the directory in the cache.
Entry == IF cache.sector = DirSector THEN cache.entries[file.name] ELSE dir[file.name]
CachedDir ==
  /\ \A g \in Names : g # file.name => cache.entries[g] = dir[g]
  /\ cache.entries[file.name].size <= file.pos
  /\ cache.entries[file.name].exists
  /\ file.name \in Named =>
       /\ cache.entries[file.name].first = dir[file.name].first
       /\ Len(promised[file.name]) <= cache.entries[file.name].size
  /\ ~cache.dirty => cache.entries = dir
DirInv ==
  /\ cache.sector # NoSector => file.open
  /\ \A g \in Names : ~dir[g].exists => dir[g].size = 0
  /\ file.open /\ ~file.dirty =>
       Entry.exists /\ Entry.size = file.pos /\ Entry.first = file.first
  /\ cache.sector = DirSector => CachedDir
  /\ pc \in {"sync_data", "sync_fat"} => ~file.dirty
  /\ pc = "sync_fat" => ~cache.dirty

\* What was printed to a file: on the card as far as it is sure, and of the open file
\* the rest is on the card or in the cache.
Sure(f) == IF f \in spoilt THEN Len(promised[f]) ELSE dir[f].size
Bound   == IF file.name \in spoilt THEN Len(promised[file.name]) ELSE file.pos

OnCard(used, owner, index) ==
  \A f \in Named : \A m \in Nat : \A c \in used :
    m < Sure(f) /\ owner[c] = f /\ index[c] = ClusterOf(m) =>
      data[<<c, SectorOf(m)>>][CellOf(m)] = printed[f][m + 1]
InCache(used, owner, index) ==
  cache.sector \in Sectors =>
    /\ cache.sector[1] \in used /\ owner[cache.sector[1]] = file.name
    /\ ~cache.dirty => data[cache.sector] = cache.cells
    /\ \A m \in Nat : m < Bound /\ index[cache.sector[1]] = ClusterOf(m) /\ cache.sector[2] = SectorOf(m) =>
         cache.cells[CellOf(m)] = printed[file.name][m + 1]
BesideCache(used, owner, index) ==
  file.open /\ file.name \notin spoilt =>
    \A m \in Nat : \A c \in used :
      m < file.pos /\ owner[c] = file.name /\ index[c] = ClusterOf(m) /\ <<c, SectorOf(m)>> # cache.sector =>
        data[<<c, SectorOf(m)>>][CellOf(m)] = printed[file.name][m + 1]

Shape(used, owner, index) ==
  /\ used \subseteq Clusters /\ owner \in [Clusters -> Nat] /\ index \in [Clusters -> Nat]
  /\ Linked(used, owner, index)
  /\ KeptFiles(used, owner, index)
  /\ Extended(used, owner, index)
  /\ OnCard(used, owner, index)
  /\ InCache(used, owner, index)
  /\ BesideCache(used, owner, index)

Inv == Types /\ FatInv /\ DirInv /\ \E used, owner, index : Shape(used, owner, index)

-----------------------------------------------------------------------------
LEMMA Numbers ==
  /\ 0 \notin Clusters /\ EOC \notin Clusters /\ EOC # Free /\ Free \notin Clusters
  /\ DirSector \notin Sectors /\ NoSector \notin Sectors /\ DirSector # NoSector
  /\ MaxRows \in Nat \ {0} /\ RowCells \in Nat \ {0}
BY LogAssumption DEF Clusters, EOC, Free, DirSector, NoSector, Sectors

LEMMA InitInv == Init => Inv
<1> SUFFICES ASSUME Init PROVE Inv
  OBVIOUS
<1>1. Empty \in [Slots -> Cells] /\ Junk \in Cells
  BY DEF Empty, Cells
<1>2. NoEntry \in Entries
  BY DEF NoEntry, Entries
<1>3. Types
  <2> USE DEF Init
  <2>1. CardTypes
    BY <1>1, <1>2 DEF CardTypes
  <2>2. CacheTypes
    BY <1>1, Numbers DEF CacheTypes, NoCache
  <2>3. FileTypes
    BY DEF FileTypes, NoFile
  <2>4. PlaceTypes /\ HistoryTypes
    BY Numbers DEF PlaceTypes, HistoryTypes
  <2>5. QED
    BY <2>1, <2>2, <2>3, <2>4 DEF Types
<1>4. FatInv
  BY Numbers DEF Init, FatInv, Free
<1>5. cache.sector = NoSector /\ ~file.open /\ Named = {} /\ pc = "open"
  BY DEF Init, NoCache, NoFile, Named
<1>6. DirInv
  BY <1>5, Numbers DEF DirInv, Init, NoEntry
<1>7. Shape({}, [c \in Clusters |-> 0], [c \in Clusters |-> 0])
  BY <1>5, Numbers DEF Shape, Linked, KeptFiles, Extended, OnCard, InCache, BesideCache
<1>8. QED
  BY <1>3, <1>4, <1>6, <1>7 DEF Inv

-----------------------------------------------------------------------------
\* A restart: what the cached FAT had beyond the card is forgotten, and with it the
\* clusters of a file without a promise.
LEMMA RestartInv == Inv /\ Restart => Inv'
<1> SUFFICES ASSUME Inv, Restart PROVE Inv'
  OBVIOUS
<1> USE DEF Inv
<1>1. /\ cache' = NoCache /\ fatRam' = fat /\ file' = NoFile
      /\ pc' = "open" /\ row' = 1 /\ cell' = 1
      /\ UNCHANGED <<dir, fat, data, printed, promised, spoilt>>
  BY DEF Restart, cardVars
<1>2. /\ cache'.sector = NoSector /\ ~file'.open /\ Named' = Named
  BY <1>1 DEF NoCache, NoFile, Named
<1>3. Types'
  <2>1. Empty \in [Slots -> Cells]
    BY DEF Empty, Cells
  <2>2. CardTypes' /\ HistoryTypes'
    BY <1>1 DEF Types, CardTypes, HistoryTypes
  <2>3. CacheTypes'
    BY <1>1, <2>1, Numbers DEF CacheTypes, NoCache
  <2>4. FileTypes'
    BY <1>1 DEF FileTypes, NoFile
  <2>5. PlaceTypes'
    BY <1>1, Numbers DEF PlaceTypes
  <2>6. QED
    BY <2>2, <2>3, <2>4, <2>5 DEF Types
<1>4. FatInv'
  BY <1>1, Numbers DEF FatInv
<1>5. DirInv'
  BY <1>1, <1>2, Numbers DEF DirInv
<1>6. PICK used, owner, index : Shape(used, owner, index)
  OBVIOUS
<1> PICK left : left = {c \in used : owner[c] \in Named /\ fat[c] # Free}
  OBVIOUS
<1>7. left \subseteq Clusters /\ owner \in [Clusters -> Nat] /\ index \in [Clusters -> Nat]
  BY <1>6 DEF Shape
<1>8. Linked(left, owner, index)'
  <2>1. \A c \in left : fatRam'[c] # Free /\ Owns(owner[c])'
    BY <1>1, <1>2 DEF Owns
  <2>2. \A c, d \in left : owner[c] = owner[d] /\ index[c] = index[d] => c = d
    BY <1>6 DEF Shape, Linked
  <2>3. ASSUME NEW c \in left, fatRam'[c] \in Clusters
        PROVE  fatRam'[c] \in left /\ owner[fatRam'[c]] = owner[c] /\ index[fatRam'[c]] = index[c] + 1
    <3>1. fatRam[c] = fat[c] /\ fat[fat[c]] # Free
      BY <1>1, <1>7, <2>3 DEF FatInv
    <3>2. fat[c] \in used /\ owner[fat[c]] = owner[c] /\ index[fat[c]] = index[c] + 1
      BY <1>1, <1>6, <2>3, <3>1 DEF Shape, Linked
    <3>3. QED
      BY <1>1, <3>1, <3>2
  <2>4. ASSUME NEW c \in left, NEW d \in left, owner[d] = owner[c] /\ index[d] = index[c] + 1
        PROVE  fatRam'[c] = d /\ (fat'[d] # Free => fat'[c] = d)
    BY <1>1, <1>6, <2>4 DEF Shape, Linked
  <2>5. QED
    BY <2>1, <2>2, <2>3, <2>4 DEF Linked
<1>9. KeptFiles(left, owner, index)'
  <2>1. SUFFICES ASSUME NEW f \in Named PROVE KeptFile(f, left, owner, index)'
    BY <1>2 DEF KeptFiles
  <2>2. KeptFile(f, used, owner, index)
    BY <1>6 DEF Shape, KeptFiles
  <2>3. ASSUME NEW n \in Nat, n < Len(promised[f])
        PROVE  \E c \in left : owner[c] = f /\ index[c] = ClusterOf(n) /\ fat[c] # Free
    BY <2>2, <2>3 DEF KeptFile
  <2>4. dir[f].first \in left
    <3>1. Len(promised[f]) \in Nat \ {0}
      BY EmptySeq, LenProperties DEF Named, Types, HistoryTypes
    <3>2. PICK c \in left : owner[c] = f /\ index[c] = ClusterOf(0)
      BY <2>3, <3>1
    <3>3. c = dir[f].first
      BY <1>6, <2>2, <3>2, FirstPlace DEF Shape, Linked, KeptFile
    <3>4. QED BY <3>2, <3>3
  <2>5. QED
    BY <1>1, <2>2, <2>3, <2>4 DEF KeptFile
<1>10. Extended(left, owner, index)' /\ InCache(left, owner, index)' /\ BesideCache(left, owner, index)'
  BY <1>2, Numbers, <1>1 DEF Extended, InCache, BesideCache
<1>11. OnCard(left, owner, index)'
  BY <1>1, <1>2, <1>6 DEF Shape, OnCard, Sure
<1>12. Shape(left, owner, index)'
  BY <1>7, <1>8, <1>9, <1>10, <1>11 DEF Shape
<1>13. QED
  <2>1. (\E u, o, i : Shape(u, o, i))'
    BY <1>12
  <2>2. QED BY <1>3, <1>4, <1>5, <2>1

\* A new file takes a name that no file with a promise has.
LEMMA OpenInv == Inv /\ Open => Inv'
<1> SUFFICES ASSUME Inv, Open PROVE Inv'
  OBVIOUS
<1> USE DEF Inv
<1>1. PICK f \in FreshIn(dir) :
        /\ cache' = [sector |-> DirSector, dirty |-> TRUE, cells |-> Empty,
                     entries |-> [dir EXCEPT ![f] = [NoEntry EXCEPT !.exists = TRUE]]]
        /\ file' = [NoFile EXCEPT !.open = TRUE, !.name = f]
        /\ printed' = [printed EXCEPT ![f] = <<>>] /\ spoilt' = spoilt \ {f}
  BY DEF Open
<1>2. /\ pc = "open" /\ pc' = "print" /\ row' = 1 /\ cell' = 1
      /\ UNCHANGED <<dir, fat, data, fatRam, promised>>
  BY DEF Open, cardVars
<1>3. /\ DOMAIN file' = {"open", "name", "first", "cur", "pos", "dirty"}
      /\ file'.open = TRUE /\ file'.name = f /\ file'.first = 0 /\ file'.cur = 0
      /\ file'.pos = 0 /\ file'.dirty = FALSE
  BY <1>1 DEF NoFile
<1>4. /\ DOMAIN cache' = {"sector", "dirty", "cells", "entries"}
      /\ cache'.sector = DirSector /\ cache'.dirty = TRUE /\ cache'.cells = Empty
      /\ cache'.entries = [dir EXCEPT ![f] = [NoEntry EXCEPT !.exists = TRUE]]
  BY <1>1
<1>5. f \in Names /\ ~dir[f].exists /\ ~file.open /\ Named' = Named
  BY <1>2 DEF FreshIn, Types, FileTypes, Named
<1>6. [NoEntry EXCEPT !.exists = TRUE] \in Entries
      /\ [NoEntry EXCEPT !.exists = TRUE].size = 0 /\ [NoEntry EXCEPT !.exists = TRUE].first = 0
      /\ [NoEntry EXCEPT !.exists = TRUE].exists = TRUE
  BY DEF NoEntry, Entries
<1>7. /\ cache'.entries \in [Names -> Entries]
      /\ \A g \in Names : g # f => cache'.entries[g] = dir[g]
      /\ cache'.entries[f].size = 0 /\ cache'.entries[f].first = 0 /\ cache'.entries[f].exists = TRUE
  BY <1>4, <1>5, <1>6 DEF Types, CardTypes
<1>8. PICK used, owner, index : Shape(used, owner, index)
  OBVIOUS
<1>9. f \notin Named
  BY <1>5, <1>8 DEF Shape, KeptFiles, KeptFile
<1>10. \A c \in used : owner[c] \in Named /\ owner[c] # f
  BY <1>5, <1>8, <1>9 DEF Shape, Linked, Owns
<1>11. printed'[f] = <<>> /\ \A g \in Named : g # f /\ g \in Names /\ printed'[g] = printed[g] /\ (g \in spoilt' <=> g \in spoilt)
  BY <1>1, <1>5, <1>9 DEF Types, HistoryTypes, Named
<1>12. Types'
  <2>1. Empty \in [Slots -> Cells]
    BY DEF Empty, Cells
  <2>2. CardTypes'
    BY <1>2 DEF Types, CardTypes
  <2>3. CacheTypes'
    BY <1>4, <1>7, <2>1 DEF CacheTypes
  <2>4. FileTypes'
    <3>1. file'.open <=> pc' # "open"
      BY <1>2, <1>3
    <3>2. file'.open \in BOOLEAN /\ file'.dirty \in BOOLEAN
      BY <1>3
    <3>3. file'.pos \in Nat /\ file'.first \in Clusters \cup {0} /\ file'.cur \in Clusters \cup {0}
      BY <1>3
    <3>4. file'.name \in Names
      BY <1>3, <1>5
    <3>5. QED
      BY <1>3, <3>1, <3>2, <3>3, <3>4 DEF FileTypes
  <2>5. PlaceTypes'
    BY <1>2, Numbers DEF PlaceTypes
  <2>6. HistoryTypes'
    BY <1>1, <1>2, <1>5 DEF Types, HistoryTypes
  <2>7. QED
    BY <2>2, <2>3, <2>4, <2>5, <2>6 DEF Types
<1>13. FatInv'
  BY <1>2 DEF FatInv
<1>14. DirInv'
  <2>1. Entry' = cache'.entries[f]
    BY <1>3, <1>4 DEF Entry
  <2>2. CachedDir'
    BY <1>2, <1>3, <1>4, <1>5, <1>7, <1>9 DEF CachedDir
  <2>3. QED
    BY <1>2, <1>3, <1>4, <1>7, <2>1, <2>2 DEF DirInv
<1>15. Linked(used, owner, index)'
  BY <1>2, <1>5, <1>8, <1>10 DEF Shape, Linked, Owns
<1>16. KeptFiles(used, owner, index)'
  <2>1. SUFFICES ASSUME NEW g \in Named PROVE KeptFile(g, used, owner, index)'
    BY <1>5 DEF KeptFiles
  <2>2. KeptFile(g, used, owner, index) /\ printed'[g] = printed[g]
    BY <1>8, <1>11 DEF Shape, KeptFiles
  <2>3. QED
    BY <1>2, <2>2 DEF KeptFile, Begins
<1>17. Extended(used, owner, index)'
  BY <1>3, <1>10, <1>11 DEF Extended, OpenFile
<1>18. OnCard(used, owner, index)'
  <2>1. \A g \in Named : Sure(g)' = Sure(g)
    BY <1>2, <1>11 DEF Sure
  <2>2. QED
    BY <1>2, <1>5, <1>8, <1>9, <1>11, <2>1 DEF Shape, OnCard
<1>19. InCache(used, owner, index)' /\ BesideCache(used, owner, index)'
  BY <1>3, <1>4, <1>10, Numbers DEF InCache, BesideCache
<1>20. (\E u, o, i : Shape(u, o, i))'
  BY <1>8, <1>15, <1>16, <1>17, <1>18, <1>19 DEF Shape
<1>21. QED
  BY <1>12, <1>13, <1>14, <1>20

LEMMA NextCellTypes ==
  ASSUME Types, pc = "print", NextCell
  PROVE  cell' \in 1..RowCells /\ pc' \in {"print", "flush"}
BY Numbers DEF NextCell, Types, PlaceTypes

\* A full card leaves everything but the place in the program as it was.
LEMMA PrintNoSpaceInv == Inv /\ PrintNoSpace => Inv'
<1> SUFFICES ASSUME Inv, PrintNoSpace PROVE Inv'
  OBVIOUS
<1> USE DEF Inv
<1>1. /\ pc = "print" /\ cell' \in 1..RowCells /\ pc' \in {"print", "flush"}
      /\ UNCHANGED <<dir, fat, data, cache, fatRam, file, row, printed, promised, spoilt>>
  BY NextCellTypes DEF PrintNoSpace, cardVars, ramVars
<1>2. Types'
  BY <1>1 DEF Types, CardTypes, CacheTypes, FileTypes, PlaceTypes, HistoryTypes
<1>3. FatInv' /\ DirInv'
  BY <1>1 DEF FatInv, DirInv, CachedDir, Entry, Named
<1>4. PICK used, owner, index : Shape(used, owner, index)
  OBVIOUS
<1>5. /\ Linked(used, owner, index)' /\ KeptFiles(used, owner, index)'
  BY <1>1, <1>4 DEF Shape, Linked, Owns, Named, KeptFiles, KeptFile
<1>6. Extended(used, owner, index)'
  BY <1>1, <1>4 DEF Shape, Extended, OpenFile, Turn, NeedsCluster
<1>7. /\ OnCard(used, owner, index)' /\ InCache(used, owner, index)' /\ BesideCache(used, owner, index)'
  <2>1. OnCard(used, owner, index)'
    BY <1>1, <1>4, SMTT(30) DEF Shape, OnCard, Sure, Named
  <2>2. InCache(used, owner, index)'
    BY <1>1, <1>4, SMTT(30) DEF Shape, InCache, Sure, Bound, Named
  <2>3. BesideCache(used, owner, index)'
    BY <1>1, <1>4, SMTT(30) DEF Shape, BesideCache, Sure, Bound, Named
  <2>4. QED BY <2>1, <2>2, <2>3
<1>8. (\E u, o, i : Shape(u, o, i))'
  BY <1>4, <1>5, <1>6, <1>7 DEF Shape
<1>9. QED
  BY <1>2, <1>3, <1>8

-----------------------------------------------------------------------------
\* Facts about a promise: empty or of a named file, and no longer than what is sure.
LEMMA Promised ==
  ASSUME Types, NEW used, NEW owner, NEW index, Shape(used, owner, index)
  PROVE  /\ \A f \in Names : Len(promised[f]) \in Nat /\ Len(printed[f]) \in Nat /\ dir[f].size \in Nat
         /\ \A f \in Names : f \notin Named => Len(promised[f]) = 0
         /\ \A f \in Named : f \in Names /\ Len(promised[f]) > 0
         /\ \A f \in Named : Len(promised[f]) <= Sure(f) /\ Sure(f) <= Len(printed[f]) /\ Sure(f) \in Nat
         /\ file.open => /\ file.name \in Names /\ file.pos = Len(printed[file.name])
                         /\ Len(promised[file.name]) <= Bound /\ Bound <= file.pos /\ Bound \in Nat
                         /\ file.name \in Named => Sure(file.name) <= Bound
<1>1. \A f \in Names : Len(promised[f]) \in Nat /\ Len(printed[f]) \in Nat /\ dir[f].size \in Nat
  <2>1. SUFFICES ASSUME NEW f \in Names
                 PROVE  Len(promised[f]) \in Nat /\ Len(printed[f]) \in Nat /\ dir[f].size \in Nat
    OBVIOUS
  <2>2. promised[f] \in Seq(Cells) /\ printed[f] \in Seq(Cells) /\ dir[f] \in Entries
    BY DEF Types, HistoryTypes, CardTypes
  <2>3. QED
    BY <2>2, LenProperties DEF Entries
<1>2. \A f \in Names : f \notin Named => Len(promised[f]) = 0
  BY DEF Named
<1>3. \A f \in Named : f \in Names /\ Len(promised[f]) > 0
  <2>1. SUFFICES ASSUME NEW f \in Named PROVE Len(promised[f]) > 0
    BY DEF Named
  <2>2. promised[f] \in Seq(Cells) /\ promised[f] # <<>>
    BY DEF Named, Types, HistoryTypes
  <2>3. Len(promised[f]) # 0
    BY <2>2, EmptySeq
  <2>4. QED
    BY <2>2, <2>3, LenProperties
<1>4. \A f \in Named : Len(promised[f]) <= Sure(f) /\ Sure(f) <= Len(printed[f]) /\ Sure(f) \in Nat
  <2>1. SUFFICES ASSUME NEW f \in Named
                 PROVE  Len(promised[f]) <= Sure(f) /\ Sure(f) <= Len(printed[f]) /\ Sure(f) \in Nat
    OBVIOUS
  <2>2. Len(promised[f]) <= dir[f].size /\ dir[f].size <= Len(printed[f])
    BY DEF Shape, KeptFiles, KeptFile
  <2>3. QED
    BY <1>1, <1>3, <2>2 DEF Sure
<1>5. ASSUME file.open
      PROVE  /\ file.name \in Names /\ file.pos = Len(printed[file.name])
             /\ Len(promised[file.name]) <= Bound /\ Bound <= file.pos /\ Bound \in Nat
             /\ file.name \in Named => Sure(file.name) <= Bound
  <2>1. file.name \in Names /\ file.pos = Len(printed[file.name]) /\ file.pos \in Nat
    BY <1>5 DEF Types, FileTypes, Shape, Extended, OpenFile
  <2>2. Len(promised[file.name]) <= file.pos
    BY <1>1, <1>2, <1>4, <2>1
  <2>3. QED
    BY <1>1, <1>4, <2>1, <2>2 DEF Bound, Sure
<1>6. QED
  BY <1>1, <1>2, <1>3, <1>4, <1>5

\* The first cluster of the open file is that of its entry on the card.
LEMMA SameFirst ==
  ASSUME NEW used, NEW owner, NEW index, Shape(used, owner, index), file.open, file.name \in Named
  PROVE  file.cur # 0 /\ file.first = dir[file.name].first
<1>1. KeptFile(file.name, used, owner, index) /\ OpenFile(used, owner, index)
  BY DEF Shape, KeptFiles, Extended
<1>2. dir[file.name].first \in used /\ owner[dir[file.name].first] = file.name /\ index[dir[file.name].first] = 0
  BY <1>1 DEF KeptFile
<1>3. file.cur # 0
  BY <1>1, <1>2 DEF OpenFile
<1>4. file.first \in used /\ owner[file.first] = file.name /\ index[file.first] = 0
  BY <1>1, <1>3 DEF OpenFile
<1>5. QED
  BY <1>2, <1>3, <1>4 DEF Shape, Linked

\* A failed write takes away some certainty and changes nothing else.
LEMMA SpoilShape ==
  ASSUME Inv, NEW used, NEW owner, NEW index, Shape(used, owner, index), file.open, Spoil,
         UNCHANGED <<dir, fat, data, cache, fatRam, file, printed, promised>>
  PROVE  Shape(used, owner, index)'
<1>1. Types
  BY DEF Inv
<1>2. Named' = Named /\ spoilt' = spoilt \cup {file.name} /\ file.name \in Names
  BY <1>1, Promised DEF Named, Spoil
<1>3. Linked(used, owner, index)' /\ KeptFiles(used, owner, index)'
  BY <1>2 DEF Shape, Linked, Owns, KeptFiles, KeptFile
<1>4. Extended(used, owner, index)'
  BY <1>2 DEF Shape, Extended, OpenFile, Turn, NeedsCluster
<1>5. OnCard(used, owner, index)'
  <2>1. \A f \in Named : Sure(f)' <= Sure(f) /\ Sure(f)' \in Nat
    BY <1>1, <1>2, Promised DEF Sure
  <2>2. SUFFICES ASSUME NEW f \in Named, NEW m \in Nat, NEW c \in used,
                        m < Sure(f)' /\ owner[c] = f /\ index[c] = ClusterOf(m)
                 PROVE  data[<<c, SectorOf(m)>>][CellOf(m)] = printed[f][m + 1]
    BY <1>2 DEF OnCard
  <2>3. m < Sure(f)
    <3>1. Sure(f) \in Nat
      BY <1>1, Promised
    <3>2. QED BY <2>1, <2>2, <3>1
  <2>4. QED BY <2>2, <2>3 DEF Shape, OnCard
<1>6. InCache(used, owner, index)'
  <2>1. Bound' <= Bound /\ Bound' \in Nat /\ Bound \in Nat
    BY <1>1, <1>2, Promised DEF Bound
  <2>2. SUFFICES ASSUME cache.sector \in Sectors PROVE InCache(used, owner, index)'
    BY DEF InCache
  <2>3. /\ cache.sector[1] \in used /\ owner[cache.sector[1]] = file.name
        /\ ~cache.dirty => data[cache.sector] = cache.cells
        /\ \A m \in Nat : m < Bound /\ index[cache.sector[1]] = ClusterOf(m) /\ cache.sector[2] = SectorOf(m) =>
             cache.cells[CellOf(m)] = printed[file.name][m + 1]
    BY <2>2 DEF Shape, InCache
  <2>4. \A m \in Nat : m < Bound' => m < Bound
    BY <2>1
  <2>5. QED BY <2>3, <2>4 DEF InCache
<1>7. BesideCache(used, owner, index)'
  BY <1>2 DEF BesideCache
<1>8. QED
  BY <1>3, <1>4, <1>5, <1>6, <1>7 DEF Shape

LEMMA EndRowTypes ==
  ASSUME Types, pc \notin {"open", "stop"}, EndRow
  PROVE  row' \in 1..(MaxRows + 1) /\ pc' \in {"print", "stop"} /\ (pc' # "stop" => row' <= MaxRows)
BY Numbers DEF EndRow, Types, PlaceTypes

\* The step of a flush that ends it because a sector cannot be written.
LEMMA SpoilInv ==
  ASSUME Inv, pc \notin {"open", "stop"}, Spoil, EndRow,
         UNCHANGED <<dir, fat, data, cache, fatRam, file, cell, printed, promised>>
  PROVE  Inv'
<1>1. Types /\ FatInv /\ DirInv
  BY DEF Inv
<1>2. PICK used, owner, index : Shape(used, owner, index)
  BY DEF Inv
<1>3. file.open /\ file.name \in Names
  BY <1>1 DEF Types, FileTypes
<1>4. row' \in 1..(MaxRows + 1) /\ pc' \in {"print", "stop"} /\ (pc' # "stop" => row' <= MaxRows)
  BY <1>1, EndRowTypes
<1>5. Types'
  <2>1. CardTypes' /\ CacheTypes'
    BY <1>1 DEF Types, CardTypes, CacheTypes
  <2>2. FileTypes'
    BY <1>1, <1>3, <1>4 DEF Types, FileTypes
  <2>3. PlaceTypes'
    BY <1>1, <1>4 DEF Types, PlaceTypes
  <2>4. HistoryTypes'
    BY <1>1, <1>3 DEF Types, HistoryTypes, Spoil
  <2>5. QED BY <2>1, <2>2, <2>3, <2>4 DEF Types
<1>6. FatInv'
  BY <1>1 DEF FatInv
<1>7. DirInv'
  BY <1>1, <1>4 DEF DirInv, CachedDir, Entry, Named
<1>8. Shape(used, owner, index)'
  BY <1>2, <1>3, SpoilShape
<1>9. (\E u, o, i : Shape(u, o, i))'
  BY <1>8
<1>10. QED
  BY <1>5, <1>6, <1>7, <1>9 DEF Inv

-----------------------------------------------------------------------------
\* Writing the cached sector puts on the card what is sure, and of the open file all
\* that was printed unless one of its writes has failed.
LEMMA Synced ==
  ASSUME Inv, NEW used, NEW owner, NEW index, Shape(used, owner, index)
  PROVE  /\ DataSynced \in [Sectors -> [Slots -> Cells]]
         /\ \A f \in Named : \A m \in Nat : \A c \in used :
              /\ m < (IF f \in spoilt THEN Len(promised[f]) ELSE DirSynced[f].size)
              /\ owner[c] = f /\ index[c] = ClusterOf(m)
              => DataSynced[<<c, SectorOf(m)>>][CellOf(m)] = printed[f][m + 1]
         /\ file.open /\ file.name \notin spoilt =>
              \A m \in Nat : \A c \in used :
                m < file.pos /\ owner[c] = file.name /\ index[c] = ClusterOf(m) =>
                  DataSynced[<<c, SectorOf(m)>>][CellOf(m)] = printed[file.name][m + 1]
         /\ DirSynced \in [Names -> Entries]
         /\ \A g \in Names : g # file.name \/ ~file.open => DirSynced[g] = dir[g]
         /\ file.open => DirSynced[file.name] = Entry
         /\ \A f \in Named : /\ DirSynced[f].exists /\ DirSynced[f].first = dir[f].first
                             /\ Len(promised[f]) <= DirSynced[f].size /\ DirSynced[f].size <= Len(printed[f])
         /\ \A g \in Names : ~DirSynced[g].exists => DirSynced[g].size = 0
<1> DEFINE n == file.name
           card == DataSynced
           entries == DirSynced
<1>1. Types /\ DirInv /\ dir \in [Names -> Entries] /\ data \in [Sectors -> [Slots -> Cells]]
  BY DEF Inv, Types, CardTypes
<1>2. ASSUME cache.sector = DirSector
      PROVE  file.open /\ CachedDir /\ entries = cache.entries /\ cache.entries \in [Names -> Entries]
  <2>1. file.open /\ CachedDir /\ cache.entries \in [Names -> Entries]
    BY <1>1, <1>2, Numbers DEF DirInv, Types, CacheTypes
  <2>2. entries = cache.entries
    BY <1>2, <2>1 DEF DirSynced, CachedDir
  <2>3. QED BY <2>1, <2>2
<1>3. ASSUME cache.sector # DirSector
      PROVE  entries = dir
  BY <1>3 DEF DirSynced
<1>4. entries \in [Names -> Entries]
  BY <1>1, <1>2, <1>3
<1>5. \A g \in Names : g # n \/ ~file.open => entries[g] = dir[g]
  BY <1>2, <1>3 DEF CachedDir
<1>6. \A f \in Names : dir[f].size \in Nat
  BY <1>1, Promised
<1>7. file.open => n \in Names /\ entries[n] = Entry /\ file.pos = Len(printed[n])
  BY <1>1, <1>2, <1>3, Promised DEF Entry
<1>8. \A f \in Named : /\ entries[f].exists /\ entries[f].first = dir[f].first
                       /\ Len(promised[f]) <= entries[f].size /\ entries[f].size <= Len(printed[f])
  <2>1. SUFFICES ASSUME NEW f \in Named
                 PROVE  /\ entries[f].exists /\ entries[f].first = dir[f].first
                        /\ Len(promised[f]) <= entries[f].size /\ entries[f].size <= Len(printed[f])
    OBVIOUS
  <2>2. f \in Names /\ KeptFile(f, used, owner, index)
    BY DEF Named, Shape, KeptFiles
  <2>3. CASE cache.sector = DirSector /\ f = n
    BY <1>1, <1>2, <1>7, <2>3, Promised DEF CachedDir
  <2>4. CASE ~(cache.sector = DirSector /\ f = n)
    BY <1>2, <1>3, <1>5, <2>2, <2>4 DEF KeptFile
  <2>5. QED BY <2>3, <2>4
<1>9. \A g \in Names : ~entries[g].exists => entries[g].size = 0
  BY <1>1, <1>2, <1>3 DEF DirInv, CachedDir
<1>10. card \in [Sectors -> [Slots -> Cells]]
  BY <1>1 DEF DataSynced, Types, CacheTypes
<1>11. \A s \in Sectors : card[s] = IF s = cache.sector THEN cache.cells ELSE data[s]
  BY <1>1, Numbers DEF DataSynced, Shape, InCache
<1>12. \A c \in used : \A m \in Nat : <<c, SectorOf(m)>> \in Sectors
  BY Grid DEF Shape, Sectors
<1>13. \A c \in used : \A m \in Nat : <<c, SectorOf(m)>> = cache.sector =>
         cache.sector \in Sectors /\ cache.sector[1] = c /\ cache.sector[2] = SectorOf(m)
  BY <1>12
<1>14. ASSUME NEW m \in Nat, NEW c \in used, file.open, owner[c] = n, index[c] = ClusterOf(m), m < Bound
       PROVE  <<c, SectorOf(m)>> = cache.sector => card[<<c, SectorOf(m)>>][CellOf(m)] = printed[n][m + 1]
  <2>1. SUFFICES ASSUME <<c, SectorOf(m)>> = cache.sector
                 PROVE  card[<<c, SectorOf(m)>>][CellOf(m)] = printed[n][m + 1]
    OBVIOUS
  <2>2. cache.sector \in Sectors /\ cache.sector[1] = c /\ cache.sector[2] = SectorOf(m)
    BY <1>13, <2>1
  <2>3. cache.cells[CellOf(m)] = printed[n][m + 1]
    BY <1>14, <2>2 DEF Shape, InCache
  <2>4. QED BY <1>11, <2>1, <2>2, <2>3
<1>15. ASSUME file.open, n \notin spoilt, NEW m \in Nat, NEW c \in used,
              m < file.pos, owner[c] = n, index[c] = ClusterOf(m)
       PROVE  card[<<c, SectorOf(m)>>][CellOf(m)] = printed[n][m + 1]
  <2>1. CASE <<c, SectorOf(m)>> = cache.sector
    BY <1>14, <1>15, <2>1 DEF Bound
  <2>2. CASE <<c, SectorOf(m)>> # cache.sector
    BY <1>11, <1>12, <1>15, <2>2 DEF Shape, BesideCache
  <2>3. QED BY <2>1, <2>2
<1>16. ASSUME NEW f \in Named, NEW m \in Nat, NEW c \in used,
              m < (IF f \in spoilt THEN Len(promised[f]) ELSE entries[f].size), owner[c] = f, index[c] = ClusterOf(m)
       PROVE  card[<<c, SectorOf(m)>>][CellOf(m)] = printed[f][m + 1]
  <2>0. f \in Names
    BY DEF Named
  <2>1. CASE file.open /\ f = n /\ n \notin spoilt
    <3>1. m < file.pos
      BY <1>4, <1>6, <1>7, <1>8, <1>16, <2>0, <2>1 DEF Entries, Types, FileTypes
    <3>2. QED BY <1>15, <1>16, <2>1, <3>1
  <2>2. CASE ~(file.open /\ f = n /\ n \notin spoilt)
    <3>1. m < Sure(f)
      BY <1>5, <1>16, <2>0, <2>2 DEF Sure
    <3>2. data[<<c, SectorOf(m)>>][CellOf(m)] = printed[f][m + 1]
      BY <1>16, <3>1 DEF Shape, OnCard
    <3>3. CASE <<c, SectorOf(m)>> = cache.sector
      <4>1. file.open /\ owner[c] = n
        BY <1>1, <1>13, <3>3, Numbers DEF DirInv, Shape, InCache
      <4>2. m < Bound
        BY <1>1, <1>16, <3>1, <4>1, Promised
      <4>3. QED BY <1>14, <1>16, <3>3, <4>1, <4>2
    <3>4. CASE <<c, SectorOf(m)>> # cache.sector
      BY <1>11, <1>12, <3>2, <3>4
    <3>5. QED BY <3>3, <3>4
  <2>3. QED BY <2>1, <2>2
<1>17. QED
  BY <1>4, <1>5, <1>7, <1>8, <1>9, <1>10, <1>15, <1>16

\* The sectors of the card when prepare takes the buffer for another one.
LEMMA Evicted ==
  ASSUME NEW sector
  PROVE  /\ sector # cache.sector => EvictedDir(sector) = DirSynced /\ EvictedData(sector) = DataSynced
         /\ sector = cache.sector => EvictedDir(sector) = dir /\ EvictedData(sector) = data
BY DEF EvictedDir, EvictedData, MustEvict, DirSynced, DataSynced

\* The cached sector written: the proof that flush and prepare share.
LEMMA SyncedShape ==
  ASSUME Inv, NEW used, NEW owner, NEW index, Shape(used, owner, index),
         data' = DataSynced, dir' = DirSynced,
         UNCHANGED <<fat, fatRam, printed, promised, spoilt>>,
         file.open, file'.open, file'.name = file.name, file'.first = file.first,
         file'.cur = file.cur, file'.pos = file.pos
  PROVE  /\ Linked(used, owner, index)' /\ KeptFiles(used, owner, index)' /\ Extended(used, owner, index)'
         /\ OnCard(used, owner, index)' /\ BesideCache(used, owner, index)'
<1>1. Named' = Named
  BY DEF Named
<1>2. Linked(used, owner, index)'
  BY <1>1 DEF Shape, Linked, Owns
<1>3. KeptFiles(used, owner, index)'
  <2>1. SUFFICES ASSUME NEW f \in Named PROVE KeptFile(f, used, owner, index)'
    BY <1>1 DEF KeptFiles
  <2>2. KeptFile(f, used, owner, index)
    BY DEF Shape, KeptFiles
  <2>3. /\ dir'[f].exists /\ dir'[f].first = dir[f].first
        /\ Len(promised[f]) <= dir'[f].size /\ dir'[f].size <= Len(printed[f])
    BY Synced
  <2>4. QED
    BY <2>2, <2>3 DEF KeptFile, Begins
<1>4. Extended(used, owner, index)'
  BY DEF Shape, Extended, OpenFile, Turn, NeedsCluster
<1>5. OnCard(used, owner, index)'
  <2>1. \A f \in Named : Sure(f)' = IF f \in spoilt THEN Len(promised[f]) ELSE DirSynced[f].size
    BY DEF Sure
  <2>2. QED
    BY <1>1, <2>1, Synced DEF OnCard
<1>6. BesideCache(used, owner, index)'
  BY Synced DEF BesideCache
<1>7. QED
  BY <1>2, <1>3, <1>4, <1>5, <1>6

\* The first step of a flush: the new entry, in the cache.
LEMMA FlushEntryInv == Inv /\ FlushEntry => Inv'
<1> SUFFICES ASSUME Inv, FlushEntry PROVE Inv'
  OBVIOUS
<1>1. Types /\ FatInv /\ DirInv
  BY DEF Inv
<1>2. PICK used, owner, index : Shape(used, owner, index)
  BY DEF Inv
<1>3. /\ pc = "flush" /\ file.open /\ file.name \in Names
      /\ UNCHANGED <<fat, fatRam, cell, printed, promised>>
  BY <1>1 DEF FlushEntry, Types, FileTypes
<1>4. ASSUME file.dirty, Evict(DirSector),
             cache' = [sector |-> DirSector, dirty |-> TRUE, cells |-> Empty,
                       entries |-> [(IF cache.sector = DirSector THEN cache.entries ELSE dir)
                         EXCEPT ![file.name] =
                           [exists |-> TRUE, size |-> file.pos, first |-> file.first]]],
             file' = [file EXCEPT !.dirty = FALSE],
             pc' = "sync_data", UNCHANGED <<row, spoilt>>
      PROVE  Inv'
  <2> PICK old : old = IF cache.sector = DirSector THEN cache.entries ELSE dir
    OBVIOUS
  <2> PICK new : new = [exists |-> TRUE, size |-> file.pos, first |-> file.first]
    OBVIOUS
  <2>1. /\ DOMAIN file' = {"open", "name", "first", "cur", "pos", "dirty"}
        /\ file'.open = file.open /\ file'.name = file.name /\ file'.first = file.first
        /\ file'.cur = file.cur /\ file'.pos = file.pos /\ file'.dirty = FALSE
    BY <1>1, <1>4 DEF Types, FileTypes
  <2>2. /\ DOMAIN cache' = {"sector", "dirty", "cells", "entries"}
        /\ cache'.sector = DirSector /\ cache'.dirty = TRUE /\ cache'.cells = Empty
        /\ cache'.entries = [old EXCEPT ![file.name] = new]
    BY <1>4
  <2>3. old \in [Names -> Entries] /\ \A g \in Names : g # file.name => old[g] = dir[g]
    BY <1>1, Numbers DEF Types, CacheTypes, CardTypes, DirInv, CachedDir
  <2>4. new \in Entries /\ new.exists = TRUE /\ new.size = file.pos /\ new.first = file.first
    BY <1>1 DEF Types, FileTypes, Entries
  <2>5. /\ cache'.entries \in [Names -> Entries] /\ cache'.entries[file.name] = new
        /\ \A g \in Names : g # file.name => cache'.entries[g] = dir[g]
    BY <1>3, <2>2, <2>3, <2>4
  <2>6. dir' = dir /\ data' = DataSynced
    BY <1>4, Evicted, Numbers DEF Evict, EvictedDir, EvictedData, MustEvict, DirSynced, DataSynced
  <2>7. Types'
    <3>1. Empty \in [Slots -> Cells]
      BY DEF Empty, Cells
    <3>2. CardTypes'
      BY <1>1, <1>2, <1>3, <2>6, Synced DEF Types, CardTypes
    <3>3. CacheTypes'
      BY <2>2, <2>5, <3>1 DEF CacheTypes
    <3>4. FileTypes'
      <4>1. file'.open <=> pc' # "open"
        BY <1>3, <1>4, <2>1
      <4>2. file'.open \in BOOLEAN /\ file'.dirty \in BOOLEAN
        BY <1>1, <2>1 DEF Types, FileTypes
      <4>3. /\ file'.pos \in Nat /\ file'.first \in Clusters \cup {0} /\ file'.cur \in Clusters \cup {0}
            /\ file'.name \in Names
        BY <1>1, <1>3, <2>1 DEF Types, FileTypes
      <4>4. QED BY <2>1, <4>1, <4>2, <4>3 DEF FileTypes
    <3>5. PlaceTypes' /\ HistoryTypes'
      BY <1>1, <1>3, <1>4 DEF Types, PlaceTypes, HistoryTypes
    <3>6. QED BY <3>2, <3>3, <3>4, <3>5 DEF Types
  <2>8. FatInv'
    BY <1>1, <1>3 DEF FatInv
  <2>9. DirInv'
    <3>1. Entry' = new
      BY <2>1, <2>2, <2>5 DEF Entry
    <3>2. CachedDir'
      <4>1. file.name \in Named => new.first = dir[file.name].first /\ Len(promised[file.name]) <= new.size
        BY <1>1, <1>2, <1>3, <2>4, SameFirst, Promised DEF Types, FileTypes
      <4>2. Named' = Named /\ file'.pos \in Nat
        BY <1>1, <1>3, <2>1 DEF Named, Types, FileTypes
      <4>3. QED
        BY <1>1, <1>3, <2>1, <2>2, <2>4, <2>5, <2>6, <4>1, <4>2 DEF CachedDir, Types, FileTypes
    <3>3. QED
      BY <1>1, <1>3, <1>4, <2>1, <2>2, <2>4, <2>6, <3>1, <3>2 DEF DirInv
  <2>10. Linked(used, owner, index)' /\ KeptFiles(used, owner, index)' /\ Extended(used, owner, index)'
    <3>1. Named' = Named /\ \A f : Owns(f)' <=> Owns(f)
      BY <1>3, <2>1 DEF Owns, Named
    <3>2. Linked(used, owner, index)'
      BY <1>2, <1>3, <3>1 DEF Shape, Linked
    <3>3. KeptFiles(used, owner, index)'
      BY <1>2, <1>3, <2>6, <3>1 DEF Shape, KeptFiles, KeptFile, Begins
    <3>4. Extended(used, owner, index)'
      BY <1>2, <1>3, <1>4, <2>1 DEF Shape, Extended, OpenFile, Turn, NeedsCluster
    <3>5. QED BY <3>2, <3>3, <3>4
  <2>11. OnCard(used, owner, index)' /\ BesideCache(used, owner, index)'
    <3>1. SUFFICES ASSUME NEW f \in Named, NEW m \in Nat, NEW c \in used,
                          m < Sure(f), owner[c] = f, index[c] = ClusterOf(m)
                   PROVE  data'[<<c, SectorOf(m)>>][CellOf(m)] = printed[f][m + 1]
      <4>1. Named' = Named /\ \A f \in Named : Sure(f)' = Sure(f)
        BY <1>3, <1>4, <2>6 DEF Named, Sure
      <4>2. BesideCache(used, owner, index)'
        BY <1>2, <1>3, <1>4, <2>1, <2>6, Synced DEF BesideCache
      <4>3. QED BY <1>3, <4>1, <4>2 DEF OnCard
    <3>2. m < (IF f \in spoilt THEN Len(promised[f]) ELSE DirSynced[f].size)
           \/ (f = file.name /\ f \notin spoilt /\ m < file.pos)
      BY <1>1, <1>2, <1>3, <3>1, Promised, Synced DEF Sure, Bound, Named, Types, FileTypes
    <3>3. QED
      BY <1>2, <1>3, <2>6, <3>1, <3>2, Synced
  <2>12. InCache(used, owner, index)'
    BY <2>2, Numbers DEF InCache
  <2>13. (\E u, o, i : Shape(u, o, i))'
    BY <1>2, <2>10, <2>11, <2>12 DEF Shape
  <2>14. QED
    BY <2>7, <2>8, <2>9, <2>13 DEF Inv
<1>5. ASSUME ~file.dirty, pc' = "sync_data", UNCHANGED <<dir, data, cache, file, row, spoilt>>
      PROVE  Inv'
  <2>1. Types'
    BY <1>1, <1>3, <1>5 DEF Types, CardTypes, CacheTypes, FileTypes, PlaceTypes, HistoryTypes
  <2>2. FatInv' /\ DirInv'
    BY <1>1, <1>3, <1>5 DEF FatInv, DirInv, CachedDir, Entry, Named
  <2>3. Linked(used, owner, index)' /\ KeptFiles(used, owner, index)'
    BY <1>2, <1>3, <1>5 DEF Shape, Linked, Owns, Named, KeptFiles, KeptFile
  <2>4. Extended(used, owner, index)'
    BY <1>2, <1>3, <1>5 DEF Shape, Extended, OpenFile, Turn, NeedsCluster
  <2>5. OnCard(used, owner, index)' /\ InCache(used, owner, index)' /\ BesideCache(used, owner, index)'
    <3>1. OnCard(used, owner, index)'
      BY <1>2, <1>3, <1>5, SMTT(30) DEF Shape, OnCard, Sure, Named
    <3>2. InCache(used, owner, index)'
      BY <1>2, <1>3, <1>5, SMTT(30) DEF Shape, InCache, Sure, Bound, Named
    <3>3. BesideCache(used, owner, index)'
      BY <1>2, <1>3, <1>5, SMTT(30) DEF Shape, BesideCache, Sure, Bound, Named
    <3>4. QED BY <3>1, <3>2, <3>3
  <2>6. (\E u, o, i : Shape(u, o, i))'
    BY <1>2, <2>3, <2>4, <2>5 DEF Shape
  <2>7. QED
    BY <2>1, <2>2, <2>6 DEF Inv
<1>6. ASSUME Spoil, EndRow, UNCHANGED <<dir, data, cache, file>>
      PROVE  Inv'
  BY <1>3, <1>6, SpoilInv
<1>7. QED
  BY <1>4, <1>5, <1>6 DEF FlushEntry

\* The second step of a flush: the cached sector.
LEMMA SyncDataInv == Inv /\ SyncData => Inv'
<1> SUFFICES ASSUME Inv, SyncData PROVE Inv'
  OBVIOUS
<1>1. Types /\ FatInv /\ DirInv
  BY DEF Inv
<1>2. PICK used, owner, index : Shape(used, owner, index)
  BY DEF Inv
<1>3. /\ pc = "sync_data" /\ file.open /\ file.name \in Names
      /\ UNCHANGED <<fat, fatRam, file, cell, printed, promised>>
  BY <1>1 DEF SyncData, Types, FileTypes
<1>4. ASSUME dir' = DirSynced, data' = DataSynced, cache' = [cache EXCEPT !.dirty = FALSE],
             pc' = "sync_fat", UNCHANGED <<row, spoilt>>
      PROVE  Inv'
  <2>1. /\ DOMAIN cache' = {"sector", "dirty", "cells", "entries"}
        /\ cache'.sector = cache.sector /\ cache'.dirty = FALSE /\ cache'.cells = cache.cells
        /\ cache'.entries = cache.entries
    BY <1>1, <1>4 DEF Types, CacheTypes
  <2>2. cache.sector = DirSector => CachedDir /\ dir' = cache.entries
    BY <1>1, <1>4 DEF DirInv, DirSynced, CachedDir
  <2>3. Types'
    <3>1. CardTypes'
      BY <1>1, <1>2, <1>3, <1>4, Synced DEF Types, CardTypes
    <3>2. CacheTypes'
      BY <1>1, <2>1 DEF Types, CacheTypes
    <3>3. FileTypes' /\ PlaceTypes' /\ HistoryTypes'
      BY <1>1, <1>3, <1>4 DEF Types, FileTypes, PlaceTypes, HistoryTypes
    <3>4. QED BY <3>1, <3>2, <3>3 DEF Types
  <2>4. FatInv'
    BY <1>1, <1>3 DEF FatInv
  <2>5. DirInv'
    <3>1. \A g \in Names : ~dir'[g].exists => dir'[g].size = 0
      BY <1>2, <1>4, Synced
    <3>2. Entry' = Entry
      BY <1>2, <1>3, <1>4, <2>1, Synced DEF Entry
    <3>3. cache.sector = DirSector => CachedDir'
      <4>1. SUFFICES ASSUME cache.sector = DirSector PROVE CachedDir'
        OBVIOUS
      <4>2. CachedDir /\ dir' = cache.entries
        BY <2>2, <4>1
      <4>3. Named' = Named
        BY <1>3 DEF Named
      <4>4. QED
        BY <1>3, <2>1, <4>2, <4>3 DEF CachedDir
    <3>4. QED
      BY <1>1, <1>3, <1>4, <2>1, <3>1, <3>2, <3>3 DEF DirInv
  <2>6. /\ Linked(used, owner, index)' /\ KeptFiles(used, owner, index)' /\ Extended(used, owner, index)'
        /\ OnCard(used, owner, index)' /\ BesideCache(used, owner, index)'
    BY <1>2, <1>3, <1>4, SyncedShape
  <2>7. InCache(used, owner, index)'
    <3>1. SUFFICES ASSUME cache.sector \in Sectors PROVE InCache(used, owner, index)'
      BY <2>1 DEF InCache
    <3>2. Bound' = Bound
      BY <1>3, <1>4 DEF Bound
    <3>3. data'[cache.sector] = cache.cells
      BY <1>1, <1>2, <1>4, <3>1 DEF DataSynced, Types, CardTypes, Shape, InCache
    <3>4. QED
      BY <1>2, <1>3, <2>1, <3>1, <3>2, <3>3 DEF Shape, InCache
  <2>8. (\E u, o, i : Shape(u, o, i))'
    BY <1>2, <2>6, <2>7 DEF Shape
  <2>9. QED
    BY <2>3, <2>4, <2>5, <2>8 DEF Inv
<1>5. ASSUME Spoil, EndRow, UNCHANGED <<dir, data, cache>>
      PROVE  Inv'
  BY <1>3, <1>5, SpoilInv
<1>6. QED
  BY <1>4, <1>5 DEF SyncData

\* Every place of the open file before its position has a cluster.
LEMMA Covered ==
  ASSUME NEW used, NEW owner, NEW index, Shape(used, owner, index), Types, file.open,
         NEW m \in Nat, m < file.pos
  PROVE  \E c \in used : owner[c] = file.name /\ index[c] = ClusterOf(m)
<1>1. OpenFile(used, owner, index) /\ file.pos \in Nat
  BY DEF Shape, Extended, Types, FileTypes
<1>2. file.cur # 0
  BY <1>1 DEF OpenFile
<1>3. file.cur \in used /\ index[file.cur] \in Nat /\ ClusterOf(file.pos) <= index[file.cur] + Turn
  BY <1>1, <1>2 DEF OpenFile, Shape
<1>4. ClusterOf(m) \in Nat /\ ClusterOf(file.pos) \in Nat
  BY <1>1, Grid
<1>5. ClusterOf(m) <= index[file.cur]
  <2>1. CASE NeedsCluster
    <3>1. ClusterOf(m) < ClusterOf(file.pos)
      BY <1>1, <2>1, ClusterBegins DEF NeedsCluster
    <3>2. QED BY <1>3, <1>4, <2>1, <3>1 DEF Turn
  <2>2. CASE ~NeedsCluster
    <3>1. ClusterOf(m) <= ClusterOf(file.pos)
      BY <1>1, <1>4, PlacesInOrder
    <3>2. QED BY <1>3, <1>4, <2>2, <3>1 DEF Turn
  <2>3. QED BY <2>1, <2>2
<1>6. QED
  BY <1>1, <1>2, <1>4, <1>5 DEF OpenFile

\* The last step of a flush: the FAT, and with it the promise.
LEMMA SyncFatInv == Inv /\ SyncFat => Inv'
<1> SUFFICES ASSUME Inv, SyncFat PROVE Inv'
  OBVIOUS
<1> DEFINE n == file.name
<1>1. Types /\ FatInv /\ DirInv
  BY DEF Inv
<1>2. PICK used, owner, index : Shape(used, owner, index)
  BY DEF Inv
<1>3. /\ pc = "sync_fat" /\ file.open /\ n \in Names /\ EndRow
      /\ UNCHANGED <<dir, data, cache, fatRam, file, cell, printed>>
  BY <1>1 DEF SyncFat, Types, FileTypes, ramVars
<1>4. ASSUME fat' = fatRam, Promise, UNCHANGED spoilt
      PROVE  Inv'
  <2>1. row' \in 1..(MaxRows + 1) /\ pc' \in {"print", "stop"} /\ (pc' # "stop" => row' <= MaxRows)
    BY <1>1, <1>3, EndRowTypes
  <2>2. ~cache.dirty /\ ~file.dirty
    BY <1>1, <1>3 DEF DirInv
  <2>3. dir[n].exists /\ dir[n].size = file.pos /\ dir[n].first = file.first
    BY <1>1, <1>3, <2>2 DEF DirInv, CachedDir, Entry
  <2>4. data = DataSynced /\ dir = DirSynced
    BY <2>2 DEF DataSynced, DirSynced
  <2>5. /\ promised' \in [Names -> Seq(Cells)]
        /\ \A f \in Names : f # n \/ n \in spoilt => promised'[f] = promised[f]
        /\ n \notin spoilt => promised'[n] = printed[n]
    BY <1>1, <1>3, <1>4 DEF Promise, Types, HistoryTypes
  <2>6. /\ \A f \in Names : f # n \/ n \in spoilt => (f \in Named' <=> f \in Named)
        /\ n \notin spoilt => (n \in Named' <=> printed[n] # <<>>)
    BY <1>3, <2>5 DEF Named
  <2>7. file.pos = Len(printed[n]) /\ file.pos \in Nat
    BY <1>1, <1>2, <1>3, Promised DEF Types, FileTypes
  <2>8. \A f : Owns(f) => Owns(f)'
    BY <1>3, <2>6 DEF Owns, Named
  <2>9. Types'
    <3>1. CardTypes' /\ CacheTypes'
      BY <1>1, <1>3, <1>4 DEF Types, CardTypes, CacheTypes
    <3>2. FileTypes'
      BY <1>1, <1>3, <2>1 DEF Types, FileTypes
    <3>3. PlaceTypes'
      BY <1>1, <1>3, <2>1 DEF Types, PlaceTypes
    <3>4. HistoryTypes'
      BY <1>1, <1>3, <1>4, <2>5 DEF Types, HistoryTypes
    <3>5. QED BY <3>1, <3>2, <3>3, <3>4 DEF Types
  <2>10. FatInv'
    BY <1>1, <1>3, <1>4, Numbers DEF FatInv
  <2>11. DirInv'
    <3>1. Entry' = Entry
      BY <1>3 DEF Entry
    <3>2. ASSUME cache.sector = DirSector PROVE CachedDir'
      <4>1. cache.entries = dir /\ CachedDir
        BY <1>1, <2>2, <3>2 DEF DirInv, CachedDir
      <4>2. n \in Named' => Len(promised'[n]) <= dir[n].size
        BY <1>3, <2>3, <2>5, <2>6, <2>7, <4>1 DEF CachedDir
      <4>3. QED
        BY <1>3, <4>1, <4>2 DEF CachedDir
    <3>3. QED
      BY <1>1, <1>3, <2>1, <2>2, <3>1, <3>2 DEF DirInv
  <2>12. Linked(used, owner, index)'
    BY <1>2, <1>3, <1>4, <2>8 DEF Shape, Linked
  <2>13. KeptFiles(used, owner, index)'
    <3>1. SUFFICES ASSUME NEW f \in Named' PROVE KeptFile(f, used, owner, index)'
      BY DEF KeptFiles
    <3>2. CASE f # n \/ n \in spoilt
      <4>1. f \in Names /\ f \in Named /\ promised'[f] = promised[f]
        BY <2>5, <2>6, <3>1, <3>2 DEF Named
      <4>2. KeptFile(f, used, owner, index)
        BY <1>2, <4>1 DEF Shape, KeptFiles
      <4>3. \A c \in used : fat[c] # Free => fat'[c] # Free
        BY <1>1, <1>2, <1>4 DEF FatInv, Shape
      <4>4. QED
        BY <1>3, <4>1, <4>2, <4>3 DEF KeptFile, Begins
    <3>3. CASE f = n /\ n \notin spoilt
      <4>1. promised'[n] = printed[n] /\ printed[n] # <<>>
        BY <1>3, <2>5, <2>6, <3>1, <3>3
      <4>2. file.pos # 0
        BY <1>1, <1>3, <2>7, <4>1, EmptySeq DEF Types, HistoryTypes
      <4>3. file.first \in used /\ owner[file.first] = n /\ index[file.first] = 0
        BY <1>2, <1>3, <4>2 DEF Shape, Extended, OpenFile
      <4>4. \A m \in Nat : m < file.pos => \E c \in used : owner[c] = n /\ index[c] = ClusterOf(m) /\ fat'[c] # Free
        BY <1>1, <1>2, <1>3, <1>4, Covered DEF Shape, Linked
      <4>5. QED
        BY <1>3, <2>3, <2>7, <3>3, <4>1, <4>3, <4>4 DEF KeptFile, Begins
    <3>4. QED BY <3>2, <3>3
  <2>14. Extended(used, owner, index)'
    BY <1>2, <1>3, <1>4 DEF Shape, Extended, OpenFile, Turn, NeedsCluster
  <2>15. OnCard(used, owner, index)'
    <3>1. SUFFICES ASSUME NEW f \in Named', NEW m \in Nat, NEW c \in used,
                          m < Sure(f)', owner[c] = f, index[c] = ClusterOf(m)
                   PROVE  data[<<c, SectorOf(m)>>][CellOf(m)] = printed[f][m + 1]
      BY <1>3 DEF OnCard
    <3>2. CASE f # n \/ n \in spoilt
      <4>1. f \in Named /\ Sure(f)' = Sure(f)
        BY <1>3, <1>4, <2>5, <2>6, <3>1, <3>2 DEF Named, Sure
      <4>2. QED BY <1>2, <3>1, <4>1 DEF Shape, OnCard
    <3>3. CASE f = n /\ n \notin spoilt
      <4>1. m < file.pos
        BY <1>3, <1>4, <2>3, <3>1, <3>3 DEF Sure
      <4>2. QED BY <1>2, <1>3, <2>4, <3>1, <3>3, <4>1, Synced
    <3>4. QED BY <3>2, <3>3
  <2>16. InCache(used, owner, index)' /\ BesideCache(used, owner, index)'
    <3>1. Bound' = Bound
      BY <1>3, <1>4, <2>5 DEF Bound
    <3>2. InCache(used, owner, index)'
      BY <1>2, <1>3, <3>1 DEF Shape, InCache
    <3>3. BesideCache(used, owner, index)'
      BY <1>2, <1>3, <1>4 DEF Shape, BesideCache
    <3>4. QED BY <3>2, <3>3
  <2>17. (\E u, o, i : Shape(u, o, i))'
    BY <1>2, <2>12, <2>13, <2>14, <2>15, <2>16 DEF Shape
  <2>18. QED
    BY <2>9, <2>10, <2>11, <2>17 DEF Inv
<1>5. ASSUME Spoil, UNCHANGED <<fat, promised>>
      PROVE  Inv'
  BY <1>3, <1>5, SpoilInv
<1>6. QED
  BY <1>4, <1>5 DEF SyncFat

-----------------------------------------------------------------------------
(* One field printed *)

\* The cluster that write uses: the last of the chain, or a free one.
LEMMA ClusterTaken ==
  ASSUME Types, FatInv, NEW used, NEW owner, NEW index, Shape(used, owner, index), file.open,
         NEW c \in IF NeedsCluster THEN NextFree ELSE {file.cur}
  PROVE  /\ c \in Clusters
         /\ NeedsCluster => c \notin used /\ fatRam[c] = Free /\ fat[c] = Free
         /\ ~NeedsCluster => c = file.cur /\ file.cur # 0 /\ c \in used
         /\ file.cur \in Clusters => file.cur \in used /\ owner[file.cur] = file.name
<1>1. OpenFile(used, owner, index) /\ file.pos \in Nat /\ file.cur \in Clusters \cup {0}
  BY DEF Shape, Extended, Types, FileTypes
<1>2. CASE NeedsCluster
  <2>1. c \in Clusters /\ fatRam[c] = Free
    BY <1>2 DEF NextFree, FreeClusters
  <2>2. c \notin used /\ fat[c] = Free
    BY <2>1 DEF Shape, Linked, FatInv
  <2>3. QED BY <1>1, <1>2, <2>1, <2>2, Numbers DEF OpenFile
<1>3. CASE ~NeedsCluster
  <2>1. c = file.cur
    BY <1>3
  <2>2. file.pos # 0
    BY <1>3, FirstPlace DEF NeedsCluster
  <2>3. file.cur # 0 /\ file.cur \in used
    BY <1>1, <2>2 DEF OpenFile
  <2>4. QED BY <1>1, <1>3, <2>1, <2>3 DEF OpenFile
<1>4. QED BY <1>2, <1>3

LEMMA TakenFat ==
  ASSUME Types, FatInv, NEW used, NEW owner, NEW index, Shape(used, owner, index), file.open,
         NEW c \in IF NeedsCluster THEN NextFree ELSE {file.cur}, fatRam' = FatAt(c), fat' = fat
  PROVE  FatInv' /\ fatRam' \in [Clusters -> Clusters \cup {Free, EOC}]
<1>1. CASE ~NeedsCluster
  <2>1. fatRam' = fatRam
    BY <1>1 DEF FatAt, Types, CardTypes
  <2>2. QED BY <2>1 DEF FatInv, Types, CardTypes
<1>2. CASE NeedsCluster
  <2>1. c \in Clusters /\ c \notin used /\ fatRam[c] = Free /\ fat[c] = Free
    BY <1>2, ClusterTaken
  <2>2. \A k \in Clusters : fatRam'[k] = IF k = c THEN EOC ELSE IF k = file.cur THEN c ELSE fatRam[k]
    BY <1>2 DEF FatAt
  <2>3. fatRam' \in [Clusters -> Clusters \cup {Free, EOC}]
    BY <1>2, <2>1 DEF FatAt, Types, CardTypes
  <2>4. ASSUME NEW k \in Clusters, fat[k] # Free PROVE fatRam'[k] # Free
    BY <2>1, <2>2, <2>4, Numbers DEF FatInv
  <2>5. ASSUME NEW k \in Clusters, fat[k] \in Clusters PROVE fatRam'[k] = fat[k] /\ fat[fat[k]] # Free
    <3>1. fatRam[k] = fat[k] /\ fat[fat[k]] # Free /\ k # c
      BY <2>1, <2>5, Numbers DEF FatInv
    <3>2. k # file.cur
      <4>1. SUFFICES ASSUME k = file.cur PROVE FALSE
        OBVIOUS
      <4>2. k \in used /\ owner[k] = file.name /\ file.cur # 0
        BY <4>1, ClusterTaken, Numbers
      <4>3. fatRam[k] \in used /\ owner[fatRam[k]] = file.name /\ index[fatRam[k]] = index[k] + 1
        BY <2>5, <3>1, <4>2 DEF Shape, Linked
      <4>4. index[fatRam[k]] <= index[k] /\ index[k] \in Nat
        BY <4>1, <4>2, <4>3 DEF Shape, Extended, OpenFile
      <4>5. QED BY <4>3, <4>4
    <3>3. QED BY <2>2, <3>1, <3>2
  <2>6. ASSUME NEW k \in Clusters, fatRam'[k] \in Clusters PROVE fatRam'[fatRam'[k]] # Free
    <3>1. k # c
      BY <2>2, <2>6, Numbers
    <3>2. CASE k = file.cur
      BY <2>1, <2>2, <3>1, <3>2, Numbers
    <3>3. CASE k # file.cur
      <4>1. fatRam'[k] = fatRam[k] /\ fatRam[fatRam[k]] # Free
        BY <2>2, <2>6, <3>1, <3>3 DEF FatInv
      <4>2. QED BY <2>1, <2>2, <2>6, <4>1, Numbers
    <3>4. QED BY <3>2, <3>3
  <2>7. QED BY <2>3, <2>4, <2>5, <2>6 DEF FatInv
<1>3. QED BY <1>1, <1>2

\* The clusters in use with the new one at the end of the open file.
Grown(u, o, i, c, used, owner, index) ==
  /\ u \subseteq Clusters /\ o \in [Clusters -> Nat] /\ i \in [Clusters -> Nat]
  /\ used \subseteq u /\ \A x \in used : o[x] = owner[x] /\ i[x] = index[x]
  /\ c \in u /\ o[c] = file.name
  /\ \A x \in u : x \notin used => x = c /\ NeedsCluster
  /\ ClusterOf(file.pos) <= i[c]
  /\ file.name \notin spoilt => ClusterOf(file.pos) = i[c]
  /\ \A x \in u : o[x] = file.name => i[x] <= i[c]
  /\ \A k \in Nat : k <= i[c] => \E x \in u : o[x] = file.name /\ i[x] = k
  /\ file.cur = 0 => i[c] = 0

LEMMA Allocated ==
  ASSUME Types, FatInv, NEW used, NEW owner, NEW index, Shape(used, owner, index), file.open,
         NEW c \in IF NeedsCluster THEN NextFree ELSE {file.cur}, fatRam' = FatAt(c), fat' = fat,
         \A f : Owns(f)' <=> Owns(f)
  PROVE  \E u, o, i : Grown(u, o, i, c, used, owner, index) /\ Linked(u, o, i)'
<1> DEFINE n == file.name
           cur == file.cur
<1>1. /\ OpenFile(used, owner, index) /\ file.pos \in Nat /\ n \in Names /\ n \in Nat
      /\ used \subseteq Clusters /\ owner \in [Clusters -> Nat] /\ index \in [Clusters -> Nat]
      /\ Linked(used, owner, index) /\ Owns(n) /\ ClusterOf(file.pos) \in Nat
  BY Grid, LogAssumption DEF Shape, Extended, Types, FileTypes, Owns
<1>2. CASE ~NeedsCluster
  <2>1. c = cur /\ cur # 0 /\ c \in used
    BY <1>2, ClusterTaken
  <2>2. fatRam' = fatRam
    BY <1>2 DEF FatAt, Types, CardTypes
  <2>3. Linked(used, owner, index)'
    BY <1>1, <2>2 DEF Linked
  <2>4. Grown(used, owner, index, c, used, owner, index)
    <3>1. /\ owner[c] = n /\ \A x \in used : owner[x] = n => index[x] <= index[c]
          /\ \A k \in Nat : k <= index[c] => \E x \in used : owner[x] = n /\ index[x] = k
          /\ ClusterOf(file.pos) <= index[c] + 0
          /\ n \notin spoilt => ClusterOf(file.pos) = index[c] + 0
      BY <1>1, <1>2, <2>1 DEF OpenFile, Turn
    <3>2. index[c] \in Nat
      BY <1>1, <2>1
    <3>3. QED BY <1>1, <2>1, <3>1, <3>2 DEF Grown
  <2>5. QED BY <2>3, <2>4
<1>3. CASE NeedsCluster
  <2> PICK last : last = IF cur = 0 THEN 0 ELSE index[cur] + 1
    OBVIOUS
  <2> PICK u : u = used \cup {c}
    OBVIOUS
  <2> PICK o : o = [owner EXCEPT ![c] = n]
    OBVIOUS
  <2> PICK i : i = [index EXCEPT ![c] = last]
    OBVIOUS
  <2>1. c \in Clusters /\ c \notin used /\ fatRam[c] = Free /\ fat[c] = Free
    BY <1>3, ClusterTaken
  <2>2. \A k \in Clusters : fatRam'[k] = IF k = c THEN EOC ELSE IF k = cur THEN c ELSE fatRam[k]
    BY <1>3 DEF FatAt
  <2>3. cur # 0 => /\ cur \in used /\ owner[cur] = n /\ index[cur] \in Nat /\ cur # c /\ last = index[cur] + 1
                   /\ \A x \in used : owner[x] = n => index[x] <= index[cur]
    BY <1>1, <2>1 DEF OpenFile
  <2>4. cur = 0 => last = 0 /\ file.pos = 0 /\ \A x \in used : owner[x] # n
    BY <1>1 DEF OpenFile
  <2>5. last \in Nat
    BY <2>3, <2>4
  <2>6. /\ u \subseteq Clusters /\ o \in [Clusters -> Nat] /\ i \in [Clusters -> Nat]
        /\ o[c] = n /\ i[c] = last /\ \A x \in used : x # c /\ o[x] = owner[x] /\ i[x] = index[x]
    BY <1>1, <2>1, <2>5
  <2>7. \A x \in used : owner[x] = n => index[x] < last
    BY <1>1, <2>3, <2>4
  <2>8. Grown(u, o, i, c, used, owner, index)
    <3>1. /\ ClusterOf(file.pos) <= last
          /\ n \notin spoilt => ClusterOf(file.pos) = last
      BY <1>1, <1>3, <2>3, <2>4, FirstPlace DEF OpenFile, Turn
    <3>2. \A x \in u : o[x] = n => i[x] <= last
      BY <1>1, <2>5, <2>6, <2>7
    <3>3. ASSUME NEW k \in Nat, k <= last PROVE \E x \in u : o[x] = n /\ i[x] = k
      <4>1. CASE k = last
        BY <2>6, <4>1
      <4>2. CASE k # last
        <5>1. cur # 0 /\ k <= index[cur]
          BY <2>3, <2>4, <3>3, <4>2
        <5>2. QED BY <1>1, <2>6, <5>1 DEF OpenFile
      <4>3. QED BY <4>1, <4>2
    <3>4. QED BY <1>3, <2>4, <2>6, <3>1, <3>2, <3>3 DEF Grown
  <2>9. Linked(u, o, i)'
    <3>1. ASSUME NEW x \in u PROVE fatRam'[x] # Free /\ Owns(o[x])'
      BY <1>1, <2>1, <2>2, <2>6, Numbers DEF Linked
    <3>2. ASSUME NEW x \in u, NEW y \in u, o[x] = o[y] /\ i[x] = i[y] PROVE x = y
      <4>1. CASE x = c /\ y \in used
        BY <1>1, <2>5, <2>6, <2>7, <3>2, <4>1
      <4>2. CASE x \in used /\ y = c
        BY <1>1, <2>5, <2>6, <2>7, <3>2, <4>2
      <4>3. CASE x \in used /\ y \in used
        BY <1>1, <2>6, <3>2, <4>3 DEF Linked
      <4>4. QED BY <4>1, <4>2, <4>3
    <3>3. ASSUME NEW x \in u, fatRam'[x] \in Clusters
          PROVE  fatRam'[x] \in u /\ o[fatRam'[x]] = o[x] /\ i[fatRam'[x]] = i[x] + 1
      <4>1. x # c /\ x \in used
        BY <2>1, <2>2, <3>3, Numbers
      <4>2. CASE x = cur
        BY <1>1, <2>2, <2>3, <2>6, <4>1, <4>2, Numbers
      <4>3. CASE x # cur
        <5>1. fatRam'[x] = fatRam[x]
          BY <1>1, <2>2, <4>1, <4>3
        <5>2. QED BY <1>1, <2>6, <3>3, <4>1, <5>1 DEF Linked
      <4>4. QED BY <4>2, <4>3
    <3>4. ASSUME NEW x \in u, NEW y \in u, o[y] = o[x] /\ i[y] = i[x] + 1
          PROVE  fatRam'[x] = y /\ (fat'[y] # Free => fat'[x] = y)
      <4>1. CASE x = c
        <5>1. y = c \/ (y \in used /\ owner[y] = n)
          BY <2>6, <3>4, <4>1
        <5>2. i[y] = last + 1 /\ (y \in used => index[y] = last + 1)
          BY <2>6, <3>4, <4>1
        <5>3. QED BY <1>1, <2>5, <2>6, <2>7, <5>1, <5>2
      <4>2. CASE x # c /\ y = c
        <5>1. x \in used /\ owner[x] = n /\ index[x] + 1 = last /\ index[x] \in Nat
          BY <1>1, <2>6, <3>4, <4>2
        <5>2. cur # 0 /\ index[x] = index[cur]
          BY <2>3, <2>4, <5>1
        <5>3. x = cur
          BY <1>1, <2>3, <5>1, <5>2 DEF Linked
        <5>4. QED BY <1>1, <2>1, <2>2, <4>2, <5>1, <5>3
      <4>3. CASE x # c /\ y # c
        <5>1. x \in used /\ y \in used /\ owner[y] = owner[x] /\ index[y] = index[x] + 1
          BY <2>6, <3>4, <4>3
        <5>2. fatRam[x] = y /\ (fat[y] # Free => fat[x] = y)
          BY <1>1, <5>1 DEF Linked
        <5>3. x # cur
          <6>1. SUFFICES ASSUME x = cur PROVE FALSE
            OBVIOUS
          <6>2. cur # 0
            BY <1>1, <5>1, <6>1, Numbers
          <6>3. index[y] <= index[cur] /\ index[cur] \in Nat
            BY <2>3, <5>1, <6>1, <6>2
          <6>4. QED BY <5>1, <6>1, <6>3
        <5>4. QED BY <1>1, <2>2, <4>3, <5>1, <5>2, <5>3
      <4>4. QED BY <4>1, <4>2, <4>3
    <3>5. QED BY <3>1, <3>2, <3>3, <3>4 DEF Linked
  <2>10. QED BY <2>8, <2>9
<1>4. QED BY <1>2, <1>3

LEMMA TakenFile ==
  ASSUME Types, NEW c \in IF NeedsCluster THEN NextFree ELSE {file.cur}
  PROVE  /\ DOMAIN FileAt(c) = {"open", "name", "first", "cur", "pos", "dirty"}
         /\ FileAt(c).open = file.open /\ FileAt(c).name = file.name /\ FileAt(c).pos = file.pos
         /\ FileAt(c).cur = c /\ FileAt(c).dirty = (NeedsCluster \/ file.dirty)
         /\ FileAt(c).first = IF NeedsCluster /\ file.cur = 0 THEN c ELSE file.first
<1>1. DOMAIN file = {"open", "name", "first", "cur", "pos", "dirty"} /\ file.dirty \in BOOLEAN
  BY DEF Types, FileTypes
<1>2. CASE NeedsCluster
  BY <1>1, <1>2 DEF FileAt
<1>3. CASE ~NeedsCluster
  <2>1. c = file.cur /\ FileAt(c) = file
    BY <1>3 DEF FileAt
  <2>2. QED BY <1>1, <1>3, <2>1
<1>4. QED BY <1>2, <1>3

\* A place before the position has a cluster that was in use before.
LEMMA OldPlace ==
  ASSUME Types, file.open, NEW used, NEW owner, NEW index, NEW u, NEW o, NEW i,
         NEW c \in Clusters, Grown(u, o, i, c, used, owner, index),
         NEW x \in u, NEW m \in Nat, m < file.pos, o[x] = file.name, i[x] = ClusterOf(m)
  PROVE  x \in used /\ owner[x] = file.name /\ index[x] = ClusterOf(m)
<1>1. SUFFICES ASSUME x \notin used PROVE FALSE
  BY DEF Grown
<1>2. x = c /\ NeedsCluster /\ ClusterOf(file.pos) <= i[c] /\ file.pos \in Nat
  BY <1>1 DEF Grown, Types, FileTypes
<1>3. ClusterOf(m) < ClusterOf(file.pos)
  BY <1>2, ClusterBegins DEF NeedsCluster
<1>4. ClusterOf(m) \in Nat /\ ClusterOf(file.pos) \in Nat
  BY <1>2, Grid
<1>5. QED BY <1>2, <1>3, <1>4

\* The buffer that prepare gives to write holds the sure cells before the position.
LEMMA FieldCells ==
  ASSUME Inv, file.open, NEW used, NEW owner, NEW index, Shape(used, owner, index),
         NEW u, NEW o, NEW i, NEW c \in Clusters, Grown(u, o, i, c, used, owner, index)
  PROVE  /\ SectorAt(c) = <<c, SectorOf(file.pos)>> /\ SectorAt(c) \in Sectors
         /\ Slot = CellOf(file.pos) /\ Slot \in Slots
         /\ Prepared(SectorAt(c), Slot) \in [Slots -> Cells]
         /\ \A m \in Nat : m < Bound /\ i[c] = ClusterOf(m) /\ SectorOf(m) = SectorOf(file.pos) =>
              CellOf(m) # Slot /\ Prepared(SectorAt(c), Slot)[CellOf(m)] = printed[file.name][m + 1]
<1> DEFINE n == file.name
           sector == SectorAt(c)
<1>1. Types /\ DirInv /\ file.pos \in Nat /\ n \in Names
  BY DEF Inv, Types, FileTypes
<1>2. sector = <<c, SectorOf(file.pos)>> /\ sector \in Sectors /\ Slot = CellOf(file.pos) /\ Slot \in Slots
  BY <1>1, Grid DEF SectorAt, SectorOf, Slot, CellOf, Sectors
<1>3. Prepared(sector, Slot) \in [Slots -> Cells]
  <2>1. Empty \in [Slots -> Cells]
    BY DEF Empty, Cells
  <2>2. QED BY <1>1, <1>2, <2>1 DEF Prepared, Types, CardTypes, CacheTypes
<1>4. ASSUME NEW m \in Nat, m < Bound, i[c] = ClusterOf(m), SectorOf(m) = SectorOf(file.pos)
      PROVE  CellOf(m) # Slot /\ Prepared(sector, Slot)[CellOf(m)] = printed[n][m + 1]
  <2>1. m < file.pos
    BY <1>1, <1>4, Promised
  <2>2. c \in used /\ owner[c] = n /\ index[c] = ClusterOf(m)
    <3>1. c \in u /\ o[c] = n
      BY DEF Grown
    <3>2. QED BY <1>1, <1>4, <2>1, <3>1, OldPlace
  <2>3. /\ ClusterOf(m) \in Nat /\ ClusterOf(file.pos) \in Nat
        /\ SectorOf(m) \in 0..(SectorsPerCluster - 1)
        /\ CellOf(m) \in Slots /\ CellOf(file.pos) \in Slots
    BY <1>1, Grid
  <2>4. ClusterOf(file.pos) <= ClusterOf(m)
    BY <1>4 DEF Grown
  <2>5. CellOf(m) < CellOf(file.pos)
    BY <1>1, <1>4, <2>1, <2>3, <2>4, PlacesInOrder, Sizes
  <2>6. CellOf(m) # Slot /\ Slot # 1
    BY <1>2, <2>3, <2>5, Sizes DEF Slots
  <2>7. CASE cache.sector = sector
    <3>1. cache.sector[1] = c /\ cache.sector[2] = SectorOf(m) /\ cache.sector \in Sectors
      BY <1>2, <1>4, <2>7
    <3>2. cache.cells[CellOf(m)] = printed[n][m + 1]
      BY <1>4, <2>2, <3>1 DEF Shape, InCache
    <3>3. QED BY <2>6, <2>7, <3>2 DEF Prepared
  <2>8. CASE cache.sector # sector
    <3>1. data[sector][CellOf(m)] = printed[n][m + 1]
      <4>1. CASE n \notin spoilt
        BY <1>2, <1>4, <2>1, <2>2, <2>8, <4>1 DEF Shape, BesideCache
      <4>2. CASE n \in spoilt
        <5>1. m < Len(promised[n])
          BY <1>4, <4>2 DEF Bound
        <5>2. n \in Named
          BY <1>1, <5>1, Promised
        <5>3. QED BY <1>2, <1>4, <2>2, <4>2, <5>1, <5>2 DEF Shape, OnCard, Sure
      <4>3. QED BY <4>1, <4>2
    <3>2. QED BY <2>6, <2>8, <3>1 DEF Prepared
  <2>9. QED BY <2>7, <2>8
<1>5. QED BY <1>2, <1>3, <1>4

\* The card after prepare has taken the buffer for the sector of the field.
LEMMA FieldCell ==
  ASSUME Inv, file.open, NEW used, NEW owner, NEW index, Shape(used, owner, index),
         NEW u, NEW o, NEW i, NEW c \in Clusters, Grown(u, o, i, c, used, owner, index),
         NEW sector \in Sectors, NEW m \in Nat, NEW x \in u, file.name \notin spoilt,
         m < file.pos, o[x] = file.name, i[x] = ClusterOf(m), <<x, SectorOf(m)>> # sector
  PROVE  EvictedData(sector)[<<x, SectorOf(m)>>][CellOf(m)] = printed[file.name][m + 1]
<1> DEFINE n == file.name
<1>1. Types /\ DirInv /\ file.pos \in Nat /\ n \in Names /\ file.pos = Len(printed[n])
  BY Promised DEF Inv, Types, FileTypes
<1>2. EvictedData(sector) = IF sector = cache.sector THEN data ELSE DataSynced
  BY Evicted
<1>3. x \in used /\ owner[x] = n /\ index[x] = ClusterOf(m)
  BY <1>1, OldPlace
<1>4. CASE sector = cache.sector
  BY <1>2, <1>3, <1>4 DEF Shape, BesideCache
<1>5. CASE sector # cache.sector
  BY <1>1, <1>2, <1>3, <1>5, Synced
<1>6. QED BY <1>4, <1>5

LEMMA FieldCard ==
  ASSUME Inv, file.open, NEW used, NEW owner, NEW index, Shape(used, owner, index),
         NEW u, NEW o, NEW i, NEW c \in Clusters, Grown(u, o, i, c, used, owner, index),
         NEW sector \in Sectors
  PROVE  /\ EvictedDir(sector) = DirSynced /\ EvictedData(sector) \in [Sectors -> [Slots -> Cells]]
         /\ \A f \in Named : \A m \in Nat : \A x \in u :
              /\ m < (IF f \in spoilt THEN Len(promised[f]) ELSE DirSynced[f].size)
              /\ o[x] = f /\ i[x] = ClusterOf(m)
              => EvictedData(sector)[<<x, SectorOf(m)>>][CellOf(m)] = printed[f][m + 1]
         /\ file.name \notin spoilt =>
              \A m \in Nat : \A x \in u :
                /\ m < file.pos /\ o[x] = file.name /\ i[x] = ClusterOf(m) /\ <<x, SectorOf(m)>> # sector
                => EvictedData(sector)[<<x, SectorOf(m)>>][CellOf(m)] = printed[file.name][m + 1]
<1> DEFINE n == file.name
<1>1. Types /\ DirInv /\ file.pos \in Nat /\ n \in Names /\ file.pos = Len(printed[n])
  BY Promised DEF Inv, Types, FileTypes
<1>2. EvictedDir(sector) = DirSynced
  BY Evicted, Numbers DEF DirSynced
<1>3. EvictedData(sector) = IF sector = cache.sector THEN data ELSE DataSynced
  BY Evicted
<1>4. EvictedData(sector) \in [Sectors -> [Slots -> Cells]]
  BY <1>1, <1>3, Synced DEF Types, CardTypes
<1>5. ASSUME NEW m \in Nat, NEW x \in u, n \notin spoilt,
             m < file.pos, o[x] = n, i[x] = ClusterOf(m), <<x, SectorOf(m)>> # sector
      PROVE  EvictedData(sector)[<<x, SectorOf(m)>>][CellOf(m)] = printed[n][m + 1]
  BY <1>5, FieldCell
<1>6. ASSUME NEW f \in Named, NEW m \in Nat, NEW x \in u,
             m < (IF f \in spoilt THEN Len(promised[f]) ELSE DirSynced[f].size), o[x] = f, i[x] = ClusterOf(m)
      PROVE  EvictedData(sector)[<<x, SectorOf(m)>>][CellOf(m)] = printed[f][m + 1]
  <2>1. f \in Names /\ DirSynced[f].size <= Len(printed[f]) /\ DirSynced[f] \in Entries
    BY Synced DEF Named
  <2>2. x \in used /\ owner[x] = f /\ index[x] = ClusterOf(m)
    <3>1. CASE f = n
      <4>1. m < file.pos
        BY <1>1, <1>6, <2>1, <3>1, Promised DEF Entries, Sure
      <4>2. QED BY <1>1, <1>6, <3>1, <4>1, OldPlace
    <3>2. CASE f # n
      BY <1>6, <3>2 DEF Grown
    <3>3. QED BY <3>1, <3>2
  <2>3. CASE sector = cache.sector
    <3>1. DirSynced = dir
      BY <2>3, Numbers DEF DirSynced
    <3>2. m < Sure(f)
      BY <1>6, <3>1 DEF Sure
    <3>3. QED BY <1>3, <2>2, <2>3, <3>2 DEF Shape, OnCard
  <2>4. CASE sector # cache.sector
    BY <1>3, <1>6, <2>2, <2>4, Synced
  <2>5. QED BY <2>3, <2>4
<1>7. QED BY <1>2, <1>4, <1>5, <1>6

LEMMA PrintKept ==
  ASSUME Types, NEW used, NEW owner, NEW index, Shape(used, owner, index),
         NEW u, NEW o, NEW i, NEW c \in Clusters, Grown(u, o, i, c, used, owner, index),
         UNCHANGED <<fat, promised>>,
         \A f \in Named : /\ dir'[f].exists /\ dir'[f].first = dir[f].first
                          /\ Len(promised[f]) <= dir'[f].size /\ dir'[f].size <= Len(printed'[f])
                          /\ Begins(printed[f], printed'[f])
                          /\ Len(printed'[f]) \in Nat
  PROVE  KeptFiles(u, o, i)'
<1>1. Named' = Named
  BY DEF Named
<1>2. SUFFICES ASSUME NEW f \in Named PROVE KeptFile(f, u, o, i)'
  BY <1>1 DEF KeptFiles
<1>3. KeptFile(f, used, owner, index) /\ f \in Names
  BY DEF Shape, KeptFiles, Named
<1>4. \A x \in used : x \in u /\ o[x] = owner[x] /\ i[x] = index[x]
  BY DEF Grown
<1>5. Begins(promised[f], printed'[f])
  <2>1. Len(promised[f]) \in Nat /\ Len(printed[f]) \in Nat
    BY <1>3, Promised
  <2>2. Begins(promised[f], printed[f]) /\ Begins(printed[f], printed'[f])
    BY <1>3 DEF KeptFile
  <2>3. QED BY <2>1, <2>2 DEF Begins
<1>6. \A m \in Nat : m < Len(promised[f]) => \E x \in u : o[x] = f /\ i[x] = ClusterOf(m) /\ fat[x] # Free
  BY <1>3, <1>4 DEF KeptFile
<1>7. dir[f].first \in u /\ o[dir[f].first] = f /\ i[dir[f].first] = 0
  BY <1>3, <1>4 DEF KeptFile
<1>8. QED
  BY <1>5, <1>6, <1>7 DEF KeptFile

LEMMA PrintExtended ==
  ASSUME Types, NEW used, NEW owner, NEW index, Shape(used, owner, index), file.open,
         NEW u, NEW o, NEW i, NEW c \in Clusters, Grown(u, o, i, c, used, owner, index),
         NEW more \in {0, 1}, file'.pos = file.pos + more, more = 0 => file.name \in spoilt',
         spoilt \subseteq spoilt',
         file'.name = file.name, file'.cur = c,
         file'.first = IF NeedsCluster /\ file.cur = 0 THEN c ELSE file.first,
         file.cur = 0 => NeedsCluster,
         Len(printed'[file.name]) = Len(printed[file.name]) + more
  PROVE  Extended(u, o, i)'
<1>1. /\ OpenFile(used, owner, index) /\ file.pos \in Nat /\ file'.pos \in Nat /\ c # 0
      /\ c \in u /\ i[c] \in Nat /\ o[c] = file.name
  BY Numbers, SMTT(30) DEF Shape, Extended, Types, FileTypes, Grown
<1>2. ClusterOf(file.pos) \in Nat /\ ClusterOf(file'.pos) \in Nat
  BY <1>1, Grid
<1>3. file'.first \in u /\ o[file'.first] = file.name /\ i[file'.first] = 0
  <2>1. CASE file.cur = 0
    BY <1>1, <2>1 DEF Grown
  <2>2. CASE file.cur # 0
    BY <1>1, <2>2 DEF OpenFile, Grown
  <2>3. QED BY <2>1, <2>2
<1>4. /\ ClusterOf(file'.pos) <= i[c] + Turn'
      /\ file.name \notin spoilt' => ClusterOf(file'.pos) = i[c] + Turn'
  <2>1. ClusterOf(file.pos) <= i[c] /\ (file.name \notin spoilt => ClusterOf(file.pos) = i[c])
    BY DEF Grown
  <2>2. CASE more = 0
    BY <1>1, <1>2, <2>1, <2>2 DEF Turn
  <2>3. CASE more = 1
    <3>1. IF (file.pos + 1) % ClusterCells = 0 THEN ClusterOf(file.pos + 1) = ClusterOf(file.pos) + 1
                                                 ELSE ClusterOf(file.pos + 1) = ClusterOf(file.pos)
      BY <1>1, NextPlace
    <3>2. file'.pos = file.pos + 1
      BY <2>3
    <3>3. Turn' = IF (file.pos + 1) % ClusterCells = 0 THEN 1 ELSE 0
      BY <3>2 DEF Turn, NeedsCluster
    <3>4. QED BY <1>1, <1>2, <2>1, <3>1, <3>2, <3>3
  <2>4. QED BY <2>2, <2>3
<1>5. file'.pos = Len(printed'[file.name])
  BY <1>1 DEF OpenFile
<1>6. QED
  BY <1>1, <1>3, <1>4, <1>5 DEF Extended, OpenFile, Grown

\* The history of an accepted field.
LEMMA PrintedMore ==
  ASSUME Types, file.open, pc = "print", printed' = [printed EXCEPT ![file.name] = Append(@, Value)]
  PROVE  /\ printed' \in [Names -> Seq(Cells)] /\ Value \in Cells
         /\ \A f \in Names : f # file.name => printed'[f] = printed[f]
         /\ Len(printed'[file.name]) = Len(printed[file.name]) + 1
         /\ printed'[file.name][Len(printed[file.name]) + 1] = Value
         /\ \A f \in Names : Begins(printed[f], printed'[f]) /\ Len(printed'[f]) \in Nat
         /\ \A f \in Names : \A m \in Nat : m < Len(printed[f]) => printed'[f][m + 1] = printed[f][m + 1]
<1>1. file.name \in Names /\ \A f \in Names : printed[f] \in Seq(Cells) /\ Len(printed[f]) \in Nat
  BY LenProperties DEF Types, FileTypes, HistoryTypes
<1>2. row \in 1..MaxRows /\ cell \in 1..RowCells
  BY Numbers DEF Types, PlaceTypes
<1>3. Value \in Cells
  BY <1>1, <1>2 DEF Value, Cells
<1>4. printed'[file.name] = Append(printed[file.name], Value) /\ \A f \in Names : f # file.name => printed'[f] = printed[f]
  BY <1>1 DEF Types, HistoryTypes
<1>5. /\ Append(printed[file.name], Value) \in Seq(Cells)
      /\ Len(Append(printed[file.name], Value)) = Len(printed[file.name]) + 1
      /\ \A m \in 1..Len(printed[file.name]) : Append(printed[file.name], Value)[m] = printed[file.name][m]
      /\ Append(printed[file.name], Value)[Len(printed[file.name]) + 1] = Value
  BY <1>1, <1>3, AppendProperties
<1>6. printed' \in [Names -> Seq(Cells)]
  BY <1>1, <1>5 DEF Types, HistoryTypes
<1>7. \A f \in Names : Begins(printed[f], printed'[f]) /\ Len(printed'[f]) \in Nat
  BY <1>1, <1>4, <1>5 DEF Begins
<1>8. ASSUME NEW f \in Names, NEW m \in Nat, m < Len(printed[f]) PROVE printed'[f][m + 1] = printed[f][m + 1]
  <2>1. m + 1 \in 1..Len(printed[f])
    BY <1>1, <1>8
  <2>2. QED BY <1>7, <2>1 DEF Begins
<1>9. QED BY <1>3, <1>4, <1>5, <1>6, <1>7, <1>8

\* One field, on whatever cluster: taken by the buffer, by the card, or lost.
LEMMA PrintFieldInv == Inv /\ PrintField => Inv'
<1> SUFFICES ASSUME Inv, PrintField PROVE Inv'
  OBVIOUS
<1> DEFINE n == file.name
<1>1. Types /\ FatInv /\ DirInv
  BY DEF Inv
<1>2. PICK used, owner, index : Shape(used, owner, index)
  BY DEF Inv
<1>3. /\ pc = "print" /\ file.open = TRUE /\ n \in Names /\ file.pos \in Nat /\ file.dirty \in BOOLEAN
      /\ UNCHANGED <<fat, row, promised>> /\ cell' \in 1..RowCells /\ pc' \in {"print", "flush"}
  BY <1>1, NextCellTypes DEF PrintField, Types, FileTypes
<1>4. PICK c \in IF NeedsCluster THEN NextFree ELSE {file.cur} :
       LET sector == SectorAt(c)
           cells  == [Prepared(sector, Slot) EXCEPT ![Slot] = Value]
           filled == [sector |-> sector, dirty |-> TRUE, cells |-> cells, entries |-> <<>>]
       IN /\ fatRam' = FatAt(c)
          /\ \/ /\ Slot < SectorCells
                /\ Evict(sector)
                /\ cache' = filled
                /\ Accepted(c) /\ UNCHANGED spoilt
             \/ /\ Slot = SectorCells
                /\ dir' = EvictedDir(sector)
                /\ \E ok \in WriteOutcomes :
                     /\ cache' = [filled EXCEPT !.dirty = ~ok]
                     /\ data' = IF ok THEN [EvictedData(sector) EXCEPT ![sector] = cells]
                                      ELSE EvictedData(sector)
                     /\ IF ok THEN Accepted(c) /\ UNCHANGED spoilt ELSE Failed(c)
             \/ /\ WriteFaults /\ MustEvict(sector)
                /\ Failed(c)
                /\ UNCHANGED <<dir, data, cache>>
  BY DEF PrintField
<1> PICK sector : sector = SectorAt(c)
  OBVIOUS
<1> PICK cells : cells = [Prepared(sector, Slot) EXCEPT ![Slot] = Value]
  OBVIOUS
<1>5. \/ /\ dir' = EvictedDir(sector)
         /\ \/ /\ data' = EvictedData(sector)
               /\ cache' = [sector |-> sector, dirty |-> TRUE, cells |-> cells, entries |-> <<>>]
               /\ \/ Accepted(c) /\ UNCHANGED spoilt
                  \/ Failed(c)
            \/ /\ data' = [EvictedData(sector) EXCEPT ![sector] = cells]
               /\ cache' = [sector |-> sector, dirty |-> FALSE, cells |-> cells, entries |-> <<>>]
               /\ Accepted(c) /\ UNCHANGED spoilt
      \/ Failed(c) /\ UNCHANGED <<dir, data, cache>>
  <2>1. WriteOutcomes \subseteq BOOLEAN
    BY DEF WriteOutcomes
  <2>2. QED
    BY <1>4, <2>1 DEF Evict
<1>6. fatRam' = FatAt(c) /\ c \in Clusters /\ c # 0 /\ (file.cur = 0 => NeedsCluster)
  BY <1>1, <1>2, <1>3, <1>4, ClusterTaken, Numbers
<1>7. /\ DOMAIN FileAt(c) = {"open", "name", "first", "cur", "pos", "dirty"}
      /\ FileAt(c).open = file.open /\ FileAt(c).name = n /\ FileAt(c).pos = file.pos
      /\ FileAt(c).cur = c /\ FileAt(c).dirty = (NeedsCluster \/ file.dirty)
      /\ FileAt(c).first = IF NeedsCluster /\ file.cur = 0 THEN c ELSE file.first
  BY <1>1, TakenFile
<1>8. PICK more \in {0, 1} : \/ more = 1 /\ Accepted(c) /\ UNCHANGED spoilt
                             \/ more = 0 /\ Failed(c)
  BY <1>5
<1>9. /\ DOMAIN file' = {"open", "name", "first", "cur", "pos", "dirty"}
      /\ file'.open = TRUE /\ file'.name = n /\ file'.cur = c /\ file'.pos = file.pos + more
      /\ file'.first = IF NeedsCluster /\ file.cur = 0 THEN c ELSE file.first
      /\ file'.dirty \in BOOLEAN /\ (~file'.dirty => more = 0 /\ ~NeedsCluster /\ ~file.dirty)
  <2> PICK taken : taken = FileAt(c)
    OBVIOUS
  <2>1. CASE more = 1 /\ Accepted(c) /\ UNCHANGED spoilt
    <3>1. file' = [taken EXCEPT !.pos = @ + 1, !.dirty = TRUE]
      BY <2>1 DEF Accepted
    <3>2. /\ DOMAIN taken = {"open", "name", "first", "cur", "pos", "dirty"}
          /\ taken.open = file.open /\ taken.name = n /\ taken.pos = file.pos /\ taken.cur = c
          /\ taken.first = IF NeedsCluster /\ file.cur = 0 THEN c ELSE file.first
      BY <1>7
    <3>3. /\ DOMAIN file' = DOMAIN taken /\ file'.open = taken.open /\ file'.name = taken.name
          /\ file'.first = taken.first /\ file'.cur = taken.cur /\ file'.pos = taken.pos + 1
          /\ file'.dirty = TRUE
      BY <3>1, <3>2
    <3>4. QED BY <1>3, <2>1, <3>2, <3>3
  <2>2. CASE more = 0 /\ Failed(c)
    <3>1. file' = FileAt(c)
      BY <2>2 DEF Failed
    <3>2. FileAt(c).dirty \in BOOLEAN
      BY <1>7
    <3>3. ~file'.dirty => ~NeedsCluster /\ ~file.dirty
      BY <1>7, <3>1
    <3>4. file.pos = file.pos + more
      BY <1>3, <2>2
    <3>5. QED BY <1>3, <1>7, <2>2, <3>1, <3>2, <3>3, <3>4
  <2>3. QED BY <1>8, <2>1, <2>2
<1>10. /\ spoilt \subseteq spoilt' /\ spoilt' \subseteq Names /\ (more = 0 => n \in spoilt')
       /\ (more = 1 => spoilt' = spoilt) /\ \A f : f # n => (f \in spoilt' <=> f \in spoilt)
  BY <1>1, <1>3, <1>8 DEF Failed, Spoil, Types, HistoryTypes
<1>11. /\ printed' \in [Names -> Seq(Cells)] /\ Value \in Cells
       /\ Len(printed'[n]) = Len(printed[n]) + more
       /\ more = 1 => printed'[n][Len(printed[n]) + 1] = Value
       /\ \A f \in Names : Begins(printed[f], printed'[f]) /\ Len(printed'[f]) \in Nat
       /\ \A f \in Names : \A m \in Nat : m < Len(printed[f]) => printed'[f][m + 1] = printed[f][m + 1]
  <2>1. CASE more = 1 /\ Accepted(c) /\ UNCHANGED spoilt
    BY <1>1, <1>3, <2>1, PrintedMore DEF Accepted
  <2>2. CASE more = 0 /\ Failed(c)
    <3>1. printed' = printed
      BY <2>2 DEF Failed
    <3>2. Value \in Cells
      BY <1>1, <1>3, Numbers DEF Value, Cells, Types, PlaceTypes
    <3>3. \A f \in Names : Len(printed[f]) \in Nat
      BY <1>1, <1>2, Promised
    <3>4. QED BY <1>1, <1>3, <2>2, <3>1, <3>2, <3>3 DEF Begins, Types, HistoryTypes
  <2>3. QED BY <1>8, <2>1, <2>2
<1>12. Named' = Named /\ \A f : Owns(f)' <=> Owns(f)
  BY <1>3, <1>9 DEF Named, Owns
<1>13. PICK u, o, i : Grown(u, o, i, c, used, owner, index) /\ Linked(u, o, i)'
  BY <1>1, <1>2, <1>3, <1>4, <1>6, <1>12, Allocated
<1>14. FatInv' /\ fatRam' \in [Clusters -> Clusters \cup {Free, EOC}]
  BY <1>1, <1>2, <1>3, <1>4, <1>6, TakenFat
<1>15. Extended(u, o, i)'
  BY <1>1, <1>2, <1>3, <1>6, <1>9, <1>10, <1>11, <1>13, PrintExtended
<1>16. FileTypes' /\ PlaceTypes' /\ HistoryTypes'
  <2>1. file'.first \in Clusters \cup {0} /\ file'.cur \in Clusters \cup {0} /\ file'.pos \in Nat
    BY <1>1, <1>3, <1>6, <1>9 DEF Types, FileTypes
  <2>2. file'.open <=> pc' # "open"
    BY <1>3, <1>9
  <2>3. FileTypes'
    BY <1>3, <1>9, <2>1, <2>2 DEF FileTypes
  <2>4. PlaceTypes'
    BY <1>1, <1>3 DEF Types, PlaceTypes
  <2>5. HistoryTypes'
    BY <1>1, <1>3, <1>10, <1>11 DEF Types, HistoryTypes
  <2>6. QED BY <2>3, <2>4, <2>5
<1>17. /\ n \in Names /\ file.pos = Len(printed[n]) /\ Bound \in Nat /\ Bound <= file.pos
       /\ Len(promised[n]) \in Nat /\ Len(promised[n]) <= Bound
       /\ \A f \in Named : Sure(f) \in Nat /\ Len(promised[f]) <= Sure(f) /\ Sure(f) <= Len(printed[f])
       /\ \A f \in Named : f \in Names
       /\ \A f \in Names : Len(printed[f]) \in Nat
  BY <1>1, <1>2, <1>3, Promised
<1>18. Bound' = IF n \in spoilt' THEN Len(promised[n]) ELSE file.pos + 1
  BY <1>3, <1>9, <1>10 DEF Bound
<1>19. \A m \in Nat : \A x \in u : m < Bound' /\ n \notin spoilt' /\ o[x] = n /\ i[x] = ClusterOf(m) =>
         m < file.pos \/ (m = file.pos /\ x = c)
  <2>1. SUFFICES ASSUME NEW m \in Nat, NEW x \in u,
                        m < file.pos + 1, n \notin spoilt, o[x] = n, i[x] = ClusterOf(m), ~(m < file.pos)
                 PROVE  m = file.pos /\ x = c
    BY <1>10, <1>18
  <2>2. m = file.pos
    BY <1>3, <2>1
  <2>3. c \in u /\ o[c] = n /\ i[c] = ClusterOf(file.pos)
    BY <1>13, <2>1 DEF Grown
  <2>4. x = c
    BY <1>13, <2>1, <2>2, <2>3 DEF Linked
  <2>5. QED BY <2>2, <2>4
<1>20. ASSUME dir' = EvictedDir(sector),
              \/ /\ data' = EvictedData(sector)
                 /\ cache' = [sector |-> sector, dirty |-> TRUE, cells |-> cells, entries |-> <<>>]
              \/ /\ data' = [EvictedData(sector) EXCEPT ![sector] = cells]
                 /\ cache' = [sector |-> sector, dirty |-> FALSE, cells |-> cells, entries |-> <<>>]
       PROVE  Inv'
  <2> PICK card : card = EvictedData(sector)
    OBVIOUS
  <2>1. /\ sector = <<c, SectorOf(file.pos)>> /\ sector \in Sectors
        /\ Slot = CellOf(file.pos) /\ Slot \in Slots
        /\ Prepared(sector, Slot) \in [Slots -> Cells]
        /\ \A m \in Nat : m < Bound /\ i[c] = ClusterOf(m) /\ SectorOf(m) = SectorOf(file.pos) =>
             CellOf(m) # Slot /\ Prepared(sector, Slot)[CellOf(m)] = printed[n][m + 1]
    BY <1>2, <1>3, <1>6, <1>13, FieldCells
  <2>2. dir' = DirSynced /\ card \in [Sectors -> [Slots -> Cells]]
    BY <1>2, <1>3, <1>6, <1>13, <1>20, <2>1, FieldCard
  <2>3. \A f \in Named : \A m \in Nat : \A x \in u :
          /\ m < (IF f \in spoilt THEN Len(promised[f]) ELSE DirSynced[f].size)
          /\ o[x] = f /\ i[x] = ClusterOf(m)
          => card[<<x, SectorOf(m)>>][CellOf(m)] = printed[f][m + 1]
    BY <1>2, <1>3, <1>6, <1>13, <2>1, FieldCard
  <2>4. n \notin spoilt =>
          \A m \in Nat : \A x \in u :
            /\ m < file.pos /\ o[x] = n /\ i[x] = ClusterOf(m) /\ <<x, SectorOf(m)>> # sector
            => card[<<x, SectorOf(m)>>][CellOf(m)] = printed[n][m + 1]
    <3>1. SUFFICES ASSUME n \notin spoilt, NEW m \in Nat, NEW x \in u,
                          m < file.pos /\ o[x] = n /\ i[x] = ClusterOf(m) /\ <<x, SectorOf(m)>> # sector
                   PROVE  card[<<x, SectorOf(m)>>][CellOf(m)] = printed[n][m + 1]
      OBVIOUS
    <3>2. Inv /\ file.open /\ Grown(u, o, i, c, used, owner, index)
      BY <1>3, <1>13
    <3>3. sector \in Sectors
      BY <2>1
    <3>4. EvictedData(sector)[<<x, SectorOf(m)>>][CellOf(m)] = printed[n][m + 1]
      BY <1>2, <1>6, <3>1, <3>2, <3>3, FieldCell
    <3>5. QED BY <3>4
  <2>5. /\ DOMAIN cache' = {"sector", "dirty", "cells", "entries"}
        /\ cache'.sector = sector /\ cache'.dirty \in BOOLEAN /\ cache'.cells = cells
        /\ data' = card \/ (data' = [card EXCEPT ![sector] = cells])
        /\ ~cache'.dirty => data' = [card EXCEPT ![sector] = cells]
    <3>1. CASE /\ data' = card
               /\ cache' = [sector |-> sector, dirty |-> TRUE, cells |-> cells, entries |-> <<>>]
      BY <3>1
    <3>2. CASE /\ data' = [card EXCEPT ![sector] = cells]
               /\ cache' = [sector |-> sector, dirty |-> FALSE, cells |-> cells, entries |-> <<>>]
      BY <3>2
    <3>3. QED BY <1>20, <3>1, <3>2
  <2>6. cells \in [Slots -> Cells] /\ cells[Slot] = Value
        /\ \A k \in Slots : k # Slot => cells[k] = Prepared(sector, Slot)[k]
    BY <1>11, <2>1
  <2>7. data' \in [Sectors -> [Slots -> Cells]]
        /\ (\A s \in Sectors : s # sector => data'[s] = card[s])
        /\ (data'[sector] = card[sector] \/ data'[sector] = cells)
        /\ (~cache'.dirty => data'[sector] = cells)
    <3> PICK written : written = [card EXCEPT ![sector] = cells]
      OBVIOUS
    <3>1. /\ written \in [Sectors -> [Slots -> Cells]] /\ written[sector] = cells
          /\ \A s \in Sectors : s # sector => written[s] = card[s]
      BY <2>1, <2>2, <2>6
    <3>2. data' \in {card, written} /\ (~cache'.dirty => data' = written)
      BY <2>5
    <3>3. QED BY <2>2, <3>1, <3>2
  <2>8. ASSUME NEW m \in Nat, m < Bound', i[c] = ClusterOf(m), SectorOf(m) = SectorOf(file.pos)
        PROVE  cells[CellOf(m)] = printed'[n][m + 1]
    <3>1. CASE m < Bound
      <4>1. CellOf(m) # Slot /\ Prepared(sector, Slot)[CellOf(m)] = printed[n][m + 1]
        BY <2>1, <2>8, <3>1
      <4>2. printed'[n][m + 1] = printed[n][m + 1]
        <5>1. m < Len(printed[n])
          BY <1>3, <1>17, <3>1
        <5>2. QED BY <1>11, <1>17, <5>1
      <4>3. CellOf(m) \in Slots
        BY Grid
      <4>4. QED BY <2>6, <4>1, <4>2, <4>3
    <3>2. CASE ~(m < Bound)
      <4>1. n \notin spoilt' /\ m < file.pos + 1
        BY <1>17, <1>18, <2>8, <3>2
      <4>2. n \notin spoilt /\ more = 1
        BY <1>8, <1>10, <4>1
      <4>3. Bound = file.pos
        BY <4>2 DEF Bound
      <4>4. m = file.pos
        BY <1>3, <3>2, <4>1, <4>3
      <4>5. QED BY <1>11, <1>17, <2>1, <2>6, <4>2, <4>4
    <3>3. QED BY <3>1, <3>2
  <2>9. CardTypes' /\ CacheTypes'
    <3>1. DirSynced \in [Names -> Entries]
      BY <1>2, Synced
    <3>2. CardTypes'
      BY <1>1, <1>3, <1>14, <2>2, <2>7, <3>1 DEF Types, CardTypes
    <3>3. cache'.sector \in Sectors /\ cache'.sector # DirSector /\ cache'.cells \in [Slots -> Cells]
      <4>1. cache'.sector = sector /\ cache'.cells = cells
        BY <2>5
      <4>2. sector \in Sectors /\ sector # DirSector
        BY <2>1, Numbers
      <4>3. QED BY <2>6, <4>1, <4>2
    <3>4. CacheTypes'
      BY <2>5, <3>3 DEF CacheTypes
    <3>5. QED BY <3>2, <3>4
  <2>10. DirInv'
    <3>1. \A g \in Names : ~dir'[g].exists => dir'[g].size = 0
      BY <1>2, <2>2, Synced
    <3>2. Entry' = Entry
      <4>1. Entry' = dir'[n]
        BY <1>9, <2>1, <2>5, Numbers DEF Entry
      <4>2. QED BY <1>2, <1>3, <2>2, <4>1, Synced
    <3>3. ~file'.dirty => Entry.exists /\ Entry.size = file'.pos /\ Entry.first = file'.first
      BY <1>1, <1>3, <1>9 DEF DirInv
    <3>4. QED
      BY <1>3, <1>9, <2>1, <2>5, <3>1, <3>2, <3>3, Numbers DEF DirInv
  <2>11. KeptFiles(u, o, i)'
    <3>1. \A f \in Named : /\ dir'[f].exists /\ dir'[f].first = dir[f].first
                           /\ Len(promised[f]) <= dir'[f].size /\ dir'[f].size <= Len(printed'[f])
                           /\ Begins(printed[f], printed'[f]) /\ Len(printed'[f]) \in Nat
      <4>1. SUFFICES ASSUME NEW f \in Named
                     PROVE  /\ dir'[f].exists /\ dir'[f].first = dir[f].first
                            /\ Len(promised[f]) <= dir'[f].size /\ dir'[f].size <= Len(printed'[f])
                            /\ Begins(printed[f], printed'[f]) /\ Len(printed'[f]) \in Nat
        OBVIOUS
      <4>2. /\ dir'[f].exists /\ dir'[f].first = dir[f].first /\ dir'[f].size \in Nat
            /\ Len(promised[f]) <= dir'[f].size /\ dir'[f].size <= Len(printed[f])
        BY <1>2, <1>17, <2>2, Synced DEF Entries
      <4>3. Begins(printed[f], printed'[f]) /\ Len(printed'[f]) \in Nat /\ Len(printed[f]) \in Nat
        BY <1>11, <1>17
      <4>4. Len(printed[f]) <= Len(printed'[f])
        BY <4>3 DEF Begins
      <4>5. dir'[f].size <= Len(printed'[f])
        BY <4>2, <4>3, <4>4
      <4>6. QED BY <4>2, <4>3, <4>5
    <3>2. QED BY <1>1, <1>2, <1>3, <1>6, <1>13, <3>1, PrintKept
  <2>12. OnCard(u, o, i)'
    <3>1. SUFFICES ASSUME NEW f \in Named, NEW m \in Nat, NEW x \in u,
                          m < Sure(f)', o[x] = f, i[x] = ClusterOf(m)
                   PROVE  data'[<<x, SectorOf(m)>>][CellOf(m)] = printed'[f][m + 1]
      BY <1>12 DEF OnCard
    <3>2. /\ DirSynced[f].size \in Nat /\ DirSynced[f].size <= Len(printed[f])
          /\ Len(promised[f]) \in Nat /\ Len(promised[f]) <= DirSynced[f].size /\ f \in Names
      <4>1. DirSynced[f].size \in Nat
        BY <1>2, <1>17, Synced DEF Entries
      <4>2. QED BY <1>1, <1>2, <1>17, <4>1, Synced, Promised
    <3>3. Sure(f)' = IF f \in spoilt' THEN Len(promised[f]) ELSE DirSynced[f].size
      BY <1>3, <2>2 DEF Sure
    <3>4. m < (IF f \in spoilt THEN Len(promised[f]) ELSE DirSynced[f].size)
      BY <1>10, <3>1, <3>2, <3>3
    <3>5. m < Len(printed[f]) /\ printed'[f][m + 1] = printed[f][m + 1]
      <4>1. m < Len(printed[f])
        BY <1>17, <3>2, <3>4
      <4>2. QED BY <1>11, <3>2, <4>1
    <3>6. card[<<x, SectorOf(m)>>][CellOf(m)] = printed'[f][m + 1]
      BY <2>3, <3>1, <3>4, <3>5
    <3>7. <<x, SectorOf(m)>> \in Sectors
      BY <1>13, Grid DEF Grown, Sectors
    <3>8. CASE <<x, SectorOf(m)>> # sector
      BY <2>7, <3>6, <3>7, <3>8
    <3>9. CASE <<x, SectorOf(m)>> = sector
      <4>1. x = c /\ SectorOf(m) = SectorOf(file.pos) /\ f = n
        BY <1>13, <2>1, <3>1, <3>9 DEF Grown
      <4>2. m < Bound'
        BY <1>3, <1>17, <1>18, <3>1, <3>2, <3>3, <3>5, <4>1
      <4>3. cells[CellOf(m)] = printed'[f][m + 1]
        BY <2>8, <3>1, <4>1, <4>2
      <4>4. QED BY <2>7, <3>6, <3>9, <4>3
    <3>10. QED BY <3>8, <3>9
  <2>13. BesideCache(u, o, i)'
    <3>1. SUFFICES ASSUME n \notin spoilt', NEW m \in Nat, NEW x \in u,
                          m < file'.pos, o[x] = n, i[x] = ClusterOf(m), <<x, SectorOf(m)>> # sector
                   PROVE  data'[<<x, SectorOf(m)>>][CellOf(m)] = printed'[n][m + 1]
      BY <1>9, <2>5 DEF BesideCache
    <3>2. more = 1 /\ n \notin spoilt /\ m < Bound'
      BY <1>8, <1>9, <1>10, <1>18, <3>1
    <3>3. m < file.pos
      BY <1>19, <2>1, <3>1, <3>2
    <3>4. card[<<x, SectorOf(m)>>][CellOf(m)] = printed[n][m + 1]
      BY <2>4, <3>1, <3>2, <3>3
    <3>5. printed'[n][m + 1] = printed[n][m + 1]
      BY <1>11, <1>17, <3>3
    <3>6. <<x, SectorOf(m)>> \in Sectors
      BY <1>13, Grid DEF Grown, Sectors
    <3>7. QED BY <2>7, <3>1, <3>4, <3>5, <3>6
  <2>14. InCache(u, o, i)'
    <3>1. c \in u /\ o[c] = n /\ sector[1] = c /\ sector[2] = SectorOf(file.pos)
      BY <1>13, <2>1 DEF Grown
    <3>2. QED BY <1>9, <2>5, <2>7, <2>8, <3>1 DEF InCache
  <2>15. (\E v, w, y : Shape(v, w, y))'
    BY <1>13, <1>15, <2>11, <2>12, <2>13, <2>14 DEF Shape, Grown
  <2>16. QED BY <1>14, <1>16, <2>9, <2>10, <2>15 DEF Inv, Types
<1>21. ASSUME Failed(c), UNCHANGED <<dir, data, cache>>
       PROVE  Inv'
  <2>1. n \in spoilt' /\ printed' = printed /\ file'.pos = file.pos /\ more = 0
    <3>1. n \in spoilt' /\ printed' = printed /\ file'.pos = file.pos
      BY <1>7, <1>21 DEF Failed, Spoil
    <3>2. QED BY <1>3, <1>9, <3>1
  <2>2. CardTypes' /\ CacheTypes'
    BY <1>1, <1>3, <1>14, <1>21 DEF Types, CardTypes, CacheTypes
  <2>3. DirInv'
    <3>1. Entry' = Entry
      BY <1>9, <1>21 DEF Entry
    <3>2. ~file'.dirty => Entry.exists /\ Entry.size = file'.pos /\ Entry.first = file'.first
      BY <1>1, <1>3, <1>9, <2>1 DEF DirInv
    <3>3. CachedDir => CachedDir'
      BY <1>3, <1>9, <1>12, <1>21, <2>1 DEF CachedDir
    <3>4. QED
      BY <1>1, <1>3, <1>9, <1>21, <3>1, <3>2, <3>3 DEF DirInv
  <2>4. KeptFiles(u, o, i)'
    <3>1. \A f \in Named : /\ dir'[f].exists /\ dir'[f].first = dir[f].first
                           /\ Len(promised[f]) <= dir'[f].size /\ dir'[f].size <= Len(printed'[f])
                           /\ Begins(printed[f], printed'[f]) /\ Len(printed'[f]) \in Nat
      BY <1>2, <1>11, <1>17, <1>21, <2>1 DEF Shape, KeptFiles, KeptFile
    <3>2. QED BY <1>1, <1>2, <1>3, <1>6, <1>13, <3>1, PrintKept
  <2>5. OnCard(u, o, i)'
    <3>1. SUFFICES ASSUME NEW f \in Named, NEW m \in Nat, NEW x \in u,
                          m < Sure(f)', o[x] = f, i[x] = ClusterOf(m)
                   PROVE  data[<<x, SectorOf(m)>>][CellOf(m)] = printed[f][m + 1]
      BY <1>12, <1>21, <2>1 DEF OnCard
    <3>2. m < Sure(f)
      BY <1>3, <1>10, <1>17, <1>21, <3>1 DEF Sure
    <3>3. x \in used /\ owner[x] = f /\ index[x] = ClusterOf(m)
      <4>1. CASE f = n
        <5>1. m < file.pos
          BY <1>3, <1>17, <3>2, <4>1
        <5>2. QED BY <1>1, <1>3, <1>6, <1>13, <3>1, <4>1, <5>1, OldPlace
      <4>2. CASE f # n
        BY <1>13, <3>1, <4>2 DEF Grown
      <4>3. QED BY <4>1, <4>2
    <3>4. QED BY <1>2, <3>2, <3>3 DEF Shape, OnCard
  <2>6. InCache(u, o, i)'
    <3>1. SUFFICES ASSUME cache.sector \in Sectors PROVE InCache(u, o, i)'
      BY <1>21 DEF InCache
    <3>2. /\ cache.sector[1] \in u /\ o[cache.sector[1]] = n
          /\ i[cache.sector[1]] = index[cache.sector[1]]
      BY <1>2, <1>13, <3>1 DEF Shape, InCache, Grown
    <3>3. \A m \in Nat : m < Bound' => m < Bound
      BY <1>17, <1>18, <2>1
    <3>4. /\ ~cache.dirty => data[cache.sector] = cache.cells
          /\ \A m \in Nat : m < Bound /\ index[cache.sector[1]] = ClusterOf(m) /\ cache.sector[2] = SectorOf(m) =>
               cache.cells[CellOf(m)] = printed[n][m + 1]
      BY <1>2, <3>1 DEF Shape, InCache
    <3>5. QED BY <1>9, <1>21, <2>1, <3>2, <3>3, <3>4 DEF InCache
  <2>7. BesideCache(u, o, i)'
    BY <1>9, <2>1 DEF BesideCache
  <2>8. (\E v, w, y : Shape(v, w, y))'
    BY <1>13, <1>15, <2>4, <2>5, <2>6, <2>7 DEF Shape, Grown
  <2>9. QED BY <1>14, <1>16, <2>2, <2>3, <2>8 DEF Inv, Types
<1>22. QED
  BY <1>5, <1>20, <1>21

-----------------------------------------------------------------------------
LEMMA StutterInv == Inv /\ UNCHANGED vars => Inv'
<1> SUFFICES ASSUME Inv, UNCHANGED vars PROVE Inv'
  OBVIOUS
<1> USE DEF Inv
<1>1. UNCHANGED <<dir, fat, data, cache, fatRam, file, pc, row, cell, printed, promised, spoilt>>
  BY DEF vars, cardVars, ramVars
<1>2. Types'
  BY <1>1 DEF Types, CardTypes, CacheTypes, FileTypes, PlaceTypes, HistoryTypes
<1>3. FatInv' /\ DirInv'
  BY <1>1 DEF FatInv, DirInv, CachedDir, Entry, Named
<1>4. PICK used, owner, index : Shape(used, owner, index)
  OBVIOUS
<1>5. /\ Linked(used, owner, index)' /\ KeptFiles(used, owner, index)'
  BY <1>1, <1>4 DEF Shape, Linked, Owns, Named, KeptFiles, KeptFile
<1>6. Extended(used, owner, index)'
  BY <1>1, <1>4 DEF Shape, Extended, OpenFile, Turn, NeedsCluster
<1>7. /\ OnCard(used, owner, index)' /\ InCache(used, owner, index)' /\ BesideCache(used, owner, index)'
  <2>1. OnCard(used, owner, index)'
    BY <1>1, <1>4, SMTT(30) DEF Shape, OnCard, Sure, Named
  <2>2. InCache(used, owner, index)'
    BY <1>1, <1>4, SMTT(30) DEF Shape, InCache, Sure, Bound, Named
  <2>3. BesideCache(used, owner, index)'
    BY <1>1, <1>4, SMTT(30) DEF Shape, BesideCache, Sure, Bound, Named
  <2>4. QED BY <2>1, <2>2, <2>3
<1>8. (\E u, o, i : Shape(u, o, i))'
  BY <1>4, <1>5, <1>6, <1>7 DEF Shape
<1>9. QED
  BY <1>2, <1>3, <1>8

LEMMA NextInv == Inv /\ [Next]_vars => Inv'
BY StutterInv, OpenInv, PrintFieldInv, PrintNoSpaceInv, FlushEntryInv, SyncDataInv, SyncFatInv, RestartInv DEF Next

LEMMA InvHolds == Spec => []Inv
BY InitInv, NextInv, PTL DEF Spec

-----------------------------------------------------------------------------
(* What a reader gets *)

LEMMA MaxOfPlaces ==
  ASSUME NEW n \in Nat, NEW S \in SUBSET (0..n), S # {}
  PROVE  Max(S) \in S /\ \A x \in S : Max(S) >= x
<1> DEFINE above == {m \in Nat : \A x \in S : x <= m}
<1>1. n \in above
  OBVIOUS
<1>2. PICK m \in above : \A u \in above : ~(u < m)
  <2>1. IsWellFoundedOn(OpToRel(<, Nat), Nat) /\ above \subseteq Nat
    BY NatLessThanWellFounded
  <2>2. PICK m \in above : \A u \in above : ~(<<u, m>> \in OpToRel(<, Nat))
    BY <1>1, <2>1, WFMin, Zenon
  <2>3. QED BY <2>2 DEF OpToRel
<1>3. m \in S
  <2>1. SUFFICES ASSUME m \notin S PROVE FALSE
    OBVIOUS
  <2>2. PICK x \in S : TRUE
    OBVIOUS
  <2>3. m # 0
    BY <2>1, <2>2
  <2>4. m - 1 \in Nat /\ m - 1 < m
    BY <2>3
  <2>5. \A y \in S : y <= m - 1
    BY <2>1, <2>4
  <2>6. QED BY <1>2, <2>4, <2>5
<1>4. QED
  BY <1>3 DEF Max

\* The chain of a file satisfies the equation that defines it, since some function does.
Linking(f, g) ==
  [k \in Nat |-> IF k = 0 THEN dir[f].first
                 ELSE IF g[k - 1] \in Clusters /\ fat[g[k - 1]] \in Clusters THEN fat[g[k - 1]] ELSE 0]

LEMMA ChainLinks ==
  ASSUME NEW f, NEW w, w = Linking(f, w)
  PROVE  Chain(f) = w
<1> PICK chain : chain = Chain(f)
  OBVIOUS
<1>1. chain = CHOOSE g : g = Linking(f, g)
  BY DEF Chain, Linking
<1>2. chain = Linking(f, chain)
  BY <1>1
<1>3. \A g, k : g = Linking(f, g) /\ k \in Nat =>
        g[k] = IF k = 0 THEN dir[f].first
               ELSE IF g[k - 1] \in Clusters /\ fat[g[k - 1]] \in Clusters THEN fat[g[k - 1]] ELSE 0
  <2>1. SUFFICES ASSUME NEW g, NEW k \in Nat, g = Linking(f, g)
                 PROVE  g[k] = IF k = 0 THEN dir[f].first
                               ELSE IF g[k - 1] \in Clusters /\ fat[g[k - 1]] \in Clusters THEN fat[g[k - 1]] ELSE 0
    OBVIOUS
  <2>2. g[k] = Linking(f, g)[k]
    BY <2>1
  <2>3. QED BY <2>2 DEF Linking
<1> DEFINE apart == {k \in Nat : chain[k] # w[k]}
<1>4. apart = {}
  <2>1. SUFFICES ASSUME apart # {} PROVE FALSE
    OBVIOUS
  <2>2. PICK k \in apart : \A j \in apart : ~(j < k)
    <3>1. IsWellFoundedOn(OpToRel(<, Nat), Nat) /\ apart \subseteq Nat
      BY NatLessThanWellFounded
    <3>2. PICK k \in apart : \A j \in apart : ~(<<j, k>> \in OpToRel(<, Nat))
      BY <2>1, <3>1, WFMin, Zenon
    <3>3. QED BY <3>2 DEF OpToRel
  <2>3. k \in Nat /\ chain[k] # w[k] /\ k # 0
    BY <1>2, <1>3, <2>2
  <2>4. k - 1 \in Nat /\ chain[k - 1] = w[k - 1]
    BY <2>2, <2>3
  <2>5. QED BY <1>2, <1>3, <2>3, <2>4
<1>5. DOMAIN chain = Nat /\ DOMAIN w = Nat /\ chain = [k \in Nat |-> chain[k]] /\ w = [k \in Nat |-> w[k]]
  BY <1>2 DEF Linking
<1>6. QED
  BY <1>4, <1>5

\* The chain of a file with a promise: its clusters in their order, as far as they are
\* linked on the card.
LEMMA ChainOf ==
  ASSUME Types, FatInv, NEW used, NEW owner, NEW index, Shape(used, owner, index), NEW f \in Named
  PROVE  /\ \A k \in Nat : Chain(f)[k] # 0 =>
              Chain(f)[k] \in used /\ owner[Chain(f)[k]] = f /\ index[Chain(f)[k]] = k
         /\ \A m \in Nat : m < Len(promised[f]) => Chain(f)[ClusterOf(m)] # 0
<1> DEFINE At(k) == {c \in used : owner[c] = f /\ index[c] = k /\ fat[c] # Free}
           Reached(k) == \A j \in 0..k : At(j) # {}
           w == [k \in Nat |-> IF Reached(k) THEN CHOOSE c \in At(k) : TRUE ELSE 0]
<1>1. Linked(used, owner, index) /\ KeptFile(f, used, owner, index) /\ used \subseteq Clusters
  BY DEF Shape, KeptFiles
<1>2. f \in Names /\ Len(promised[f]) \in Nat /\ Len(promised[f]) > 0
  BY Promised
<1>3. ASSUME NEW k, NEW c \in At(k), NEW d \in At(k) PROVE c = d
  BY <1>1, <1>3 DEF Linked
<1>4. \A k \in Nat : \A c \in At(k) : Reached(k) => w[k] = c
  BY <1>3
<1>5. \A k \in Nat : ~Reached(k) => w[k] = 0
  OBVIOUS
<1>6. \A k \in Nat : Reached(k) => w[k] \in At(k)
  <2>1. SUFFICES ASSUME NEW k \in Nat, Reached(k) PROVE w[k] \in At(k)
    OBVIOUS
  <2>2. k \in 0..k
    OBVIOUS
  <2>3. At(k) # {}
    BY <2>1, <2>2
  <2>4. QED BY <2>1, <2>3
<1>7. \A k \in Nat : k # 0 => (Reached(k) <=> Reached(k - 1) /\ At(k) # {})
  <2>1. SUFFICES ASSUME NEW k \in Nat, k # 0 PROVE Reached(k) <=> Reached(k - 1) /\ At(k) # {}
    OBVIOUS
  <2>2. \A j : j \in 0..k <=> j \in 0..(k - 1) \/ j = k
    BY <2>1
  <2> HIDE DEF At
  <2>3. QED BY <2>2
<1>8. \A j \in Nat : (\E m \in Nat : m < Len(promised[f]) /\ ClusterOf(m) = j) => At(j) # {}
  BY <1>1 DEF KeptFile
<1>9. Reached(0) /\ w[0] = dir[f].first
  <2>1. At(0) # {}
    BY <1>2, <1>8, FirstPlace
  <2>2. \A j \in 0..0 : j = 0
    OBVIOUS
  <2>3. Reached(0)
    BY <2>1, <2>2
  <2>4. w[0] \in At(0)
    BY <1>6, <2>3
  <2>5. w[0] = dir[f].first
    BY <1>1, <2>4 DEF KeptFile, Linked
  <2>6. QED BY <2>3, <2>5
<1>10. ASSUME NEW k \in Nat, k # 0
       PROVE  w[k] = IF w[k - 1] \in Clusters /\ fat[w[k - 1]] \in Clusters THEN fat[w[k - 1]] ELSE 0
  <2>1. k - 1 \in Nat
    BY <1>10
  <2>2. CASE ~Reached(k - 1)
    <3>1. ~Reached(k)
      BY <1>7, <1>10, <2>2
    <3>2. w[k] = 0 /\ w[k - 1] = 0
      BY <1>5, <2>1, <2>2, <3>1
    <3>3. QED BY <3>2, Numbers
  <2>3. CASE Reached(k - 1)
    <3> PICK c : c = w[k - 1]
      OBVIOUS
    <3>1. c \in At(k - 1) /\ c \in used /\ c \in Clusters /\ owner[c] = f /\ index[c] = k - 1 /\ fat[c] # Free
      BY <1>1, <1>6, <2>1, <2>3
    <3>2. CASE fat[c] \in Clusters
      <4>1. fatRam[c] = fat[c] /\ fat[fat[c]] # Free
        BY <3>1, <3>2 DEF FatInv
      <4>2. fat[c] \in used /\ owner[fat[c]] = f /\ index[fat[c]] = (k - 1) + 1
        BY <1>1, <3>1, <3>2, <4>1 DEF Linked
      <4>3. fat[c] \in At(k)
        <5>1. index[fat[c]] = k
          BY <1>10, <4>2
        <5>2. fat[c] \in used /\ owner[fat[c]] = f
          BY <4>2
        <5>3. QED BY <3>2, <4>1, <5>1, <5>2, SMTT(30)
      <4>4. Reached(k)
        BY <1>7, <1>10, <2>3, <4>3
      <4>5. w[k] = fat[c]
        BY <1>4, <4>3, <4>4
      <4>6. QED BY <3>1, <3>2, <4>5
    <3>3. CASE fat[c] \notin Clusters
      <4>1. At(k) = {}
        <5>1. SUFFICES ASSUME NEW d \in At(k) PROVE FALSE
          OBVIOUS
        <5>2. d \in used /\ owner[d] = owner[c] /\ index[d] = index[c] + 1 /\ fat[d] # Free
          BY <3>1
        <5>3. fat[c] = d
          BY <1>1, <3>1, <5>2 DEF Linked
        <5>4. QED BY <1>1, <3>3, <5>2, <5>3
      <4>2. ~Reached(k)
        BY <1>7, <1>10, <4>1
      <4>3. w[k] = 0
        BY <1>5, <4>2
      <4>4. QED BY <3>3, <4>3
    <3>4. QED BY <3>2, <3>3
  <2>4. QED BY <2>2, <2>3
<1>11. Chain(f) = w
  <2> PICK chain : chain = w
    OBVIOUS
  <2>1. chain = [k \in Nat |-> chain[k]]
    OBVIOUS
  <2>2. \A k \in Nat : chain[k] = IF k = 0 THEN dir[f].first
                       ELSE IF chain[k - 1] \in Clusters /\ fat[chain[k - 1]] \in Clusters
                              THEN fat[chain[k - 1]] ELSE 0
    <3>1. chain[0] = dir[f].first
      BY <1>9
    <3>2. ASSUME NEW k \in Nat, k # 0
          PROVE  chain[k] = IF chain[k - 1] \in Clusters /\ fat[chain[k - 1]] \in Clusters
                              THEN fat[chain[k - 1]] ELSE 0
      <4> HIDE DEF w
      <4>1. QED BY <1>10, <3>2
    <3> HIDE DEF At, Reached, w
    <3>3. SUFFICES ASSUME NEW k \in Nat
                   PROVE  chain[k] = IF k = 0 THEN dir[f].first
                          ELSE IF chain[k - 1] \in Clusters /\ fat[chain[k - 1]] \in Clusters
                                 THEN fat[chain[k - 1]] ELSE 0
      OBVIOUS
    <3>4. CASE k = 0
      BY <3>1, <3>4
    <3>5. CASE k # 0
      BY <3>2, <3>5
    <3>6. QED BY <3>4, <3>5
  <2>3. chain = Linking(f, chain)
    <3> PICK links : links = Linking(f, chain)
      OBVIOUS
    <3>1. links = [k \in Nat |-> links[k]] /\ \A k \in Nat : links[k] = chain[k]
      BY <2>2 DEF Linking
    <3>2. links = chain
      BY <2>1, <3>1
    <3>3. QED BY <3>2
  <2>4. QED BY <2>3, ChainLinks
<1>12. \A k \in Nat : w[k] # 0 => w[k] \in used /\ owner[w[k]] = f /\ index[w[k]] = k
  BY <1>5, <1>6
<1>13. ASSUME NEW m \in Nat, m < Len(promised[f]) PROVE w[ClusterOf(m)] # 0
  <2>1. ClusterOf(m) \in Nat /\ m % ClusterCells \in 0..(ClusterCells - 1)
        /\ m = ClusterCells * ClusterOf(m) + (m % ClusterCells)
    BY Grid
  <2>2. ASSUME NEW j \in 0..ClusterOf(m) PROVE At(j) # {}
    <3>1. CASE j = ClusterOf(m)
      BY <1>8, <1>13, <2>1, <3>1
    <3>2. CASE j < ClusterOf(m)
      <4> PICK p : p = ClusterCells * j
        OBVIOUS
      <4>1. j \in Nat /\ p \in Nat /\ p = ClusterCells * j + 0 /\ 0 \in 0..(ClusterCells - 1)
        BY Sizes
      <4>2. ClusterOf(p) = j
        BY <4>1, Sizes, DividedOnce DEF ClusterOf
      <4>3. p + ClusterCells <= ClusterCells * ClusterOf(m)
        BY <2>1, <3>2, <4>1, Sizes, Grows
      <4>4. ClusterCells * ClusterOf(m) \in Nat
        BY <2>1, Sizes
      <4>5. p < Len(promised[f])
        BY <1>2, <1>13, <2>1, <4>1, <4>3, <4>4, Sizes
      <4>6. QED BY <1>8, <4>1, <4>2, <4>5
    <3>3. QED BY <2>1, <3>1, <3>2
  <2>3. Reached(ClusterOf(m))
    BY <2>2
  <2>4. w[ClusterOf(m)] \in used
    BY <1>6, <2>1, <2>3
  <2>5. QED BY <1>1, <2>4, Numbers
<1> HIDE DEF w
<1>14. QED
  BY <1>11, <1>12, <1>13

LEMMA ReadBackIs ==
  ASSUME NEW f, dir[f].size \in Nat
  PROVE  /\ Len(ReadBack(f)) \in 0..dir[f].size
         /\ ReadBack(f) = [k \in 1..Len(ReadBack(f)) |->
                             data[<<Chain(f)[ClusterOf(k - 1)], SectorOf(k - 1)>>][CellOf(k - 1)]]
         /\ \A m \in 0..(Len(ReadBack(f)) - 1) : Chain(f)[ClusterOf(m)] # 0
         /\ \A n \in 0..dir[f].size :
              (\A m \in 0..(n - 1) : Chain(f)[ClusterOf(m)] # 0) => n <= Len(ReadBack(f))
<1> DEFINE there == {n \in 0..dir[f].size : \A m \in 0..(n - 1) : Chain(f)[ClusterOf(m)] # 0}
<1>1. 0 \in there
  OBVIOUS
<1>2. Max(there) \in there /\ \A n \in there : Max(there) >= n
  BY <1>1, MaxOfPlaces
<1>3. ReadBack(f) = [k \in 1..Max(there) |->
                       data[<<Chain(f)[ClusterOf(k - 1)], SectorOf(k - 1)>>][CellOf(k - 1)]]
  BY DEF ReadBack, ClusterOf, SectorOf, CellOf
<1> PICK size : size = Max(there)
  OBVIOUS
<1>4. size \in 0..dir[f].size /\ size \in Nat
  BY <1>2
<1>5. Len(ReadBack(f)) = size
  BY <1>3, <1>4
<1>6. /\ \A m \in 0..(size - 1) : Chain(f)[ClusterOf(m)] # 0
      /\ \A n \in 0..dir[f].size : (\A m \in 0..(n - 1) : Chain(f)[ClusterOf(m)] # 0) => n <= size
  <2>1. \A n \in there : n <= size
    BY <1>2
  <2>2. QED BY <1>2, <2>1
<1>7. QED
  BY <1>3, <1>4, <1>5, <1>6

\* Of a file with a promise a reader gets at least what was promised, and what it gets
\* is what was printed, as far as that is sure.
LEMMA Readable ==
  ASSUME Inv, NEW f \in Named
  PROVE  /\ Len(ReadBack(f)) \in Nat /\ Len(promised[f]) <= Len(ReadBack(f))
         /\ Len(ReadBack(f)) <= dir[f].size /\ dir[f].size <= Len(printed[f])
         /\ \A m \in Nat : m < Len(ReadBack(f)) /\ m < Sure(f) => ReadBack(f)[m + 1] = printed[f][m + 1]
<1>1. Types /\ FatInv
  BY DEF Inv
<1>2. PICK used, owner, index : Shape(used, owner, index)
  BY DEF Inv
<1> PICK read : read = ReadBack(f)
  OBVIOUS
<1>3. /\ f \in Names /\ dir[f].size \in Nat /\ Len(promised[f]) \in Nat
      /\ Len(promised[f]) <= dir[f].size /\ dir[f].size <= Len(printed[f])
  <2>1. f \in Names
    BY DEF Named
  <2>2. Len(promised[f]) <= dir[f].size /\ dir[f].size <= Len(printed[f])
    BY <1>2 DEF Shape, KeptFiles, KeptFile
  <2>3. QED BY <1>1, <1>2, <2>1, <2>2, Promised
<1>4. /\ Len(read) \in 0..dir[f].size
      /\ read = [k \in 1..Len(read) |->
                   data[<<Chain(f)[ClusterOf(k - 1)], SectorOf(k - 1)>>][CellOf(k - 1)]]
      /\ \A m \in 0..(Len(read) - 1) : Chain(f)[ClusterOf(m)] # 0
      /\ \A n \in 0..dir[f].size :
           (\A m \in 0..(n - 1) : Chain(f)[ClusterOf(m)] # 0) => n <= Len(read)
  BY <1>3, ReadBackIs
<1>5. /\ \A k \in Nat : Chain(f)[k] # 0 =>
           Chain(f)[k] \in used /\ owner[Chain(f)[k]] = f /\ index[Chain(f)[k]] = k
      /\ \A m \in Nat : m < Len(promised[f]) => Chain(f)[ClusterOf(m)] # 0
  BY <1>1, <1>2, ChainOf
<1>6. Len(promised[f]) <= Len(read)
  <2>1. \A m \in 0..(Len(promised[f]) - 1) : Chain(f)[ClusterOf(m)] # 0
    BY <1>3, <1>5
  <2>2. QED BY <1>3, <1>4, <2>1
<1>7. ASSUME NEW m \in Nat, m < Len(read), m < Sure(f)
      PROVE  read[m + 1] = printed[f][m + 1]
  <2>1. m \in 0..(Len(read) - 1) /\ m + 1 \in 1..Len(read) /\ (m + 1) - 1 = m
    BY <1>3, <1>4, <1>7
  <2>2. read[m + 1] = data[<<Chain(f)[ClusterOf(m)], SectorOf(m)>>][CellOf(m)]
    BY <1>4, <2>1
  <2>3. Chain(f)[ClusterOf(m)] # 0 /\ ClusterOf(m) \in Nat
    BY <1>4, <2>1, Grid
  <2>4. QED BY <1>2, <1>5, <1>7, <2>2, <2>3 DEF Shape, OnCard
<1>8. QED
  BY <1>3, <1>4, <1>6, <1>7

LEMMA PrefixOf ==
  ASSUME NEW s, NEW t, Len(s) \in Nat, Len(t) \in Nat, Begins(s, t)
  PROVE  IsPrefix(s, t)
<1> DEFINE S == {s[k] : k \in 1..Len(s)}
<1>1. \A k \in 1..Len(s) : s[k] \in S /\ t[k] \in S /\ t[k] = s[k]
  BY DEF Begins
<1> HIDE DEF S
<1>2. /\ SubSeq(s, 1, Len(s)) \in Seq(S) /\ SubSeq(t, 1, Len(s)) \in Seq(S)
      /\ Len(SubSeq(s, 1, Len(s))) = Len(s) /\ Len(SubSeq(t, 1, Len(s))) = Len(s)
      /\ \A k \in 1..Len(s) : SubSeq(s, 1, Len(s))[k] = s[k]
      /\ \A k \in 1..Len(s) : SubSeq(t, 1, Len(s))[k] = t[k]
  <2>1. /\ SubSeq(s, 1, Len(s)) \in Seq(S)
        /\ Len(SubSeq(s, 1, Len(s))) = IF 1 <= Len(s) THEN Len(s) - 1 + 1 ELSE 0
        /\ \A k \in 1..(Len(s) - 1 + 1) : SubSeq(s, 1, Len(s))[k] = s[1 + k - 1]
    BY <1>1, SubSeqProperties
  <2>2. /\ SubSeq(t, 1, Len(s)) \in Seq(S)
        /\ Len(SubSeq(t, 1, Len(s))) = IF 1 <= Len(s) THEN Len(s) - 1 + 1 ELSE 0
        /\ \A k \in 1..(Len(s) - 1 + 1) : SubSeq(t, 1, Len(s))[k] = t[1 + k - 1]
    BY <1>1, SubSeqProperties
  <2>3. QED BY <2>1, <2>2
<1>3. SubSeq(s, 1, Len(s)) = SubSeq(t, 1, Len(s))
  BY <1>1, <1>2, SeqEqual
<1>4. QED
  BY <1>3 DEF IsPrefix, Begins

\* Every file, with a promise or without.
Shown(f) ==
  /\ Len(ReadBack(f)) \in Nat /\ Len(ReadBack(f)) <= dir[f].size
  /\ Len(promised[f]) \in Nat /\ Len(promised[f]) <= Len(ReadBack(f))
  /\ \A n \in 1..Len(promised[f]) : ReadBack(f)[n] = promised[f][n]

LEMMA PromiseReadable ==
  ASSUME Inv, NEW f \in Names
  PROVE  Shown(f)
<1>1. Types
  BY DEF Inv
<1>2. PICK used, owner, index : Shape(used, owner, index)
  BY DEF Inv
<1>3. Len(promised[f]) \in Nat /\ dir[f].size \in Nat
  BY <1>1, <1>2, Promised
<1>4. Len(ReadBack(f)) \in Nat /\ Len(ReadBack(f)) <= dir[f].size
  BY <1>3, ReadBackIs
<1>5. CASE f \notin Named
  <2>1. Len(promised[f]) = 0
    BY <1>1, <1>2, <1>5, Promised
  <2>2. QED BY <1>4, <2>1 DEF Shown
<1>6. CASE f \in Named
  <2>1. Len(promised[f]) <= Len(ReadBack(f))
    BY <1>6, Readable
  <2>2. ASSUME NEW n \in 1..Len(promised[f])
        PROVE  ReadBack(f)[n] = promised[f][n]
    <3>1. Begins(promised[f], printed[f]) /\ Len(promised[f]) <= Sure(f) /\ Sure(f) \in Nat
      BY <1>1, <1>2, <1>6, Promised DEF Shape, KeptFiles, KeptFile
    <3>2. promised[f][n] = printed[f][n]
      BY <3>1 DEF Begins
    <3>3. n - 1 \in Nat /\ n - 1 < Len(ReadBack(f)) /\ n - 1 < Sure(f) /\ (n - 1) + 1 = n
      BY <1>3, <1>4, <2>1, <3>1
    <3>4. ReadBack(f)[n] = printed[f][n]
      BY <1>6, <3>3, Readable
    <3>5. QED BY <3>2, <3>4
  <2>3. QED BY <1>3, <1>4, <2>1, <2>2 DEF Shown
<1>7. QED BY <1>5, <1>6

LEMMA ShownNext == Inv' => (\A f \in Names : Shown(f))'
<1>1. Inv => \A f \in Names : Shown(f)
  BY PromiseReadable
<1>2. QED BY <1>1, PTL

\* A promise is never taken back.
LEMMA PromiseGrows ==
  ASSUME Inv, [Next]_vars, NEW f \in Names
  PROVE  Begins(promised[f], promised'[f])
<1>1. Types
  BY DEF Inv
<1>2. PICK used, owner, index : Shape(used, owner, index)
  BY DEF Inv
<1>3. Len(promised[f]) \in Nat
  BY <1>1, <1>2, Promised
<1>4. CASE promised' = promised
  BY <1>3, <1>4 DEF Begins
<1>5. CASE SyncFat /\ promised' # promised
  <2>1. promised' = [promised EXCEPT ![file.name] = printed[file.name]]
    BY <1>5 DEF SyncFat, Promise
  <2>2. CASE f # file.name
    BY <1>1, <1>3, <2>1, <2>2 DEF Begins, Types, HistoryTypes
  <2>3. CASE f = file.name
    <3>1. promised'[f] = printed[f]
      BY <1>1, <2>1, <2>3 DEF Types, HistoryTypes
    <3>2. Begins(promised[f], printed[f])
      <4>1. CASE f \in Named
        BY <1>2, <4>1 DEF Shape, KeptFiles, KeptFile
      <4>2. CASE f \notin Named
        <5>1. Len(promised[f]) = 0 /\ Len(printed[f]) \in Nat
          BY <1>1, <1>2, <4>2, Promised
        <5>2. QED BY <5>1 DEF Begins
      <4>3. QED BY <4>1, <4>2
    <3>3. QED BY <3>1, <3>2
  <2>4. QED BY <2>2, <2>3
<1>6. promised' = promised \/ SyncFat
  BY DEF Next, Open, PrintField, PrintNoSpace, FlushEntry, SyncData, Restart, vars
<1>7. QED BY <1>4, <1>5, <1>6

\* What was promised before a step can be read after it.
LEMMA PromiseKept ==
  ASSUME Inv, Inv', [Next]_vars, NEW f \in Names
  PROVE  /\ Len(promised[f]) \in Nat /\ Len(ReadBack(f)') \in Nat
         /\ Begins(promised[f], ReadBack(f)') /\ Begins(promised'[f], ReadBack(f)')
         /\ Len(promised'[f]) \in Nat
<1> PICK read : read = ReadBack(f)'
  OBVIOUS
<1>1. /\ Len(read) \in Nat /\ Len(promised'[f]) \in Nat /\ Len(promised'[f]) <= Len(read)
      /\ \A n \in 1..Len(promised'[f]) : read[n] = promised'[f][n]
  <2>1. Shown(f)'
    BY ShownNext
  <2>2. QED BY <2>1 DEF Shown
<1>2. Len(promised[f]) \in Nat /\ Begins(promised[f], promised'[f])
  BY PromiseReadable, PromiseGrows DEF Shown
<1>3. Begins(promised'[f], read)
  BY <1>1 DEF Begins
<1>4. Begins(promised[f], read)
  BY <1>1, <1>2 DEF Begins
<1>5. QED BY <1>1, <1>2, <1>3, <1>4

-----------------------------------------------------------------------------
(* The theorems *)

LEMMA InvTypes == Inv => TypeOK
<1> SUFFICES ASSUME Inv PROVE TypeOK
  OBVIOUS
<1>1. Types
  BY DEF Inv
<1>2. PICK used, owner, index : Shape(used, owner, index)
  BY DEF Inv
<1>3. ASSUME NEW f \in Names
      PROVE  Range(printed[f]) \subseteq Cells /\ IsPrefix(promised[f], printed[f])
  <2>1. printed[f] \in Seq(Cells) /\ Len(printed[f]) \in Nat /\ Len(promised[f]) \in Nat
    BY <1>1, <1>2, Promised DEF Types, HistoryTypes
  <2>2. Range(printed[f]) \subseteq Cells
    BY <2>1, ElementOfSeq DEF Range
  <2>3. Begins(promised[f], printed[f])
    <3>1. CASE f \in Named
      BY <1>2, <3>1 DEF Shape, KeptFiles, KeptFile
    <3>2. CASE f \notin Named
      BY <1>1, <1>2, <2>1, <3>2, Promised DEF Begins
    <3>3. QED BY <3>1, <3>2
  <2>4. QED BY <2>1, <2>2, <2>3, PrefixOf
<1>4. QED
  BY <1>1, <1>3 DEF TypeOK, Types, CardTypes, CacheTypes, FileTypes, PlaceTypes, HistoryTypes, Entries

\* The types of all variables, and that a promise is a beginning of what was printed.
THEOREM LogTypes == Spec => []TypeOK
BY InvHolds, InvTypes, PTL

LEMMA InvNoCrossLinks == Inv => NoCrossLinks
<1> SUFFICES ASSUME Inv, NEW f \in Names, NEW g \in Names, f # g, promised[f] # <<>>, promised[g] # <<>>
             PROVE  ClustersOf(f) \cap ClustersOf(g) = {}
  BY DEF NoCrossLinks
<1>1. Types /\ FatInv
  BY DEF Inv
<1>2. PICK used, owner, index : Shape(used, owner, index)
  BY DEF Inv
<1>3. ASSUME NEW h \in Named, NEW c \in ClustersOf(h) PROVE owner[c] = h
  <2>1. PICK k \in 0..Cardinality(Clusters) : c = Chain(h)[k] /\ c # 0
    BY <1>3 DEF ClustersOf
  <2>2. k \in Nat
    OBVIOUS
  <2>3. QED BY <1>1, <1>2, <2>1, <2>2, ChainOf
<1>4. f \in Named /\ g \in Named
  BY DEF Named
<1>5. QED
  BY <1>3, <1>4

\* Files whose header was flushed share no cluster, whichever writes fail and wherever
\* the processor restarts.
THEOREM LogNoCrossLinks == Spec => []NoCrossLinks
BY InvHolds, InvNoCrossLinks, PTL

LEMMA InvNothingInvented == Inv => NothingInvented
<1> SUFFICES ASSUME Inv, NEW f \in Names \ spoilt, promised[f] # <<>>
             PROVE  IsPrefix(ReadBack(f), printed[f])
  BY DEF NothingInvented
<1>1. Types
  BY DEF Inv
<1>2. PICK used, owner, index : Shape(used, owner, index)
  BY DEF Inv
<1>3. f \in Named /\ Sure(f) = dir[f].size
  BY DEF Named, Sure
<1>4. /\ Len(ReadBack(f)) \in Nat /\ Len(ReadBack(f)) <= dir[f].size /\ dir[f].size <= Len(printed[f])
      /\ \A m \in Nat : m < Len(ReadBack(f)) /\ m < dir[f].size => ReadBack(f)[m + 1] = printed[f][m + 1]
  BY <1>3, Readable
<1>5. dir[f].size \in Nat /\ Len(printed[f]) \in Nat
  BY <1>1, <1>2, Promised
<1>6. ASSUME NEW n \in 1..Len(ReadBack(f)) PROVE ReadBack(f)[n] = printed[f][n]
  <2>1. n - 1 \in Nat /\ n - 1 < Len(ReadBack(f)) /\ n - 1 < dir[f].size /\ (n - 1) + 1 = n
    BY <1>4, <1>5
  <2>2. QED BY <1>4, <2>1
<1>7. Begins(ReadBack(f), printed[f])
  BY <1>4, <1>5, <1>6 DEF Begins
<1>8. QED
  BY <1>4, <1>5, <1>7, PrefixOf

\* A reader of a file without a failed write gets a beginning of what was printed to it.
THEOREM LogNothingInvented == Spec => []NothingInvented
BY InvHolds, InvNothingInvented, PTL

LEMMA ReadBackNext ==
  (\A f : dir[f].size \in Nat =>
     ReadBack(f) = [k \in 1..Len(ReadBack(f)) |->
                      data[<<Chain(f)[ClusterOf(k - 1)], SectorOf(k - 1)>>][CellOf(k - 1)]])'
<1>1. \A f : dir[f].size \in Nat =>
        ReadBack(f) = [k \in 1..Len(ReadBack(f)) |->
                         data[<<Chain(f)[ClusterOf(k - 1)], SectorOf(k - 1)>>][CellOf(k - 1)]]
  BY ReadBackIs
<1>2. QED BY <1>1, PTL

LEMMA InitReadable == Init => \A f \in Names : ReadBack(f) = <<>>
<1> SUFFICES ASSUME Init, NEW f \in Names PROVE ReadBack(f) = <<>>
  OBVIOUS
<1>1. dir[f].size = 0
  BY DEF Init, NoEntry
<1>2. /\ Len(ReadBack(f)) \in 0..0
      /\ ReadBack(f) = [k \in 1..Len(ReadBack(f)) |->
                          data[<<Chain(f)[ClusterOf(k - 1)], SectorOf(k - 1)>>][CellOf(k - 1)]]
  BY <1>1, ReadBackIs
<1>3. Len(ReadBack(f)) = 0 /\ 1..0 = {}
  BY <1>2
<1> PICK read : read = ReadBack(f)
  OBVIOUS
<1>4. DOMAIN read = {} /\ read = [k \in {} |-> read[k]]
  BY <1>2, <1>3
<1>5. <<>> = [k \in {} |-> read[k]]
  OBVIOUS
<1>6. QED
  BY <1>4, <1>5

LEMMA SamePrefix == \A s, t : IsPrefix(s, t) => Log!IsPrefix(s, t)
BY DEF IsPrefix, Log!IsPrefix

\* The step of DurableLog: something reaches the card, or a flush returns.
LEMMA StepImplemented == Inv /\ Inv' /\ [Next]_vars => Log!CardChanges \/ \E f \in Names : Log!Flushed(f)
<1> SUFFICES ASSUME Inv, Inv', [Next]_vars PROVE Log!CardChanges \/ \E f \in Names : Log!Flushed(f)
  OBVIOUS
<1> PICK n : n = file.name
  OBVIOUS
<1> DEFINE readable == [f \in Names |-> ReadBack(f)]
<1>0. \A f \in Names : readable'[f] = ReadBack(f)'
  OBVIOUS
<1>1. Types /\ DirInv
  BY DEF Inv
<1>2. PICK used, owner, index : Shape(used, owner, index)
  BY DEF Inv
<1>3. Log!Kept
  <2>1. SUFFICES ASSUME NEW f \in Names PROVE IsPrefix(promised'[f], ReadBack(f)')
    BY <1>0, SamePrefix DEF Log!Kept
  <2>2. /\ Len(ReadBack(f)') \in Nat /\ Begins(promised'[f], ReadBack(f)')
        /\ Len(promised'[f]) \in Nat
    BY PromiseKept
  <2>3. QED BY <2>2, PrefixOf
<1>4. CASE promised' = promised
  BY <1>3, <1>4 DEF Log!CardChanges
<1>5. CASE SyncFat /\ promised' # promised
  <2>1. /\ pc = "sync_fat" /\ promised' = [promised EXCEPT ![n] = printed[n]]
        /\ UNCHANGED <<dir, printed>>
    BY <1>5 DEF SyncFat, Promise
  <2>2. file.open /\ n \in Names /\ ~cache.dirty /\ ~file.dirty
    BY <1>1, <2>1 DEF DirInv, Types, FileTypes
  <2>3. dir[n].size = file.pos /\ file.pos = Len(printed[n])
    BY <1>1, <1>2, <2>2, Promised DEF DirInv, CachedDir, Entry
  <2>4. promised'[n] = printed[n] /\ printed[n] \in Seq(Cells) /\ Len(printed[n]) \in Nat
    BY <1>1, <2>1, <2>2 DEF Types, HistoryTypes
  <2> PICK read : read = ReadBack(n)'
    OBVIOUS
  <2>5. /\ Len(read) \in Nat /\ Len(read) <= Len(printed[n]) /\ Len(printed[n]) <= Len(read)
        /\ \A k \in 1..Len(printed[n]) : read[k] = printed[n][k]
    <3>1. Shown(n)'
      BY <2>2, ShownNext
    <3>2. /\ Len(read) \in Nat /\ Len(read) <= dir'[n].size /\ Len(promised'[n]) <= Len(read)
          /\ \A k \in 1..Len(promised'[n]) : read[k] = promised'[n][k]
      BY <3>1 DEF Shown
    <3>3. QED BY <2>1, <2>3, <2>4, <3>2
  <2>6. read = printed[n]
    <3>1. Len(read) = Len(printed[n])
      BY <2>4, <2>5
    <3>2. PICK m \in Nat : m = Len(read)
      BY <2>5
    <3>3. DOMAIN read = 1..m /\ read = [k \in 1..m |-> read[k]]
      <4>1. dir'[n].size \in Nat
        BY <2>1, <2>3, <2>4
      <4>2. (dir[n].size \in Nat =>
               ReadBack(n) = [k \in 1..Len(ReadBack(n)) |->
                                data[<<Chain(n)[ClusterOf(k - 1)], SectorOf(k - 1)>>][CellOf(k - 1)]])'
        BY ReadBackNext, ZenonT(60)
      <4>3. QED BY <3>2, <4>1, <4>2
    <3>4. DOMAIN printed[n] = 1..m /\ printed[n] = [k \in 1..m |-> printed[n][k]]
      BY <2>4, <3>1, <3>2
    <3>5. \A k \in 1..m : read[k] = printed[n][k]
      BY <2>5, <3>1, <3>2
    <3> PICK what : what = printed[n]
      OBVIOUS
    <3>6. what = [k \in 1..m |-> what[k]] /\ \A k \in 1..m : read[k] = what[k]
      BY <3>4, <3>5
    <3>7. read = what
      BY <3>3, <3>6
    <3>8. QED BY <3>7
  <2>7. IsPrefix(promised[n], read)
    <3>1. Len(promised[n]) \in Nat /\ Len(read) \in Nat /\ Begins(promised[n], read)
      BY <2>2, PromiseKept
    <3>2. QED BY <3>1, PrefixOf
  <2>8. readable'[n] = read
    BY <2>2
  <2>9. promised' = [promised EXCEPT ![n] = readable'[n]]
    BY <2>1, <2>6, <2>8
  <2>10. Log!Flushed(n)
    <3>1. Log!IsPrefix(promised[n], readable'[n])
      BY <2>7, <2>8, SamePrefix
    <3>2. QED BY <1>3, <2>9, <3>1 DEF Log!Flushed
  <2>11. QED BY <2>2, <2>10
<1>6. promised' = promised \/ SyncFat
  BY DEF Next, Open, PrintField, PrintNoSpace, FlushEntry, SyncData, Restart, vars
<1>7. QED BY <1>4, <1>5, <1>6

\* The data file keeps the promise of DurableLog.
THEOREM LogImplemented == Spec => ImplementsDurableLog
<1>1. Init => Log!Init
  BY InitReadable DEF Init, Log!Init
<1>2. Inv /\ Inv' /\ [Next]_vars => [Log!Next]_Log!vars
  BY StepImplemented DEF Log!Next
<1>3. QED
  BY <1>1, <1>2, InvHolds, PTL DEF Spec, ImplementsDurableLog, Log!Spec
=============================================================================
