------------------------------- MODULE SdLog -------------------------------
(***************************************************************************)
(* The data file from sd_setup to sd_recordData, down to the sectors that  *)
(* the FAT library writes: prints go to a cache of one sector, clusters    *)
(* are linked in a cache of the FAT, and flush writes data, directory      *)
(* entry and FAT, in this order.  The processor may restart between any    *)
(* two writes and starts a new file then.                                  *)
(*                                                                         *)
(* A cell stands for one printed field: the piece of a sector that one     *)
(* print fills.  The header is the first row.  The root directory and the  *)
(* FAT take one sector each; the second FAT, timestamps and the volume of  *)
(* exFAT are left out, and so are failed reads.                            *)
(***************************************************************************)
EXTENDS Naturals, SequencesExt

CONSTANTS
  Names,           \* the file names of one day, by number
  LastCluster,     \* number of the last cluster of the card
  SectorsPerCluster,
  SectorCells,     \* cells of a sector
  RowCells,        \* fields of a row
  MaxRows,         \* bound on the rows of one run of the program
  WriteFaults      \* a write of a sector may fail

ASSUME LogAssumption ==
  /\ Names \subseteq Nat /\ LastCluster \in Nat
  /\ {SectorsPerCluster, SectorCells, RowCells, MaxRows} \subseteq Nat \ {0}
  /\ WriteFaults \in BOOLEAN

VARIABLES
  dir, fat, data,   \* the card: entries by name, FAT, cells of every data sector
  cache,            \* FsCache: which sector, dirty or not, its cells or its entries
  fatRam,           \* the cached FAT sector
  file,             \* the FsFile of the program
  pc, row, cell,    \* the place in the program: the field it prints next
  printed,          \* history: the cells that print accepted, by file
  promised,         \* history: what was printed before the last flush that returned;
                    \* it stops growing when a write has failed
  spoilt            \* history: the files of which a write has failed

cardVars == <<dir, fat, data>>
ramVars  == <<cache, fatRam, file>>
vars == <<cardVars, ramVars, pc, row, cell, printed, promised, spoilt>>

ClusterCells == SectorsPerCluster * SectorCells
Slots    == 1..SectorCells
Clusters == 2..LastCluster
Sectors  == Clusters \X (0..(SectorsPerCluster - 1))

\* Contents of the FAT besides the number of the next cluster; isEOC: any number
\* beyond the last cluster.
Free == 0
EOC  == LastCluster + 1

DirSector == <<0, 0>>
NoSector  == <<0, 1>>
Junk      == <<0, 0, 0>>   \* what was in a sector or a buffer before
Empty     == [s \in Slots |-> Junk]

NoEntry == [exists |-> FALSE, size |-> 0, first |-> 0]
NoCache == [sector |-> NoSector, dirty |-> FALSE, cells |-> Empty, entries |-> <<>>]
NoFile  == [open |-> FALSE, name |-> 0, first |-> 0, cur |-> 0, pos |-> 0, dirty |-> FALSE]

Init == /\ dir = [f \in Names |-> NoEntry]
        /\ fat = [c \in Clusters |-> Free]
        /\ data = [s \in Sectors |-> Empty]
        /\ cache = NoCache /\ fatRam = fat /\ file = NoFile
        /\ pc = "open" /\ row = 1 /\ cell = 1
        /\ printed = [f \in Names |-> <<>>] /\ promised = printed /\ spoilt = {}

Spoil == spoilt' = spoilt \cup {file.name}

\* The outcomes of writing a sector.
WriteOutcomes == IF WriteFaults THEN BOOLEAN ELSE {TRUE}

-----------------------------------------------------------------------------
(* FsCache *)

\* sync: the cached sector is on the card.
DirSynced  == IF cache.dirty /\ cache.sector = DirSector THEN cache.entries ELSE dir
DataSynced == IF cache.dirty /\ cache.sector \in Sectors
                THEN [data EXCEPT ![cache.sector] = cache.cells] ELSE data

\* prepare writes a dirty sector before it takes another.
MustEvict(sector)   == cache.dirty /\ cache.sector # sector
EvictedDir(sector)  == IF MustEvict(sector) THEN DirSynced ELSE dir
EvictedData(sector) == IF MustEvict(sector) THEN DataSynced ELSE data
\* (Mutant: prepare takes the buffer without writing it.)
EvictForgets(sector) == UNCHANGED <<dir, data>>
Evict(sector) == dir' = EvictedDir(sector) /\ data' = EvictedData(sector)

\* The buffer after prepare: a sector begun at its first cell is not read.
\* (Mutant: no sector is read.)
PreparedUnread(sector, slot) == IF cache.sector = sector THEN cache.cells ELSE Empty
Prepared(sector, slot) == IF cache.sector = sector THEN cache.cells
                          ELSE IF slot = 1 THEN Empty ELSE data[sector]

-----------------------------------------------------------------------------
(* sd_setup *)

\* The search for the first name that is not on the card, and SD.open.  The new
\* entry is in the cache.
FreshIn(entries) == {f \in Names : ~entries[f].exists}

Open ==
  /\ pc = "open" /\ FreshIn(dir) # {}
  /\ \E f \in FreshIn(dir) :
       /\ \A g \in FreshIn(dir) : f <= g
       /\ cache' = [sector |-> DirSector, dirty |-> TRUE, cells |-> Empty,
                    entries |-> [dir EXCEPT ![f] = [NoEntry EXCEPT !.exists = TRUE]]]
       /\ file' = [NoFile EXCEPT !.open = TRUE, !.name = f]
       /\ printed' = [printed EXCEPT ![f] = <<>>] /\ spoilt' = spoilt \ {f}
  /\ pc' = "print" /\ row' = 1 /\ cell' = 1
  /\ UNCHANGED <<cardVars, fatRam, promised>>

-----------------------------------------------------------------------------
(* FatFile::write, for one field *)

NeedsCluster == file.pos % ClusterCells = 0
FreeClusters == {c \in Clusters : fatRam[c] = Free}
\* allocateCluster takes the next free one; no cluster is ever given back.
NextFree     == {c \in FreeClusters : \A d \in FreeClusters : c <= d}
SectorAt(c)  == <<c, (file.pos % ClusterCells) \div SectorCells>>
Slot         == (file.pos % SectorCells) + 1

\* The file at cluster c, which addCluster has put at the end of its chain.
FileAt(c) == IF NeedsCluster
               THEN [file EXCEPT !.cur = c, !.dirty = TRUE,
                                 !.first = IF file.cur = 0 THEN c ELSE @]
               ELSE file
FatAt(c) == [k \in Clusters |-> IF ~NeedsCluster THEN fatRam[k]
                                ELSE IF k = c THEN EOC
                                ELSE IF k = file.cur THEN c ELSE fatRam[k]]

\* The next field, or the flush after the last one.
\* (Mutant: one field too many.)
NextCellLate == IF cell <= RowCells THEN cell' = cell + 1 /\ UNCHANGED pc
                                    ELSE cell' = 1 /\ pc' = "flush"
NextCell == IF cell < RowCells THEN cell' = cell + 1 /\ UNCHANGED pc
                               ELSE cell' = 1 /\ pc' = "flush"

Value == <<file.name, row, cell>>
Accepted(c) ==
  /\ file' = [FileAt(c) EXCEPT !.pos = @ + 1, !.dirty = TRUE]
  /\ printed' = [printed EXCEPT ![file.name] = Append(@, Value)]
\* write returns 0: the cluster stays taken, the position stays where it was.
Failed(c) == file' = FileAt(c) /\ Spoil /\ UNCHANGED printed

\* Nobody looks at the result of print.
PrintField ==
  /\ pc = "print"
  /\ \E c \in IF NeedsCluster THEN NextFree ELSE {file.cur} :
       LET sector == SectorAt(c)
           cells  == [Prepared(sector, Slot) EXCEPT ![Slot] = Value]
           filled == [sector |-> sector, dirty |-> TRUE, cells |-> cells, entries |-> <<>>]
       IN /\ fatRam' = FatAt(c)
          /\ \/ \* the partly filled sector stays in the cache
                /\ Slot < SectorCells
                /\ Evict(sector)
                /\ cache' = filled
                /\ Accepted(c) /\ UNCHANGED spoilt
             \/ \* a full sector is written
                /\ Slot = SectorCells
                /\ dir' = EvictedDir(sector)
                /\ \E ok \in WriteOutcomes :
                     /\ cache' = [filled EXCEPT !.dirty = ~ok]
                     /\ data' = IF ok THEN [EvictedData(sector) EXCEPT ![sector] = cells]
                                      ELSE EvictedData(sector)
                     /\ IF ok THEN Accepted(c) /\ UNCHANGED spoilt ELSE Failed(c)
             \/ \* the sector in the cache cannot be written
                /\ WriteFaults /\ MustEvict(sector)
                /\ Failed(c)
                /\ UNCHANGED <<dir, data, cache>>
  /\ NextCell
  /\ UNCHANGED <<fat, row, promised>>

\* The card is full: addCluster fails.
PrintNoSpace ==
  /\ pc = "print" /\ NeedsCluster /\ FreeClusters = {}
  /\ NextCell
  /\ UNCHANGED <<cardVars, ramVars, row, printed, promised, spoilt>>

-----------------------------------------------------------------------------
(* FatFile::sync, called by flush *)

EndRow == /\ row' = row + 1
          /\ pc' = IF row < MaxRows THEN "print" ELSE "stop"

\* cacheDirEntry(CACHE_FOR_WRITE) and the new entry; a sector that cannot be
\* written ends the flush.
FlushEntry ==
  /\ pc = "flush"
  /\ \/ /\ file.dirty
        /\ Evict(DirSector)
        /\ cache' = [sector |-> DirSector, dirty |-> TRUE, cells |-> Empty,
                     entries |-> [(IF cache.sector = DirSector THEN cache.entries ELSE dir)
                       EXCEPT ![file.name] =
                         [exists |-> TRUE, size |-> file.pos, first |-> file.first]]]
        /\ file' = [file EXCEPT !.dirty = FALSE]
        /\ pc' = "sync_data" /\ UNCHANGED <<row, spoilt>>
     \/ /\ ~file.dirty
        /\ pc' = "sync_data"
        /\ UNCHANGED <<dir, data, cache, file, row, spoilt>>
     \/ /\ WriteFaults /\ file.dirty /\ MustEvict(DirSector)
        /\ Spoil /\ EndRow
        /\ UNCHANGED <<dir, data, cache, file>>
  /\ UNCHANGED <<fat, fatRam, cell, printed, promised>>

\* m_cache.sync()
SyncData ==
  /\ pc = "sync_data"
  /\ \/ /\ dir' = DirSynced /\ data' = DataSynced
        /\ cache' = [cache EXCEPT !.dirty = FALSE]
        /\ pc' = "sync_fat" /\ UNCHANGED <<row, spoilt>>
     \/ /\ WriteFaults /\ cache.dirty
        /\ Spoil /\ EndRow
        /\ UNCHANGED <<dir, data, cache>>
  /\ UNCHANGED <<fat, fatRam, file, cell, printed, promised>>

\* m_fatCache.sync(); then flush returns.
Promise == promised' = IF file.name \in spoilt THEN promised
                       ELSE [promised EXCEPT ![file.name] = printed[file.name]]
\* (Mutant: the FAT is not written.)
SyncFatForgotten ==
  /\ pc = "sync_fat"
  /\ Promise /\ EndRow
  /\ UNCHANGED <<cardVars, ramVars, cell, printed, spoilt>>
SyncFat ==
  /\ pc = "sync_fat"
  /\ \/ fat' = fatRam /\ Promise /\ UNCHANGED spoilt
     \/ WriteFaults /\ fat # fatRam /\ Spoil /\ UNCHANGED <<fat, promised>>
  /\ EndRow
  /\ UNCHANGED <<dir, data, ramVars, cell, printed>>

-----------------------------------------------------------------------------
\* The processor restarts and mounts the card again.
Restart ==
  /\ cache' = NoCache /\ fatRam' = fat /\ file' = NoFile
  /\ pc' = "open" /\ row' = 1 /\ cell' = 1
  /\ UNCHANGED <<cardVars, printed, promised, spoilt>>

Next == Open \/ PrintField \/ PrintNoSpace \/ FlushEntry \/ SyncData \/ SyncFat \/ Restart

Spec == Init /\ [][Next]_vars

-----------------------------------------------------------------------------
(* What a reader of the card gets *)

\* The clusters of a file in order; 0 beyond the end of the chain.
Chain(f) ==
  LET at[k \in Nat] ==
        IF k = 0 THEN dir[f].first
        ELSE IF at[k - 1] \in Clusters /\ fat[at[k - 1]] \in Clusters THEN fat[at[k - 1]] ELSE 0
  IN at

ReadBack(f) ==
  LET chain == Chain(f)
      At(i) == data[<<chain[i \div ClusterCells], (i % ClusterCells) \div SectorCells>>]
                 [(i % SectorCells) + 1]
      there == {n \in 0..dir[f].size : \A i \in 0..(n - 1) : chain[i \div ClusterCells] # 0}
  IN [i \in 1..Max(there) |-> At(i - 1)]

ClustersOf(f) == {Chain(f)[k] : k \in 0..Cardinality(Clusters)} \ {0}

-----------------------------------------------------------------------------
Cells == (Names \X (1..MaxRows) \X (1..RowCells)) \cup {Junk}

TypeOK ==
  /\ dir \in [Names -> [exists : BOOLEAN, size : Nat, first : Clusters \cup {0}]]
  /\ fat \in [Clusters -> Clusters \cup {Free, EOC}]
  /\ fatRam \in [Clusters -> Clusters \cup {Free, EOC}]
  /\ data \in [Sectors -> [Slots -> Cells]]
  /\ cache.sector \in Sectors \cup {DirSector, NoSector} /\ cache.dirty \in BOOLEAN
  /\ cache.cells \in [Slots -> Cells]
  /\ pc \in {"open", "print", "flush", "sync_data", "sync_fat", "stop"}
  /\ file.open \in BOOLEAN /\ spoilt \subseteq Names /\ file.pos \in Nat /\ file.cur \in Clusters \cup {0}
  /\ row \in 1..(MaxRows + 1) /\ cell \in 1..RowCells
  /\ \A f \in Names : Range(printed[f]) \subseteq Cells /\ IsPrefix(promised[f], printed[f])

\* flush() of sd_recordData and sd_printHeader keeps the promise of DurableLog:
\* rows that were flushed can be read after any number of restarts, whichever
\* writes those interrupted or failed, and no later file takes their name or
\* clusters.
Log == INSTANCE DurableLog WITH readable <- [f \in Names |-> ReadBack(f)]
ImplementsDurableLog == Log!Spec

\* A file whose header was flushed and of which no write has failed shows what the
\* program printed to it, in order and from the beginning: a restart may cut the
\* last row, never mix in anything.
NothingInvented ==
  \A f \in Names \ spoilt : promised[f] # <<>> => IsPrefix(ReadBack(f), printed[f])

\* Files with a flushed header share no cluster.  A restart within the flush of the
\* header itself, between entry and FAT, leaves an entry whose cluster is free and
\* goes to the next file: nothing has been promised of that file yet.
NoCrossLinks ==
  \A f, g \in Names :
    f # g /\ promised[f] # <<>> /\ promised[g] # <<>> => ClustersOf(f) \cap ClustersOf(g) = {}

\* FatFile.h:875: "The sync() call causes all modified data and directory fields to
\* be written to the storage device": what was printed before a sync that returned
\* true can be read.
SyncReturns == pc = "sync_fat" /\ pc' # "open" /\ fat' = fatRam
SyncedIsReadable ==
  [][SyncReturns => IsPrefix(printed[file.name], ReadBack(file.name)')]_vars
=============================================================================
