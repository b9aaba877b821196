SPECIFICATION Spec
CONSTANTS
  Names = {0, 1}
  LastCluster = 4
  SectorsPerCluster = 2
  SectorCells = 2
  RowCells = 3
  MaxRows = 2
  WriteFaults = TRUE
PROPERTY SyncedIsReadable
