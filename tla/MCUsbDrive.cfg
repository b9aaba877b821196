SPECIFICATION FairSpec
CONSTANTS
  DirSectors = 2
  MaxChunks = 2
  PrintsYield = TRUE
INVARIANTS
  TypeOK
  ListingFresh
PROPERTIES
  SearchSeesHostFiles
  LoggerOwnsCard
  SessionEnds
