SPECIFICATION Spec
CONSTANTS
  DirSectors = 1
  MaxChunks = 2
  PrintsYield = FALSE
INVARIANT ListingFresh
