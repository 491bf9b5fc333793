SPECIFICATION Spec
CONSTANTS
  packA = packA
  Packs <- OnePack
  Jobs <- TwoJobs
  MaxChanges = 1
  Submitted <- CISubmitted
  Listings <- CIListings
  PipeSize = 1
  ReadSize = 2
  Cap = 2
  MaxOutput = 3
INVARIANTS
  PassIsEarned
  GroupEndsWithItsRun
  TailMissesLessThanARead
  CatalogIsSound
PROPERTIES
  ChangeBlocksThePack
  CIEnds
CHECK_DEADLOCK FALSE
