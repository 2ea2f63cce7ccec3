\* The Python source: no lock, an mtime in a float, so that two syncs may seem
\* simultaneous, and documents that differ in size.
SPECIFICATION FairSpec
CONSTANTS
  Threads = {t1, t2}
  Nobody = Nobody
  Locked = FALSE
  MaxVersion = 3
  SizeOf <- DistinctSizes
  Coarse = TRUE
  InPlace = FALSE
INVARIANTS
  HitIsCurrent
  StaleByOverlapOnly
PROPERTIES
  EventuallyCurrent
