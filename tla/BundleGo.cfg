\* The Go source: a mutex, nanosecond mtimes, writers of both kinds.
SPECIFICATION FairSpec
CONSTANTS
  Threads = {t1, t2}
  Nobody = Nobody
  Locked = TRUE
  MaxVersion = 3
  SizeOf <- SameSize
  Coarse = FALSE
  InPlace = TRUE
INVARIANTS
  TypeOK
  HitIsCurrent
  ReturnsFresh
PROPERTIES
  KeepsPromise
  EventuallyCurrent
  GetReturns
