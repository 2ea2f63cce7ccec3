\* The Python source with two threads and a key file replaced by rename.
SPECIFICATION FairSpec
CONSTANTS
  Threads = {t1, t2}
  Nobody = Nobody
  Locked = FALSE
  MaxVersion = 2
  SizeOf <- SameSize
  Coarse = FALSE
  InPlace = FALSE
PROPERTIES
  EventuallyCurrent
