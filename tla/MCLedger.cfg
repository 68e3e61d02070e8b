SPECIFICATION FairSpec
CONSTANTS
  Threads = {t1, t2, t3}
  Entries = {e1, e2}
  Faults = TRUE
  MaxCopies = 1
INVARIANTS TypeOK OneInside FreshWrite
PROPERTIES Promise SemaphoreReturns
