\* Three threads and three entries, one of them too long for the address space.
SPECIFICATION FairSpec
CONSTANTS
  t1 = t1  t2 = t2  t3 = t3
  i1 = i1  i2 = i2  i3 = i3
  Threads = {t1, t2, t3}
  Slots = {i1, i2, i3}
  Size <- Extreme
  Budget = 2
  MaxCount = 2
  MaxBytes = 1
  MaxUsize = 8
  MaxFlights = 3
INVARIANTS
  BooksBalance
  NoOrphanWaiter
PROPERTIES
  KeepsPromise
  EveryReadReturns
