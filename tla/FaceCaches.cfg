\* Three requests on the pin or one pool account.  An entry is good for two
\* ticks, a call takes up to one, and time runs long enough for an entry to age
\* out and be read again.
SPECIFICATION Spec
CONSTANTS
  t1 = t1
  t2 = t2
  t3 = t3
  pin = pin
  pool = pool
  Threads <- MCThreads
  Emails <- MCEmails
  Pin = pin
  NoEntry = NoEntry
  TTL = 2
  Latency = 1
  MaxNow = 4
SYMMETRY ThreadSymmetry
INVARIANTS
  TypeOK
  LocksHeldInside
PROPERTIES
  ImagesAreGated
  NothingServedStale
  BurstCostsOneRefresh
  QuotaNeverGoesBack
\* Every request ends.
CHECK_DEADLOCK FALSE
