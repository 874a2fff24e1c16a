\* Three jobs: one owns an account's lock, one gives up waiting for it, one
\* takes the lock that was released.  Two accounts, so that a sticky job can be
\* handed the other one.  Two permits, so that two jobs pass the gate together
\* on the last image, and a third follows a request that was given up.
SPECIFICATION Pipeline
CONSTANTS
  j1 = j1
  j2 = j2
  j3 = j3
  e1 = e1
  e2 = e2
  Jobs <- MCJobs3
  Emails <- MCEmails2
  NoEmail = NoEmail
  SlotLimit = 2
  Permits = 2
  MinQuota = 1
  Quota <- MCOneImage
SYMMETRY JobSymmetry
CHECK_DEADLOCK FALSE
INVARIANTS
  TypeOK
  SlotsAccounted
  LocksHeldByLiveJobs
  DoubleHitOnlyAfterTimeout
  OverrunsAreBounded
