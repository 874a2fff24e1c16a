\* The bridge's own claim: one job at a time on an account.
SPECIFICATION Spec
CONSTANTS
  j1 = j1
  j2 = j2
  j3 = j3
  j4 = j4
  e1 = e1
  e2 = e2
  Jobs <- MCJobs3
  Emails <- MCEmails2
  NoEmail = NoEmail
  SlotLimit = 2
SYMMETRY JobSymmetry
CHECK_DEADLOCK FALSE
INVARIANT NoDoubleHit
