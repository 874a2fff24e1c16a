\* Two tokens: a session that is over, and one used to look at it.
SPECIFICATION Spec
CONSTANTS
  root = root
  guest = guest
  t1 = t1
  t2 = t2
  q1 = q1
  q2 = q2
  Users <- MCUsers
  Admin = root
  Jtis <- MCJtis2
  Requests <- MCRequests
  TTL = 1
  Leeway = 1
  MaxNow = 3
SYMMETRY RequestSymmetry
INVARIANT SessionEndsAtLogout
