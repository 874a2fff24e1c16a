\* An account that is disabled while it holds a token.
SPECIFICATION Spec
CONSTANTS
  root = root
  guest = guest
  t1 = t1
  t2 = t2
  q1 = q1
  q2 = q2
  Users <- MCUsers
  Admin = root
  Jtis <- MCJtis2
  Requests <- MCRequests
  TTL = 1
  Leeway = 1
  MaxNow = 3
SYMMETRY RequestSymmetry
INVARIANT RegisterHonoursDisable
