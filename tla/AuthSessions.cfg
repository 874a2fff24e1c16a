\* Two concurrent requests, one token, the admin and one account to register.
\* A token issued at 0 is valid until 1, in the leeway at 2, dead at 3.
SPECIFICATION Spec
CONSTANTS
  root = root
  guest = guest
  t1 = t1
  t2 = t2
  q1 = q1
  q2 = q2
  Users <- MCUsers
  Admin = root
  Jtis <- MCJtis1
  Requests <- MCRequests
  TTL = 1
  Leeway = 1
  MaxNow = 3
SYMMETRY RequestSymmetry
INVARIANTS
  TypeOK
  LogoutHoldsUntilExpiry
  DisabledTakesEffect
  DemotionTakesEffect
