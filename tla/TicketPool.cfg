\* Three tickets of one account whose list holds two, one ticket of another.
\* MaxTime 2 with TTL 1: a ticket ages, expires and, when the clock is set
\* back, is valid again.
SPECIFICATION Spec
CONSTANTS
  t1 = t1
  t2 = t2
  t3 = t3
  u1 = u1
  alice = alice
  bob = bob
  Tickets <- MCTickets
  Accounts <- MCAccounts
  AccountOf <- MCAccountOf
  TTL = 1
  MaxPerAccount = 2
  MaxTime = 2
SYMMETRY MCSymmetry
INVARIANTS
  PoolConsistent
  SingleUse
