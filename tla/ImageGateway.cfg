\* Three requests compete for one permit.  The pool account 1 is unknown until
\* the helper lists it.  No symmetry: the run also checks liveness.
SPECIFICATION FairSpec
CONSTANTS
  r1 = r1
  r2 = r2
  r3 = r3
  Requests <- MCRequests3
  Emails = {1, 2}
  Pin = 2
  Configured = {2}
  HelperEmails = {1}
  Permits = 1
  MaxAttempts = 2
INVARIANTS
  TypeOK
  PermitsConserved
  QueueConsistent
  MembersStayOnPin
  RetryDiscipline
  AnswerIsLastAttempt
PROPERTIES
  AdmissionIsBounded
  EveryRequestAnswered
