\* The helper also lists the pin, as it does when the pin is one of its pool
\* accounts.
SPECIFICATION Spec
CONSTANTS
  r1 = r1
  r2 = r2
  r3 = r3
  Requests <- MCRequests2
  Emails <- MCEmails
  Pin = 2
  Configured = {1, 2}
  HelperEmails = {2, 3}
  Permits = 1
  MaxAttempts = 5
INVARIANT UpstreamCallsCarryToken
