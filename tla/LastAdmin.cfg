SPECIFICATION Spec
CONSTANTS
  Workers = {w1}
  Users = {u1, u2}
  Founder = u1
  MaxTokens = 1
  MaxRequests = 5
CHECK_DEADLOCK FALSE
PROPERTY LastAdminKept
