SPECIFICATION IntakeSpec
CONSTANTS
  t1 = t1
  s1 = s1
  s2 = s2
  w1 = w1
  w2 = w2
  u1 = u1
  u2 = u2
  e1 = e1
  e2 = e2
  e3 = e3
  e4 = e4
  g = g
  None = None
  Workers = {w1}
  Staff = {s1, s2}
  People = {u1, u2}
  Deliverers = {w1, w2}
  Channels = {"email", "sms"}
  RetryCount = 2
  MaxDeaths = 1
  Requesters = {w1, w2}
  Users = {u1, u2}
  Founder = u1
  MaxTokens = 2
  MaxRequests = 3
  Items = {"legal", "domain", "email"}
  MaxChecks = 6
  MaxRulings = 3
  Threads = {t1}
  Slots = {s1, s2}
  Events = {e1, e2}
  Unsafe = {}
  Residual = {}
  Groups = {g}
  GroupOf <- OneGroup
  QueueMax = 1
  MaxFlushes = 2
  MaxAlerts = 2
  MaxOutages = 1
  Tests = {c1, c2}
  MaxCrashes = 2
  MaxDrifts = 2
INVARIANT NothingLost
CHECK_DEADLOCK FALSE
