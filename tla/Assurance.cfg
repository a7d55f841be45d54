SPECIFICATION AssuranceSpec
CONSTANTS
  w1 = w1
  w2 = w2
  a1 = a1
  audit1 = audit1
  evidence1 = evidence1
  row = row
  Workers = {w1, w2}
  MaxVersion = 1
  MaxDecision = 3
  Actions = {a1}
  MaxEvaluations = 3
  MaxReopened = 1
  Suppressions = {"timed"}
  Txns = {t1, t2}
  Item = {audit1, evidence1}
  Rows = {row}
  Plans <- LockOrders
  Scope <- ScopeOf
  Scopes = {"global", "incident"}
  MaxDamage = 1
  Files = {1, 2, 3, 4}
  TypeOf <- TypesInCase
  EventMarks <- EventsInCase
  FindingMarks <- ExposedInCase
  Findings <- FindingsInCase
  TimeOf <- TimesInCase
  Causes = {1, 2, 3}
  Rule <- RuleFile
  Penalty <- PenaltyFile
  TopN = 5
  Known = {"service", "endpoint", "time"}
  Limits = {2, 25}
  MaxAnalyses = 1
  MaxStudies = 1
INVARIANTS
  ChainIsHistory
  BreachRecordsTrue
  MinimalSetIsEnough
  HeadServes
PROPERTIES
  VerdictIsTrue
  LogSpec
  RequestsEnd
  ClosedUntilReopened
  UpgradesOnlyAdd
CHECK_DEADLOCK FALSE
