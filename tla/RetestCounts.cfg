SPECIFICATION Spec
CONSTANTS
  Files = {1, 2, 3, 4}
  TypeOf <- TypesInCase
  EventMarks <- EventsInCase
  FindingMarks <- ExposedInCase
  Findings <- FindingsInCase
  TimeOf <- TimesInCase
  Causes = {1, 2, 3}
  Rule <- RuleFile
  Penalty <- PenaltyFile
  TopN = 5
  Known = {"service", "endpoint", "time"}
  Limits = {2, 25}
  MaxAnalyses = 1
  MaxStudies = 1
PROPERTY RetestNeverCounts
CHECK_DEADLOCK FALSE
