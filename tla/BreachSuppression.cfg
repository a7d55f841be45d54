SPECIFICATION Spec
CONSTANTS
    Workers = {w1}
    MaxVersion = 1
    MaxDecision = 1
    Actions = {a1}
    MaxEvaluations = 2
    MaxReopened = 0
    Suppressions = {"timed", "forever"}
INVARIANT CriticalIsTimeBounded
CHECK_DEADLOCK FALSE
