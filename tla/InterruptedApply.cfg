SPECIFICATION Spec
CONSTANTS
    Workers = {w1}
    Tests = {t1}
    MaxCrashes = 1
    MaxDrifts = 0
INVARIANT InterruptedApplyIsMarked
CHECK_DEADLOCK FALSE
