\* The real keys the classes declare, on every way to head.
SPECIFICATION Spec
INVARIANT ModelKeysEnforced
CHECK_DEADLOCK FALSE
