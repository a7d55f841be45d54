SPECIFICATION Spec
CONSTANTS
    Alerts = {alert1}
    Records = {}
    Files = {file1}
    Changes = {change1}
    ReviewDecisions = {"approved"}
    StatusInputs = {"not_started"}
    ModeInputs = {"controlled_patch"}
    MaxAnalyses = 2
    MaxReviews = 2
    MaxDiagnoses = 2
    MaxActions = 2
    MaxImplementations = 1
    MaxTests = 1
    MaxRetests = 1
INVARIANT SnapshotCoversEvents
CHECK_DEADLOCK FALSE
