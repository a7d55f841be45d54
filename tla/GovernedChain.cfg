SPECIFICATION ChainsSpec
CONSTANTS
    alert1 = alert1
    file1 = file1
    change1 = change1
    Alerts = {alert1}
    Records = {}
    Files = {file1}
    Changes = {change1}
    ReviewDecisions = {"approved", "escalated"}
    StatusInputs = {"not_started", "completed"}
    ModeInputs = {"controlled_patch"}
    MaxAnalyses = 2
    MaxReviews = 2
    MaxDiagnoses = 2
    MaxActions = 1
    MaxImplementations = 1
    MaxTests = 1
    MaxRetests = 1
INVARIANTS
    TypeOK
    ExactChains
    NoCurrentUnderStale
    ImplementedOnlyIfAccepted
    OneCurrentBranch
    ExemplarIsProven
    FixedIsProven
PROPERTIES
    NeverRevived
    OnlyUnderPermission
    ImplementsCertifiedFixes
CHECK_DEADLOCK FALSE
