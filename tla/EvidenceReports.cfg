SPECIFICATION MCSpec
CONSTANTS
    alert1 = alert1
    alert2 = alert2
    alert3 = alert3
    record1 = record1
    file1 = file1
    change1 = change1
    w1 = w1
    w2 = w2
    None = None
    Workers = {w1, w2}
    LiveAlerts = {alert3}
    Categories = {"a", "b"}
    Rules <- Versions
    MaxOccurrences = 2
    MaxDeploys = 2
    MaxProfileReviews = 1
    Samples <- SampleFiles
    Uploads = {"upload"}
    Contents = {"classified", "garbled", "plain"}
    SampleOf <- SampleContents
    Unreadable = {"garbled"}
    Classified = {"classified"}
    MaxRequests = 4
    MaxCrashes = 1
    Alerts = {alert3}
    Records = {}
    Files = {}
    Changes = {change1}
    ReviewDecisions = {"approved", "rejected_false_positive", "request_more_evidence"}
    StatusInputs = {"not_started"}
    ModeInputs = {"controlled_patch"}
    MaxAnalyses = 2
    MaxReviews = 3
    MaxDiagnoses = 1
    MaxActions = 1
    MaxImplementations = 1
    MaxTests = 2
    MaxRetests = 2
SYMMETRY Interchangeable
INVARIANTS
    SnapshotCoversFindings
    ReadyIsProven
    ReadyMatches
    NextActionLeadsOn
    ScreensTellOneChain
    ProfilesSettle
    CombinedTogether
    FilesKept
    StatusTellsEvents
    FoundOnce
PROPERTY RefusedForGood
CHECK_DEADLOCK FALSE
