SPECIFICATION OperationsSpec
CONSTANTS
    Owner = {o1}
    Updater = up
    InitialMarker <- MCMarkers
    ChangeBound = 1
    CrashBound = 1
    FaultBound = 1
    ApplyBound = 1
    Kept = {j1, j2}
    RunFile = {f1, f2}
    PlanBound = 2
    RewriteBound = 2
    BreakBound = 2
    ScheduleCount = 2
    Interval <- MCInterval
    JiraSchedule = {2}
    CollectionBudget = 2
    RetryDelay = 1
    ClockBound = 3
    OccurrenceBound = 3
    TroubleBound = 1
    PersonBound = 1
    MailPages <- MCPages
    MailBound = 3
    EditBound = 1
    MailFaultBound = 1
    IssueSource <- MCIssues
    MaxPages = 3
    MaxIssues = 4
    JiraFaultBound = 3
    Artifact = {a1, a2}
INVARIANTS
    OperationsTypeOK
    InstallationIsAccountedFor
    OnlyReviewedContentIsRemoved
    EachIntervalOnce
    CollectionsResume
    RestoresAreSafe
PROPERTIES
    UpdateSparesOwner
CHECK_DEADLOCK FALSE
