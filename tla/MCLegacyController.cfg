SPECIFICATION ControllerSpec
CONSTANTS
    staged = staged
    legacy = legacy
    report = report
    NoArtifact = NoArtifact
    NoJob = NoJob
    NoWork = NoWork
    Job = {legacy}
    MaxAttempts = 2
    ResumeBound = 1
    Step = {}
    JobOf <- LegacyJobOf
    Ordinal <- LegacyOrdinal
    DependsOn <- LegacyDependsOn
    InitialStep = {}
    ManualGate = {}
    ManualCheckpoint = {}
    Validate = {}
    Deliver = {}
    AttemptBound = 1
    RevisionBound = 1
    Queue <- LegacyQueue
    ModelPolicyVersion = 0
    ReportOutcome = {"completed", "retryable"}
PROPERTIES
    UncertainIsNotReplayed
    QueuedWithinBudget
    QueuedWorkIsTaken
