SPECIFICATION ControllerSpec
CONSTANTS
    staged = staged
    legacy = legacy
    report = report
    NoArtifact = NoArtifact
    NoJob = NoJob
    NoWork = NoWork
    Job = {staged, legacy}
    MaxAttempts = 1
    ResumeBound = 0
    Step <- MCStep
    JobOf <- MCJobOf
    Ordinal <- MCOrdinal
    DependsOn <- MCDependsOn
    InitialStep = {report}
    ManualGate = {report}
    ManualCheckpoint = {}
    Validate = {report}
    Deliver = {report}
    AttemptBound = 1
    RevisionBound = 1
    Queue <- MCQueue
    ModelPolicyVersion = 1
    ReportOutcome = {"completed"}
CONSTRAINT NotPaused
INVARIANTS
    ControllerTypeOK
    ExecutionHeedsOwner
PROPERTIES
    StartsAreGuarded
