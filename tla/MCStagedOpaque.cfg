SPECIFICATION Spec
CONSTANTS
    j1 = j1
    validate = validate
    deliver = deliver
    NoArtifact = NoArtifact
    Job = {j1}
    MaxAttempts = 1
    ResumeBound = 1
    Step <- ChainStep
    JobOf <- ChainJobOf
    Ordinal <- ChainOrdinal
    DependsOn <- ChainDependsOn
    InitialStep = {validate, deliver}
    ManualGate = {}
    ManualCheckpoint = {j1}
    Validate = {validate}
    Deliver = {deliver}
    AttemptBound = 1
    RevisionBound = 1
INVARIANT StagedJobHasNoOpaqueAttempt
