SPECIFICATION Spec
CONSTANTS
    j1 = j1
    validate = validate
    deliver = deliver
    NoArtifact = NoArtifact
    Job = {j1}
    MaxAttempts = 1
    ResumeBound = 1
    Step <- ChainStep
    JobOf <- ChainJobOf
    Ordinal <- ChainOrdinal
    DependsOn <- ChainDependsOn
    InitialStep = {validate}
    ManualGate = {deliver}
    ManualCheckpoint = {}
    Validate = {validate}
    Deliver = {deliver}
    AttemptBound = 2
    RevisionBound = 2
CONSTRAINT OpaqueBound
INVARIANTS
    TypeOK
    LiveAttemptIsCurrent
    PinnedInputsStayCurrent
    OutputComesFromCompletedAttempt
    SendingIsCurrentRevision
    ResultsMatchOutputs
    ClosedJobHasNoWork
    CompletedMeansHandedOff
PROPERTIES
    LateCallersChangeNothing
