SPECIFICATION QueueSpec
CONSTANTS
    Job = {j1}
    MaxAttempts = 3
    ResumeBound = 2
INVARIANTS
    QueueTypeOK
    RunningAttemptIsCurrent
    NoUnreviewedRerun
PROPERTIES
    HistoryIsFinal
