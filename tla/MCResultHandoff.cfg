SPECIFICATION Spec
CONSTANTS
    Session = {s1, s2}
    Conversation = {c1, c2}
    First = c1
    Job = {j1}
    NoOne = NoOne
    TurnBound = 1
    SwitchBound = 1
    CrashBound = 1
    TearBound = 0
    RetryBound = 1
    LateBound = 1
SYMMETRY Sessions
INVARIANTS
    HandoffTypeOK
    ReceiptsMatchSends
PROPERTIES
    ReconciledSendIsAbandoned
