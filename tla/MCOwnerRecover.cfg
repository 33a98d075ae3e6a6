SPECIFICATION Spec
CONSTANTS
    Session = {s1, s2}
    Conversation = {c1, c2}
    First = c1
    Job = {j1}
    NoOne = NoOne
    TurnBound = 1
    SwitchBound = 1
    CrashBound = 0
    TearBound = 0
    RetryBound = 0
    LateBound = 0
SYMMETRY Sessions
PROPERTY AbandonedSendHasNoSender
