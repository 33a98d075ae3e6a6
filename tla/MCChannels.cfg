SPECIFICATION ChannelsSpec
CONSTANTS
    UpdateBound = 3
    Kinds <- MCKinds
    QueueSize = 1
    FileFaultBound = 1
    ExitBound = 1
    Supervisor = {u1, h1}
    ServiceUnit = u1
    Receiver = {r1, r2}
    SwitchBound = 3
    MishapBound = 3
    World <- MCWorld
    Monitor = {w1, w2}
    ManagedMonitor = w1
    AlertLimit = 4
    ObserveBound = 4
    MarkerBound = 2
INVARIANTS
    ChannelsTypeOK
    ChatRunsAlone
    AlertsFollowOutcomes
PROPERTIES
    ImplementsMailbox
    EnabledChatReturns
CHECK_DEADLOCK FALSE
