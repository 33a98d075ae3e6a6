SPECIFICATION RecordsSpec
CONSTANTS
    Session = {s1, s2}
    Conversation = {c1, c2}
    First = c1
    Job = {j1}
    NoOne = NoOne
    TurnBound = 2
    SwitchBound = 2
    CrashBound = 1
    TearBound = 1
    BuiltIn = "b0"
    Plain = "b1"
    Skill <- MCSkill
    AllowedStatus = {"completed", "waiting_input"}
    AllowedOutcome = {"pass"}
    RunBound = 2
    AttemptBound = 2
    EvaluationBound = 2
    ComparisonBound = 1
    ProposalBound = 1
    ReviewBound = 2
    DisturbanceBound = 1
    OpsCaller = {p1, p2}
    Work = {"w1"}
    Cycle = {1, 2}
    Concern <- MCConcern
    Policy <- MCPolicy
    EventBound = 3
    TimeBound = 1
    GrantBound = 3
    SetupTask = {t1}
    CredentialFaults = 1
    SecretUser = {chat, web}
    KeyBound = 2
    LossBound = 2
INVARIANTS
    AllRecordsTypeOK
    ConversationHoldsStill
    CredentialsAreKept
PROPERTIES
    RepliesAnswerTheirRequest
    SelectionsRestOnEvidence
    LedgerIsAccountable
