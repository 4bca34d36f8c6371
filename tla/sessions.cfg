SPECIFICATION FairSpec
CONSTANTS
    Tools <- OneOfEachKind
    MaxRounds = 2
    MaxCalls = 2
    Configs <- AllConfigs
CHECK_DEADLOCK FALSE
INVARIANTS
    TypeOK
    OnlyPermittedRuns
    AnsweredBeforeChat
    RoundsBounded
PROPERTIES
    SessionEnds
    FollowsDialogue
