SPECIFICATION FairSpec
CONSTANTS
    j1 = j1  j2 = j2  j3 = j3
    NoJob = NoJob  NoTurn = NoTurn
    Jobs = {j1}
    Intents <- TurnIntents
    Conversation <- OneConversation
    Callers = {"scheduler"}
    MaxQueue = 2
    MaxAttempts = 2
    BufferCap = 2
    TurnEndings <- AllEndings
    TurnReports = {"activity", "text", "retriable_error"}
INVARIANTS
    UncertainNeverReplayed ReportsCount
PROPERTIES
    RunningEnds
