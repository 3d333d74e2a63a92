SPECIFICATION Spec
CONSTANTS
    j1 = j1  j2 = j2  j3 = j3
    NoJob = NoJob  NoTurn = NoTurn
    Jobs = {j1, j2, j3}
    Intents <- CarIntents
    Conversation <- OneConversation
    Callers = {"scheduler", "tool"}
    MaxQueue = 2
    MaxAttempts = 1
    BufferCap = 1
    TurnEndings <- OneEnding
    TurnReports = {"tool"}
INVARIANTS
    OutcomeOfItsTurn CommandedOnConfirmation
PROPERTIES
    KeepsLifecycle
