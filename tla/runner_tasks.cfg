SPECIFICATION MCSpec
CONSTANTS
    r1 = r1  r2 = r2  t1 = t1  t2 = t2
    Runners = {r1, r2}
    Tasks = {t1, t2}
    NoTask = NoTask  NoRunner = NoRunner
    HeartbeatReports <- OnlineReports
    MaxEnrollments = 1
    MaxCredentials = 1
    MaxEpoch = 2
    MaxSequence = 2
    MaxHandlers = 2
    StatusReports = {"running", "awaiting_confirmation"}
    ResultReports = {"completed"}
SYMMETRY RunnerSymmetry
INVARIANTS
    ActiveLeaseIsCurrent CurrentIsAssigned OutcomeIsVouchedFor
PROPERTIES
    RunningIsNeverTransferred
CHECK_DEADLOCK FALSE
