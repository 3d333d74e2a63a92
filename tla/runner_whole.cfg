SPECIFICATION FairSpec
CONSTANTS
    r1 = r1  r2 = r2  t1 = t1  t2 = t2
    Runners = {r1}
    Tasks = {t1}
    NoTask = NoTask  NoRunner = NoRunner
    HeartbeatReports <- WholeReports
    MaxEnrollments = 2
    MaxCredentials = 2
    MaxEpoch = 1
    MaxSequence = 3
    MaxHandlers = 1
    StatusReports = {"running", "recovery_required"}
    ResultReports = {"completed"}
INVARIANTS
    OneWayIn
PROPERTIES
    DrainEnds NoTaskIsForgotten
CHECK_DEADLOCK FALSE
