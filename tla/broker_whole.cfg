SPECIFICATION BrokerSpec
CONSTANTS
    k1 = k1  u1 = u1  h1 = h1  h2 = h2  b1 = b1  t1 = t1  p1 = p1  p2 = p2
    Keys = {k1}  NoKey = NoKey  Unsigned = Unsigned
    Users = {u1}
    ZeroCounter = {}
    FlowIds = {1, 2, 3}
    Handlers = {h1, h2}
    ChallengeTTL = 1
    MaxPending = 2
    MaxPasskeys = 1
    Brokers = {b1}
    LeaseTTL = 1
    Targets = {t1}
    Configs <- MCConfigs
    EvidenceIds = {1}
    Scopes = {"full"}
    ProposalTTL = 1
    EvidenceLives = {2}
    MaxTime = 1
    MaxVersion = 0
SYMMETRY MCSymmetry
INVARIANTS
    NoRestartWithoutCeremony OneReceiptPerRequest
PROPERTIES
    ImplementsExecution
CHECK_DEADLOCK FALSE
