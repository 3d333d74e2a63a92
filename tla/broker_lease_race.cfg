SPECIFICATION ExecutionSpec
CONSTANTS
    k1 = k1  k2 = k2  b1 = b1  b2 = b2  t1 = t1  p1 = p1  p2 = p2
    Keys = {k1, k2}
    Brokers = {b1, b2}
    Targets = {t1}
    Configs <- MCOneConfig
    EvidenceIds = {1}
    Scopes = {"addon"}
    ProposalTTL = 2
    EvidenceLives = {3}
    LeaseTTL = 1
    MaxTime = 1
    MaxVersion = 0
SYMMETRY MCSymmetry
PROPERTY LeaseBlocksSecondWrite
CHECK_DEADLOCK FALSE
