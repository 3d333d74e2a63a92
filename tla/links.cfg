SPECIFICATION Spec
\* What arrives, ends: the documents and the requests are bounded.
CHECK_DEADLOCK FALSE
SYMMETRY Symmetric
CONSTANTS
  Controls = {c1, c2}
  Creates = {n1}
  Reads = {f1}
  Kept = 1
  MaxRequests = 2
  MaxRevision = 2
  MaxSnapshots = 2
  MaxTroubles = 1
  Threads = {t1, t2}
  Edited = {t1}
  SnapshotsPerThread = 1
  EventsPerHost = 1
  MaxChanges = 2
  MaxQueue = 2
  MaxDocuments = 3
  MaxEvents = 2
  MaxBreaks = 1
  Handlers = {h1, h2, h3}
  Runners = {r1, r2}
  MaxConnections = 2
  Messages = {1, 2}
  Keys = {1}
  Source <- MCSource
  Ttls = {2}
  DedupeWindow = 2
  RateWindow = 1
  SourceLimit = 1
  GlobalLimit = 1
  QueueSize = 1
  MaxAttempts = 2
  MaxClock = 3
  MaxLosses = 1
INVARIANTS ControlInOrder JournalTellsTheMac EventsAreNotMissed ConnectedIsReachable NotifiedOnce
PROPERTIES PictureNeverGoesBack
