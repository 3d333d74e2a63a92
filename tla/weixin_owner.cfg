SPECIFICATION Spec
CONSTANTS
    owner = owner
    member = member
    first = first
    second = second
    session = session
    invite = invite
    NoOne = NoOne
    NoAccount = NoAccount
    NoSession = NoSession
    People = {owner, member}
    Accounts = {first, second}
    Sessions = {session}
    Invites = {invite}
    Scans <- MCScans
    FirstAccount = first
    MaxTries = 1
    MaxUsers = 2
    MaxIdentities = 2
    Contents <- MCContents
    MaxMessages = 3
    MaxItems = 2
    Controls = {"continue"}
    MaxRuns = 2
    MaxSequence = 2
    MaxCommands = 2
    MaxFailures = 1
    Manifests = {m1, m2}
    MaxGeneration = 3
    MaxStops = 2
    Entries = {e1, e2, e3}
    MaxAmount = 2
    Offers = {o1, o2}
    MaxEdits = 2
    page = page
    other = other
    chat = chat
    Uploads = {page, other, chat}
    PageUploads = {page, other}
    Content <- MCContent
    MediaThreads = {t1, t2}
    MaxKills = 1
    receipt = receipt
    copy = copy
    bill = bill
    Attachments = {receipt, copy, bill}
    Bytes <- MCBytes
    MaxHalts = 2
    NoAttachment = NoAttachment
    Proposals = {p1, p2}
    Approvers = {a1, a2}
    NoOwner = NoOwner
    Callers = {h1, h2}
    Ttl = 2
    MaxPending = 1
    MaxClock = 2
    MaxCalls = 4
INVARIANT
    OwnerKeepsAccount
CHECK_DEADLOCK FALSE
