CONSTANTS
    s1 = s1
    s2 = s2
    a1 = a1
    a2 = a2
    b1 = b1
    k1 = k1
    k2 = k2
    cron = cron
    cron2 = cron2
    sync = sync
    h1 = h1
    h2 = h2
    h3 = h3
    w1 = w1
    p1 = p1
    p2 = p2
    x1 = x1
    x2 = x2
    y1 = y1
    Sources = {s1}
    Browser = {}
    Urls = {a1, k1}
    SourceOf <- PageAndLinkSource
    PageNo <- PageAndLinkNo
    LinksOn <- PageAndLinkFound
    Procs = {p1, p2}
    Seeders = {cron, sync}
    Scheduled = {cron}
    TaskProc <- CronInP1
    NoTask = NoTask
    Workers = {h1, h2}
    Crews = {x1, y1}
    CrewProc <- EachProc
    CrewLane <- EachLane
    Loops = {h1, h2}
    CrewOf <- EachCrew
    NameOf <- OwnName
    NoWorker = NoWorker
    MaxCycles = 2
    MaxAttempts = 2
    LaneLimit <- OneHttp
    SourceLimit = 2
    LinkMaxPages = 1
    RecrawlMaxPages = 1
    LinksPerPage = 1
    Page1First = TRUE
    FaultKinds = {}
    MaxFaults = 0
    MaxInputs = 1
SPECIFICATION Spec
INVARIANTS
    CycleTypeOK
    LimitsHold
    AttemptsBounded
    ListingInOpenCycle
PROPERTIES
    QueueSpec
    OutcomeOfItsClaim
    LiveLeaseIsExclusive
