CONSTANTS
    s1 = s1
    s2 = s2
    a1 = a1
    a2 = a2
    b1 = b1
    k1 = k1
    k2 = k2
    cron = cron
    cron2 = cron2
    sync = sync
    h1 = h1
    h2 = h2
    h3 = h3
    w1 = w1
    p1 = p1
    p2 = p2
    x1 = x1
    x2 = x2
    y1 = y1
    Sources = {s1, s2}
    Browser = {s2}
    Urls = {a1, k1, b1}
    SourceOf <- TwoLanesSource
    PageNo <- TwoLanesNo
    LinksOn <- TwoLanesFound
    Procs = {p1}
    Seeders = {cron}
    Scheduled = {cron}
    TaskProc <- AllInP1
    NoTask = NoTask
    Workers = {h1, w1}
    Crews = {x1, x2}
    CrewProc <- LanesProc
    CrewLane <- LanesLane
    Loops = {h1, w1}
    CrewOf <- LanesCrew
    NameOf <- OwnName
    NoWorker = NoWorker
    MaxCycles = 1
    MaxAttempts = 2
    LaneLimit <- OneEach
    SourceLimit = 1
    LinkMaxPages = 1
    RecrawlMaxPages = 1
    LinksPerPage = 1
    Page1First = TRUE
    FaultKinds = {"crash", "timeout"}
    MaxFaults = 1
    MaxInputs = 1
SPECIFICATION FairSpec
INVARIANTS
    QuietWhenClosed
    LaneWorkedUntilDone
PROPERTIES
    QueuedPagesResolve
